--------------------------- MODULE HostedAppProofs ---------------------------
(***************************************************************************)
(* What HostedApp guarantees for every set of runs, users and profiles and *)
(* any number of late requests.                                            *)
(***************************************************************************)
EXTENDS HostedApp, FiniteSetTheorems, TLAPS

Requests == Reservations \cup Changes

\* the app a may become b: what no request can undo, or give away
Later(a, b) ==
  \/ b = a
  \/ /\ b \in Apps
     /\ a # NoApp => /\ b.owner = a.owner
                     /\ b.profile = a.profile
                     /\ a.deleted => b.deleted
                     /\ b.fresh => a.fresh
                     /\ a.initialized => b.initialized

\* the app a may become b by request req
Served(req, a, b) ==
  /\ Later(a, b)
  /\ b \in Apps
  /\ req.kind = "reserve" => a = NoApp /\ b = Reserved(req)
  /\ req.kind # "reserve" => a # NoApp
  /\ req.kind # "workspace" /\ a # NoApp /\ a.private => b.private
  /\ req.kind = "private" => b.private
  /\ req.kind = "initialize" => b.initialized
  /\ req.kind \notin {"initialize", "deploy"} /\ b.initialized => a # NoApp /\ a.initialized

LEMMA EffectsServe ==
  ASSUME app \in Apps \cup {NoApp}, NEW req \in Requests, NEW b \in Effects(req)
  PROVE  Served(req, app, b)
<1>1. CASE req \in Reservations
  <2>1. req.kind = "reserve" /\ req.user \in Users /\ req.profile \in Profiles
    BY <1>1 DEF Reservations
  <2>2. app = NoApp /\ b = Reserved(req)
    BY <2>1 DEF Effects
  <2>3. b \in Apps /\ ~b.initialized
    BY <2>1, <2>2 DEF Reserved, Apps
  <2> QED
    BY <2>1, <2>2, <2>3 DEF Served, Later
<1>2. CASE req \in Changes
  <2>k. req.kind \in {"private", "workspace", "initialize", "deploy", "rollback", "delete"}
    BY <1>2 DEF Changes
  <2>1. app \in Apps /\ app # NoApp
    BY <2>k DEF Effects
  <2>2. CASE req.kind = "private"
    BY <2>1, <2>2 DEF Effects, Served, Later, Apps
  <2>3. CASE req.kind = "workspace"
    BY <2>1, <2>3 DEF Effects, Served, Later, Apps
  <2>4. CASE req.kind = "initialize"
    BY <2>1, <2>4 DEF Effects, Served, Later, Apps
  <2>5. CASE req.kind = "deploy"
    BY <2>1, <2>5 DEF Effects, Served, Later, Apps
  <2>6. CASE req.kind = "delete"
    BY <2>1, <2>6 DEF Effects, Served, Later, Apps
  <2>7. CASE req.kind = "rollback"
    BY <2>1, <2>7 DEF Effects, Served, Later, Apps
  <2> QED
    BY <2>k, <2>2, <2>3, <2>4, <2>5, <2>6, <2>7
<1> QED
  BY <1>1, <1>2 DEF Requests

LEMMA Exchanged ==
  ASSUME app \in Apps \cup {NoApp}, NEW req \in Requests, NEW reply \in Replies,
         Exchange(req, reply)
  PROVE  /\ app' = app \/ Served(req, app, app')
         /\ reply = "ok" => Served(req, app, app')
         /\ late' = late \/ (late' = late \cup {req} /\ Cardinality(late') <= MaxLate)
BY EffectsServe DEF Exchange, Replies

-----------------------------------------------------------------------------
(***************************************************************************)
(* Type correctness, with what a run at a label is about.                  *)
(***************************************************************************)

Steps ==
  \A r \in Runs :
    /\ at[r] = "idle" <=> job[r] = NoJob
    /\ at[r] \in {"reserve", "inspect"} => job[r].command = "create"
    /\ at[r] = "private" =>
         /\ job[r].command \in {"create", "visibility"}
         /\ job[r].command = "create" => job[r].private
    /\ at[r] = "look" => job[r].command = "initialize"
    /\ at[r] = "initialize" =>
         /\ job[r].command \in {"create", "initialize"}
         /\ job[r].command = "create" => job[r].init
    /\ at[r] = "send" => job[r].command \in {"deploy", "rollback", "delete"}

Typed == TypeOK /\ IsFiniteSet(late) /\ Steps

LEMMA JobFacts ==
  ASSUME NEW j \in Jobs
  PROVE  /\ j # NoJob
         /\ j.user \in Users
         /\ j.command \in {"create", "visibility", "initialize", "deploy",
                           "rollback", "delete"}
         /\ j.command = "create" =>
              j.profile \in Profiles /\ j.private \in BOOLEAN /\ j.init \in BOOLEAN
         /\ j.command = "visibility" => j.private \in BOOLEAN
BY DEF Jobs, Creates, NoJob

LEMMA RequestFacts ==
  ASSUME NEW j \in Jobs
  PROVE  /\ j.command = "create" => Reservation(j) \in Requests
         /\ \A kind \in {"private", "workspace", "initialize", "deploy", "rollback",
                       "delete"} :
              Change(kind, j) \in Requests /\ Change(kind, j).kind = kind
         /\ Reservation(j).kind = "reserve"
BY JobFacts DEF Requests, Reservations, Changes, Reservation, Change

LEMMA Started == Init => Typed
<1> SUFFICES ASSUME Init PROVE Typed
  OBVIOUS
<1>1. Cardinality({}) = 0 /\ IsFiniteSet({})
  BY FS_EmptySet
<1>2. IsFiniteSet(late) /\ Cardinality(late) <= MaxLate
  BY <1>1, MaxLateAssumption DEF Init
<1>3. TypeOK
  BY <1>2 DEF Init, TypeOK, Labels
<1>4. Steps
  BY DEF Init, Steps
<1> QED
  BY <1>2, <1>3, <1>4 DEF Typed

\* one step, with the app and the late requests it leaves
LEMMA AskedIsTyped ==
  ASSUME Typed, NEW req \in Requests, NEW reply \in Replies, Exchange(req, reply)
  PROVE  /\ app' \in Apps \cup {NoApp}
         /\ late' \subseteq Requests
         /\ IsFiniteSet(late')
         /\ Cardinality(late') <= MaxLate
<1>1. app \in Apps \cup {NoApp} /\ late \subseteq Requests
  BY DEF Typed, TypeOK, Requests
<1>2. /\ app' = app \/ app' \in Apps
      /\ late' = late \/ (late' = late \cup {req} /\ Cardinality(late') <= MaxLate)
  BY <1>1, Exchanged DEF Served
<1>3. IsFiniteSet(late) /\ Cardinality(late) <= MaxLate
  BY DEF Typed, TypeOK
<1>4. IsFiniteSet(late \cup {req})
  BY <1>3, FS_AddElement
<1>5. CASE late' = late
  BY <1>1, <1>2, <1>3, <1>5
<1>6. CASE late' = late \cup {req} /\ Cardinality(late') <= MaxLate
  BY <1>1, <1>2, <1>4, <1>6
<1> QED
  BY <1>2, <1>5, <1>6

LEMMA TypedStep == Typed /\ [Next]_vars => Typed'
<1> SUFFICES ASSUME Typed, [Next]_vars PROVE Typed'
  OBVIOUS
<1> USE DEF Typed, TypeOK, Steps, Goto, Report, End, Go
<1>1. ASSUME NEW r \in Runs, NEW j \in Jobs, Begin(r, j) PROVE Typed'
  BY <1>1, JobFacts DEF Begin, Start, FirstStep, Barred, MayShow, Labels
<1>2. ASSUME NEW r \in Runs, NEW reply \in Replies, Reserve(r, reply) PROVE Typed'
  <2>1. job[r] \in Jobs /\ job[r].command = "create"
    BY <1>2 DEF Reserve, Labels
  <2>2. /\ app' \in Apps \cup {NoApp} /\ late' \subseteq Requests
        /\ IsFiniteSet(late') /\ Cardinality(late') <= MaxLate
    BY <1>2, <2>1, RequestFacts, AskedIsTyped DEF Reserve
  <2> QED
    BY <1>2, <2>1, <2>2, JobFacts
    DEF Reserve, Keep, OutcomeIsUnknown, Accept, AfterReserve, Labels, Requests
<1>3. ASSUME NEW r \in Runs, Adopt(r) PROVE Typed'
  BY <1>3, JobFacts DEF Adopt, Accept, AfterReserve, Labels
<1>4. ASSUME NEW r \in Runs, GiveUp(r) PROVE Typed'
  BY <1>4 DEF GiveUp, Labels
<1>5. ASSUME NEW r \in Runs, NEW reply \in Replies, SetVisibility(r, reply) PROVE Typed'
  <2>1. job[r] \in Jobs /\ job[r].command \in {"create", "visibility"}
    BY <1>5 DEF SetVisibility, Labels
  <2>2. /\ app' \in Apps \cup {NoApp} /\ late' \subseteq Requests
        /\ IsFiniteSet(late') /\ Cardinality(late') <= MaxLate
    BY <1>5, <2>1, RequestFacts, AskedIsTyped DEF SetVisibility
  <2> QED
    BY <1>5, <2>1, <2>2, JobFacts DEF SetVisibility, Labels, Requests
<1>6. ASSUME NEW r \in Runs, Look(r) PROVE Typed'
  BY <1>6 DEF Look, Labels
<1>7. ASSUME NEW r \in Runs, NEW reply \in Replies, Initialize(r, reply) PROVE Typed'
  <2>1. job[r] \in Jobs
    BY <1>7 DEF Initialize, Labels
  <2>2. /\ app' \in Apps \cup {NoApp} /\ late' \subseteq Requests
        /\ IsFiniteSet(late') /\ Cardinality(late') <= MaxLate
    BY <1>7, <2>1, RequestFacts, AskedIsTyped DEF Initialize
  <2> QED
    BY <1>7, <2>1, <2>2 DEF Initialize, Labels, Requests
<1>8. ASSUME NEW r \in Runs, NEW reply \in Replies, Send(r, reply) PROVE Typed'
  <2>1. job[r] \in Jobs /\ job[r].command \in {"deploy", "rollback", "delete"}
    BY <1>8 DEF Send, Labels
  <2>2. /\ app' \in Apps \cup {NoApp} /\ late' \subseteq Requests
        /\ IsFiniteSet(late') /\ Cardinality(late') <= MaxLate
    BY <1>8, <2>1, RequestFacts, AskedIsTyped DEF Send
  <2> QED
    BY <1>8, <2>1, <2>2 DEF Send, Keep, OutcomeIsUnknown, Labels, Requests
<1>9. ASSUME NEW r \in Runs, Return(r) \/ Crash(r) PROVE Typed'
  <2>1. /\ at' = [at EXCEPT ![r] = "idle"] /\ result' = [result EXCEPT ![r] = "running"]
        /\ job' = [job EXCEPT ![r] = NoJob]
        /\ UNCHANGED <<app, late, casual>>
    BY <1>9 DEF Return, Crash, Forget
  <2>2. TypeOK'
    BY <1>9, <2>1 DEF Return, Crash, Forget, Labels
  <2>3. Steps'
    BY <2>1
  <2> QED
    BY <2>1, <2>2, <2>3
<1>10. ASSUME NEW req \in late, Arrive(req) PROVE Typed'
  <2>1. app' \in Apps \cup {NoApp}
    BY <1>10, EffectsServe DEF Arrive, Served, Requests
  <2>2. /\ IsFiniteSet(late \ {req}) /\ Cardinality(late \ {req}) = Cardinality(late) - 1
        /\ Cardinality(late) \in Nat
    BY <1>10, FS_RemoveElement, FS_CardinalityType
  <2> QED
    BY <1>10, <2>1, <2>2, MaxLateAssumption DEF Arrive
<1>12. ASSUME NEW r \in Runs, NEW j \in Jobs, Decline(r, j) PROVE Typed'
  BY <1>12, JobFacts DEF Decline, Start, Barred, MayShow, Labels
<1>11. CASE UNCHANGED vars
  BY <1>11 DEF vars
<1> QED
  BY <1>1, <1>2, <1>3, <1>4, <1>5, <1>6, <1>7, <1>8, <1>9, <1>10, <1>11, <1>12
  DEF Next, GoOn, Ask

LEMMA AlwaysTyped == Spec => []Typed
BY Started, TypedStep, PTL DEF Spec

\* Every variable has its type, and a run has reported exactly when it is at its
\* end, whatever the network, the platform and killed runs do.
THEOREM TypeCorrect == Spec => []TypeOK
<1>1. Typed => TypeOK
  BY DEF Typed
<1> QED
  BY <1>1, AlwaysTyped, PTL

-----------------------------------------------------------------------------
(***************************************************************************)
(* What a plain failure says, and whose app a command changes.             *)
(***************************************************************************)

\* the doubt is kept until it is reported
Doubtful ==
  /\ \A r \in Runs : at[r] = "inspect" /\ secret[r] => doubt[r]
  /\ PlainFailureIsNone

LEMMA DoubtfulStep == Typed /\ Doubtful /\ [Next]_vars => Doubtful'
<1> SUFFICES ASSUME Typed, Doubtful, [Next]_vars PROVE Doubtful'
  OBVIOUS
<1> USE DEF Typed, TypeOK, Steps, Doubtful, PlainFailureIsNone, Goto, Report, End, Go
<1>1. ASSUME NEW r \in Runs, NEW j \in Jobs, Begin(r, j) PROVE Doubtful'
  BY <1>1 DEF Begin, Start, FirstStep
<1>2. ASSUME NEW r \in Runs, NEW reply \in Replies, Reserve(r, reply) PROVE Doubtful'
  <2>1. reply = "substitute" => ~secret'[r]
    BY <1>2 DEF Reserve, Keep
  <2>2. secret'[r] => doubt'[r]
    BY <1>2 DEF Reserve, Keep, OutcomeIsUnknown
  <2>3. at'[r] = "end" /\ result'[r] = "failed" => reply = "substitute"
    BY <1>2 DEF Reserve, Accept
  <2> QED
    BY <1>2, <2>1, <2>2, <2>3 DEF Reserve, Keep, Accept
<1>3. ASSUME NEW r \in Runs, Adopt(r) PROVE Doubtful'
  BY <1>3 DEF Adopt, Accept, AfterReserve
<1>4. ASSUME NEW r \in Runs, GiveUp(r) PROVE Doubtful'
  BY <1>4 DEF GiveUp
<1>5. ASSUME NEW r \in Runs, NEW reply \in Replies, SetVisibility(r, reply) PROVE Doubtful'
  BY <1>5 DEF SetVisibility
<1>6. ASSUME NEW r \in Runs, Look(r) PROVE Doubtful'
  BY <1>6 DEF Look
<1>7. ASSUME NEW r \in Runs, NEW reply \in Replies, Initialize(r, reply) PROVE Doubtful'
  BY <1>7 DEF Initialize
<1>8. ASSUME NEW r \in Runs, NEW reply \in Replies, Send(r, reply) PROVE Doubtful'
  <2>1. job[r].command = "delete" /\ result'[r] = "failed" => ~OutcomeIsUnknown(reply)
    BY <1>8 DEF Send
  <2>2. secret'[r] => OutcomeIsUnknown(reply)
    BY <1>8 DEF Send, Keep, OutcomeIsUnknown
  <2>3. at'[r] = "end" /\ job[r].command # "create"
    BY <1>8 DEF Send
  <2> QED
    BY <1>8, <2>1, <2>2, <2>3 DEF Send, Keep
<1>9. ASSUME NEW r \in Runs, Return(r) \/ Crash(r) PROVE Doubtful'
  BY <1>9 DEF Return, Crash, Forget
<1>10. ASSUME NEW req \in late, Arrive(req) PROVE Doubtful'
  BY <1>10 DEF Arrive
<1>12. ASSUME NEW r \in Runs, NEW j \in Jobs, Decline(r, j) PROVE Doubtful'
  BY <1>12 DEF Decline, Start
<1>11. CASE UNCHANGED vars
  BY <1>11 DEF vars
<1> QED
  BY <1>1, <1>2, <1>3, <1>4, <1>5, <1>6, <1>7, <1>8, <1>9, <1>10, <1>11, <1>12
  DEF Next, GoOn, Ask

\* A create or a delete that reports a plain failure has had no effect that it
\* was not told of and will have none: what the platform grants without saying
\* so is reported as unknown, for any number of runs and late requests.
THEOREM FailureIsPlain == Spec => []PlainFailureIsNone
<1>1. Init => Doubtful
  BY DEF Init, Doubtful, PlainFailureIsNone
<1>2. Doubtful => PlainFailureIsNone
  BY DEF Doubtful
<1> QED
  BY <1>1, <1>2, DoubtfulStep, AlwaysTyped, PTL DEF Spec

\* every step leaves the app as it was or serves it a request
LEMMA AppIsLater ==
  ASSUME Typed, [Next]_vars
  PROVE  Later(app, app')
<1>1. app \in Apps \cup {NoApp} /\ \A r \in Runs : at[r] # "idle" => job[r] \in Jobs
  BY DEF Typed, TypeOK, Steps
<1>2. ASSUME NEW r \in Runs, NEW reply \in Replies, Ask(r, reply) PROVE Later(app, app')
  <2>1. PICK req \in Requests : Exchange(req, reply)
    BY <1>1, <1>2, RequestFacts
    DEF Ask, Reserve, SetVisibility, Initialize, Send, Typed, Steps
  <2> QED
    BY <1>1, <2>1, Exchanged DEF Served, Later
<1>3. ASSUME NEW req \in late, Arrive(req) PROVE Later(app, app')
  BY <1>1, <1>3, EffectsServe DEF Arrive, Served, Later, Typed, TypeOK, Requests
<1>4. ASSUME NEW r \in Runs, ~\E reply \in Replies : Ask(r, reply),
             GoOn(r) \/ Crash(r) \/ \E j \in Jobs : Begin(r, j) \/ Decline(r, j)
      PROVE  app' = app
  BY <1>4 DEF GoOn, Adopt, GiveUp, Look, Return, Crash, Forget, Begin, Decline, Start
<1>5. CASE UNCHANGED vars
  BY <1>5 DEF vars, Later
<1> QED
  BY <1>2, <1>3, <1>4, <1>5 DEF Next, GoOn, Later

\* an app that was barred from a command stays so
Sparing ==
  /\ \A r \in Runs : at[r] # "idle" /\ barred[r] => Barred(job[r])
  /\ SparesOthers

LEMMA SparingStep == Typed /\ Sparing /\ [Next]_vars => Sparing'
<1> SUFFICES ASSUME Typed, Sparing, [Next]_vars PROVE Sparing'
  OBVIOUS
<1>t. /\ app \in Apps \cup {NoApp}
      /\ \A r \in Runs : at[r] # "idle" => job[r] \in Jobs
      /\ \A r \in Runs : at[r] \in {"reserve", "inspect"} => job[r].command = "create"
      /\ at \in [Runs -> Labels] /\ job \in [Runs -> Jobs \cup {NoJob}]
      /\ barred \in [Runs -> BOOLEAN]
  BY DEF Typed, TypeOK, Steps
<1>l. \A j \in Jobs : Barred(j) => Barred(j)'
  BY <1>t, AppIsLater, NoAppAssumption DEF Later, Barred
<1> USE <1>t DEF Sparing, SparesOthers, Goto, Report, End, Go
<1>1. ASSUME NEW r \in Runs, NEW j \in Jobs, Begin(r, j) PROVE Sparing'
  <2>1. at'[r] \in {"private", "initialize"} => j.command = "visibility"
    BY <1>1, JobFacts DEF Begin, Start, FirstStep
  <2>2. barred'[r] => Barred(j)'
    BY <1>1, <1>l DEF Begin, Start
  <2> QED
    BY <1>1, <1>l, <2>1, <2>2 DEF Begin, Start
<1>2. ASSUME NEW r \in Runs, NEW reply \in Replies, Reserve(r, reply) PROVE Sparing'
  <2>1. at'[r] \in {"private", "initialize"} => app = NoApp
    <3>1. job[r] \in Jobs /\ Reservation(job[r]) \in Requests
          /\ Reservation(job[r]).kind = "reserve"
      BY <1>2, RequestFacts DEF Reserve
    <3> QED
      BY <1>2, <3>1, Exchanged DEF Reserve, Served
  <2>2. app = NoApp => ~barred[r]
    BY <1>2 DEF Reserve, Barred
  <2> QED
    BY <1>2, <1>l, <2>1, <2>2 DEF Reserve, Accept
<1>3. ASSUME NEW r \in Runs, Adopt(r) PROVE Sparing'
  <2>1. ~barred[r]
    BY <1>3 DEF Adopt, IsMatchingReservation, Barred
  <2> QED
    BY <1>3, <1>l, <2>1 DEF Adopt, Accept
<1>4. ASSUME NEW r \in Runs, GiveUp(r) PROVE Sparing'
  BY <1>4, <1>l DEF GiveUp
<1>5. ASSUME NEW r \in Runs, NEW reply \in Replies, SetVisibility(r, reply) PROVE Sparing'
  BY <1>5, <1>l DEF SetVisibility
<1>6. ASSUME NEW r \in Runs, Look(r) PROVE Sparing'
  <2>1. at'[r] = "initialize" => ~barred[r]
    BY <1>6 DEF Look, Barred, Typed, Steps
  <2> QED
    BY <1>6, <1>l, <2>1 DEF Look
<1>7. ASSUME NEW r \in Runs, NEW reply \in Replies, Initialize(r, reply) PROVE Sparing'
  BY <1>7, <1>l DEF Initialize
<1>8. ASSUME NEW r \in Runs, NEW reply \in Replies, Send(r, reply) PROVE Sparing'
  BY <1>8, <1>l DEF Send
<1>9. ASSUME NEW r \in Runs, Return(r) \/ Crash(r) PROVE Sparing'
  BY <1>9, <1>l DEF Return, Crash, Forget
<1>10. ASSUME NEW req \in late, Arrive(req) PROVE Sparing'
  BY <1>10, <1>l DEF Arrive
<1>12. ASSUME NEW r \in Runs, NEW j \in Jobs, Decline(r, j) PROVE Sparing'
  <2>1. barred'[r] => Barred(j)'
    BY <1>12, <1>l DEF Decline, Start
  <2> QED
    BY <1>12, <1>l, <2>1 DEF Decline, Start
<1>11. CASE UNCHANGED vars
  BY <1>11, <1>l DEF vars
<1> QED
  BY <1>1, <1>2, <1>3, <1>4, <1>5, <1>6, <1>7, <1>8, <1>9, <1>10, <1>11, <1>12
  DEF Next, GoOn, Ask

\* A command that goes on to change the app has seen that it may: it was not
\* deleted and, for a create, not somebody else's or in use, when it began.
THEOREM OthersSpared == Spec => []SparesOthers
<1>1. Init => Sparing
  BY DEF Init, Sparing, SparesOthers
<1>2. Sparing => SparesOthers
  BY DEF Sparing
<1> QED
  BY <1>1, <1>2, SparingStep, AlwaysTyped, PTL DEF Spec

-----------------------------------------------------------------------------
(***************************************************************************)
(* A private app is never visible, and a create that is done is done.      *)
(***************************************************************************)

PrivateApp == app # NoApp /\ app.private

\* while only private creates, `visibility private' and deletions were begun,
\* whatever may initialize the app has a private one to initialize
Innocent ==
  ~casual =>
    /\ \A r \in Runs : at[r] # "idle" => ~MayShow(job[r])
    /\ \A r \in Runs : at[r] = "initialize" => PrivateApp
    /\ \A req \in late : /\ req.kind \notin {"workspace", "deploy"}
                         /\ req.kind = "initialize" => PrivateApp
    /\ NeverVisible

\* a request that does not show the app, and initializes only a private one
Discreet(req) ==
  /\ req.kind \notin {"workspace", "deploy"}
  /\ req.kind = "initialize" => PrivateApp

LEMMA ServedDiscreetly ==
  ASSUME ~casual, NEW req, Discreet(req), NeverVisible, Served(req, app, app')
  PROVE  NeverVisible' /\ (PrivateApp => PrivateApp')
<1>1. PrivateApp => PrivateApp'
  BY NoAppAssumption DEF Discreet, PrivateApp, Served
<1>2. CASE req.kind = "initialize"
  BY <1>1, <1>2 DEF Discreet, NeverVisible, PrivateApp
<1>3. CASE req.kind # "initialize"
  <2>1. req.kind \notin {"initialize", "deploy"}
    BY <1>3 DEF Discreet
  <2>2. app'.initialized => app # NoApp /\ app.initialized
    BY <2>1 DEF Served
  <2> QED
    BY <1>1, <2>2 DEF NeverVisible, PrivateApp
<1> QED
  BY <1>1, <1>2, <1>3

\* a discreet request keeps what Innocent says of the app and of late requests
LEMMA AskedDiscreetly ==
  ASSUME Typed, Innocent, ~casual, ~casual',
         NEW req \in Requests, NEW reply \in Replies, Exchange(req, reply), Discreet(req)
  PROVE  /\ NeverVisible'
         /\ PrivateApp => PrivateApp'
         /\ \A q \in late' : /\ q.kind \notin {"workspace", "deploy"}
                             /\ q.kind = "initialize" => PrivateApp'
<1>1. app \in Apps \cup {NoApp} /\ NeverVisible
  BY DEF Typed, TypeOK, Innocent
<1>2. /\ app' = app \/ Served(req, app, app')
      /\ late' \subseteq late \cup {req}
  BY <1>1, Exchanged
<1>3. NeverVisible' /\ (PrivateApp => PrivateApp')
  BY <1>1, <1>2, ServedDiscreetly DEF NeverVisible, PrivateApp
<1> QED
  BY <1>2, <1>3 DEF Innocent, Discreet

LEMMA InnocentStep == Typed /\ Innocent /\ [Next]_vars => Innocent'
<1> SUFFICES ASSUME Typed, Innocent, [Next]_vars, ~casual' PROVE Innocent'
  BY DEF Innocent
<1>t. /\ app \in Apps \cup {NoApp}
      /\ \A r \in Runs : at[r] # "idle" => job[r] \in Jobs
      /\ at \in [Runs -> Labels] /\ job \in [Runs -> Jobs \cup {NoJob}]
      /\ late \subseteq Requests
  BY DEF Typed, TypeOK, Steps, Requests
<1>c. ~casual
  BY DEF Next, GoOn, Ask, Begin, Decline, Start, Reserve, Adopt, GiveUp, SetVisibility,
         Look, Initialize, Send, Return, Crash, Forget, Arrive, vars
<1>i. /\ \A r \in Runs : at[r] # "idle" => ~MayShow(job[r])
      /\ \A r \in Runs : at[r] = "initialize" => PrivateApp
      /\ \A req \in late : Discreet(req)
      /\ NeverVisible
  BY <1>c DEF Innocent, Discreet
<1> USE <1>t, <1>c, <1>i DEF Goto, Report, End, Go
<1>1. ASSUME NEW r \in Runs, NEW j \in Jobs, Begin(r, j) PROVE Innocent'
  <2>1. ~MayShow(j) /\ FirstStep(j.command) # "initialize"
    BY <1>1, JobFacts DEF Begin, Start, FirstStep
  <2>2. UNCHANGED <<app, late>> /\ (NeverVisible <=> NeverVisible')
    BY <1>1 DEF Begin, Start, NeverVisible
  <2> QED
    BY <1>1, <2>1, <2>2 DEF Begin, Start, Innocent, Discreet, PrivateApp
<1>2. ASSUME NEW r \in Runs, NEW reply \in Replies, Reserve(r, reply) PROVE Innocent'
  <2>1. job[r] \in Jobs /\ job[r].command = "create" /\ job[r].private
    BY <1>2, JobFacts DEF Reserve, MayShow, Typed, Steps
  <2>2. Reservation(job[r]) \in Requests /\ Discreet(Reservation(job[r]))
    BY <2>1, RequestFacts DEF Discreet
  <2>3. /\ NeverVisible' /\ (PrivateApp => PrivateApp')
        /\ \A q \in late' : /\ q.kind \notin {"workspace", "deploy"}
                            /\ q.kind = "initialize" => PrivateApp'
    BY <1>2, <2>2, AskedDiscreetly DEF Reserve
  <2>4. at'[r] # "initialize" /\ job' = job
    BY <1>2, <2>1 DEF Reserve, Accept, AfterReserve
  <2> QED
    BY <1>2, <2>3, <2>4 DEF Reserve, Accept, Innocent
<1>3. ASSUME NEW r \in Runs, Adopt(r) PROVE Innocent'
  <2>1. job[r].private
    BY <1>3, JobFacts DEF Adopt, MayShow, Typed, Steps
  <2>2. at'[r] # "initialize"
    BY <1>3, <2>1 DEF Adopt, Accept, AfterReserve
  <2>3. UNCHANGED <<app, late, job>> /\ (NeverVisible <=> NeverVisible')
    BY <1>3 DEF Adopt, NeverVisible
  <2> QED
    BY <1>3, <2>2, <2>3 DEF Adopt, Accept, Innocent, Discreet, PrivateApp
<1>4. ASSUME NEW r \in Runs, GiveUp(r) PROVE Innocent'
  BY <1>4 DEF GiveUp, Innocent, Discreet, PrivateApp, NeverVisible
<1>5. ASSUME NEW r \in Runs, NEW reply \in Replies, SetVisibility(r, reply) PROVE Innocent'
  <2>1. job[r] \in Jobs /\ job[r].private
    BY <1>5, JobFacts DEF SetVisibility, MayShow, Typed, Steps
  <2> DEFINE req == Change("private", job[r])
  <2>2. Exchange(req, reply) /\ req \in Requests /\ req.kind = "private"
    BY <1>5, <2>1, RequestFacts DEF SetVisibility
  <2>3. /\ NeverVisible' /\ (PrivateApp => PrivateApp')
        /\ \A q \in late' : /\ q.kind \notin {"workspace", "deploy"}
                            /\ q.kind = "initialize" => PrivateApp'
    BY <2>2, AskedDiscreetly DEF Discreet
  <2>4. reply = "ok" => PrivateApp'
    BY <2>2, Exchanged, NoAppAssumption DEF Served, PrivateApp
  <2> QED
    BY <1>5, <2>3, <2>4 DEF SetVisibility, Innocent
<1>6. ASSUME NEW r \in Runs, Look(r) PROVE Innocent'
  BY <1>6 DEF Look, MayShow, Typed, Steps
<1>7. ASSUME NEW r \in Runs, NEW reply \in Replies, Initialize(r, reply) PROVE Innocent'
  <2>1. job[r] \in Jobs /\ PrivateApp
    BY <1>7 DEF Initialize
  <2>2. /\ Change("initialize", job[r]) \in Requests
        /\ Discreet(Change("initialize", job[r]))
    BY <2>1, RequestFacts DEF Discreet
  <2>3. /\ NeverVisible' /\ (PrivateApp => PrivateApp')
        /\ \A q \in late' : /\ q.kind \notin {"workspace", "deploy"}
                            /\ q.kind = "initialize" => PrivateApp'
    BY <1>7, <2>2, AskedDiscreetly DEF Initialize
  <2> QED
    BY <1>7, <2>3 DEF Initialize, Innocent
<1>8. ASSUME NEW r \in Runs, NEW reply \in Replies, Send(r, reply) PROVE Innocent'
  <2>1. job[r] \in Jobs /\ job[r].command \in {"rollback", "delete"}
    BY <1>8 DEF Send, MayShow, Typed, Steps
  <2>2. /\ Change(job[r].command, job[r]) \in Requests
        /\ Discreet(Change(job[r].command, job[r]))
    BY <2>1, RequestFacts DEF Discreet
  <2>3. /\ NeverVisible' /\ (PrivateApp => PrivateApp')
        /\ \A q \in late' : /\ q.kind \notin {"workspace", "deploy"}
                            /\ q.kind = "initialize" => PrivateApp'
    BY <1>8, <2>1, <2>2, AskedDiscreetly DEF Send
  <2> QED
    BY <1>8, <2>3 DEF Send, Innocent
<1>9. ASSUME NEW r \in Runs, Return(r) \/ Crash(r) PROVE Innocent'
  BY <1>9 DEF Return, Crash, Forget, Innocent, Discreet, PrivateApp, NeverVisible
<1>10. ASSUME NEW req \in late, Arrive(req) PROVE Innocent'
  <2>1. app' = app \/ Served(req, app, app')
    BY <1>10, EffectsServe DEF Arrive
  <2>2. NeverVisible' /\ (PrivateApp => PrivateApp')
    BY <2>1, ServedDiscreetly DEF NeverVisible, PrivateApp
  <2> QED
    BY <1>10, <2>2 DEF Arrive, Innocent, Discreet
<1>12. ASSUME NEW r \in Runs, NEW j \in Jobs, Decline(r, j) PROVE Innocent'
  <2>1. ~MayShow(j)
    BY <1>12 DEF Decline, Start
  <2>2. UNCHANGED <<app, late>> /\ (NeverVisible <=> NeverVisible')
    BY <1>12 DEF Decline, Start, NeverVisible
  <2> QED
    BY <1>12, <2>1, <2>2 DEF Decline, Start, Innocent, Discreet, PrivateApp
<1>11. CASE UNCHANGED vars
  BY <1>11 DEF vars, Innocent, Discreet, PrivateApp, NeverVisible
<1> QED
  BY <1>1, <1>2, <1>3, <1>4, <1>5, <1>6, <1>7, <1>8, <1>9, <1>10, <1>11, <1>12
  DEF Next, GoOn, Ask

\* As long as no command is begun that may show the app to the workspace, it is
\* never initialized without being private, whatever is lost, late or killed.
THEOREM PrivateIsNeverVisible == Spec => []NeverVisible
<1>1. Init => Innocent
  BY DEF Init, Innocent, NeverVisible
<1>2. Typed /\ Innocent => (~casual => NeverVisible)
  BY DEF Innocent
<1>3. (~casual => NeverVisible) => NeverVisible
  BY DEF NeverVisible
<1> QED
  BY <1>1, <1>2, <1>3, InnocentStep, AlwaysTyped, PTL DEF Spec

\* what a create has got done by the time it goes on, and by the time it is done
Achieved(r) ==
  /\ app # NoApp
  /\ app.owner = job[r].user
  /\ app.profile = job[r].profile
  /\ at[r] # "private" /\ job[r].private /\ ~casual => app.private

Finishing ==
  \A r \in Runs :
    job[r].command = "create" =>
      /\ at[r] \in {"private", "initialize"} => Achieved(r)
      /\ at[r] = "end" /\ result[r] = "done" =>
           Achieved(r) /\ (job[r].init => app.initialized)

LEMMA FinishingIsDone == Finishing => DoneIsDone
BY DEF Finishing, Achieved, DoneIsDone

\* while nothing shows the app, a private app stays private
LEMMA PrivateStays ==
  ASSUME Typed, Innocent, [Next]_vars, ~casual', PrivateApp
  PROVE  PrivateApp'
<1>1. ~casual
  BY DEF Next, GoOn, Ask, Begin, Decline, Start, Reserve, Adopt, GiveUp, SetVisibility,
         Look, Initialize, Send, Return, Crash, Forget, Arrive, vars
<1>2. /\ \A r \in Runs : at[r] # "idle" => job[r] \in Jobs /\ ~MayShow(job[r])
      /\ \A req \in late : req \in Requests /\ req.kind # "workspace"
      /\ app \in Apps \cup {NoApp}
  BY <1>1 DEF Innocent, Typed, TypeOK, Steps, Requests
<1>3. \A req \in Requests :
        Served(req, app, app') /\ req.kind # "workspace" => PrivateApp'
  BY NoAppAssumption DEF Served, PrivateApp
<1>4. ASSUME NEW r \in Runs, NEW reply \in Replies, Ask(r, reply) PROVE PrivateApp'
  <2>1. PICK req \in Requests : Exchange(req, reply) /\ req.kind # "workspace"
    BY <1>2, <1>4, RequestFacts
    DEF Ask, Reserve, SetVisibility, Initialize, Send, MayShow, Typed, Steps
  <2>2. app' = app \/ Served(req, app, app')
    BY <1>2, <2>1, Exchanged
  <2> QED
    BY <1>3, <2>1, <2>2 DEF PrivateApp
<1>5. ASSUME NEW req \in late, Arrive(req) PROVE PrivateApp'
  BY <1>2, <1>3, <1>5, EffectsServe DEF Arrive, PrivateApp
<1>6. ASSUME NEW r \in Runs, ~\E reply \in Replies : Ask(r, reply),
             GoOn(r) \/ Crash(r) \/ \E j \in Jobs : Begin(r, j) \/ Decline(r, j)
      PROVE  app' = app
  BY <1>6 DEF GoOn, Adopt, GiveUp, Look, Return, Crash, Forget, Begin, Decline, Start
<1>7. CASE UNCHANGED vars
  BY <1>7 DEF vars, PrivateApp
<1> QED
  BY <1>4, <1>5, <1>6, <1>7 DEF Next, GoOn, PrivateApp

\* what a create has got done is not undone
LEMMA AchievedStays ==
  ASSUME Typed, Innocent, [Next]_vars, NEW r \in Runs, Achieved(r), job'[r] = job[r],
         at[r] # "private" \/ at'[r] = "private"
  PROVE  Achieved(r)' /\ (app.initialized => app'.initialized)
<1>1. Later(app, app')
  BY AppIsLater
<1>2. casual => casual'
  BY DEF Next, GoOn, Ask, Begin, Decline, Start, Reserve, Adopt, GiveUp, SetVisibility,
         Look, Initialize, Send, Return, Crash, Forget, Arrive, vars
<1>3. app # NoApp => app' # NoApp
  BY <1>1, NoAppAssumption DEF Later
<1> QED
  BY <1>1, <1>2, <1>3, PrivateStays DEF Later, Achieved, PrivateApp

LEMMA FinishingStep == Typed /\ Innocent /\ Finishing /\ [Next]_vars => Finishing'
<1> SUFFICES ASSUME Typed, Innocent, Finishing, [Next]_vars PROVE Finishing'
  OBVIOUS
<1>t. /\ app \in Apps \cup {NoApp}
      /\ \A r \in Runs : at[r] # "idle" => job[r] \in Jobs
      /\ at \in [Runs -> Labels] /\ job \in [Runs -> Jobs \cup {NoJob}]
      /\ result \in [Runs -> {"running", "done", "incomplete", "unknown", "failed"}]
  BY DEF Typed, TypeOK, Steps
\* the other runs keep what they have
<1>o. ASSUME NEW s \in Runs, at'[s] = at[s], job'[s] = job[s], result'[s] = result[s]
      PROVE  job'[s].command = "create" =>
               /\ at'[s] \in {"private", "initialize"} => Achieved(s)'
               /\ at'[s] = "end" /\ result'[s] = "done" =>
                    Achieved(s)' /\ (job'[s].init => app'.initialized)
  BY <1>o, AchievedStays DEF Finishing
<1> USE <1>t DEF Goto, Report, End, Go
<1>1. ASSUME NEW r \in Runs, NEW j \in Jobs, Begin(r, j) PROVE Finishing'
  <2>1. j.command = "create" => at'[r] = "reserve"
    BY <1>1 DEF Begin, Start, FirstStep
  <2> QED
    BY <1>1, <1>o, <2>1 DEF Begin, Start, Finishing
<1>2. ASSUME NEW r \in Runs, NEW reply \in Replies, Reserve(r, reply) PROVE Finishing'
  <2>1. job[r] \in Jobs /\ Reservation(job[r]) \in Requests
        /\ Reservation(job[r]).kind = "reserve"
    BY <1>2, RequestFacts DEF Reserve, Typed, Steps
  <2>2. reply = "ok" => app' = Reserved(Reservation(job[r])) /\ app' # NoApp
    BY <1>2, <2>1, Exchanged, NoAppAssumption DEF Reserve, Served
  <2>3. reply = "ok" => /\ app' # NoApp /\ app'.owner = job[r].user
                        /\ app'.profile = job[r].profile
    BY <2>2 DEF Reserved, Reservation
  <2>4. /\ at'[r] \in {"private", "initialize"} => reply = "ok"
        /\ at'[r] = "end" /\ result'[r] = "done" => reply = "ok" /\ ~job[r].init
        /\ at'[r] # "private" /\ reply = "ok" => ~job[r].private
    BY <1>2 DEF Reserve, Accept, AfterReserve
  <2> QED
    BY <1>2, <1>o, <2>3, <2>4 DEF Reserve, Accept, Finishing, Achieved
<1>3. ASSUME NEW r \in Runs, Adopt(r) PROVE Finishing'
  <2>1. /\ at'[r] = "end" => ~job[r].init
        /\ at'[r] # "private" => ~job[r].private
    BY <1>3 DEF Adopt, Accept, AfterReserve
  <2> QED
    BY <1>3, <1>o, <2>1 DEF Adopt, Accept, IsMatchingReservation, Finishing, Achieved
<1>4. ASSUME NEW r \in Runs, GiveUp(r) PROVE Finishing'
  BY <1>4, <1>o DEF GiveUp, Finishing
<1>5. ASSUME NEW r \in Runs, NEW reply \in Replies, SetVisibility(r, reply) PROVE Finishing'
  <2>1. job[r] \in Jobs /\ job[r].command \in {"create", "visibility"}
        /\ (job[r].command = "create" => job[r].private /\ Achieved(r))
    BY <1>5 DEF SetVisibility, Typed, Steps, Finishing
  <2>2. job[r].command = "create" =>
          /\ Change("private", job[r]) \in Requests
          /\ Change("private", job[r]).kind = "private"
          /\ Exchange(Change("private", job[r]), reply)
    BY <1>5, <2>1, RequestFacts DEF SetVisibility
  <2>3. job[r].command = "create" /\ reply = "ok" => app'.private
    BY <2>2, Exchanged DEF Served
  <2>4. Later(app, app') /\ (app # NoApp => app' # NoApp)
    BY AppIsLater, NoAppAssumption DEF Later
  <2>5. job[r].command = "create" /\ reply = "ok" => Achieved(r)'
    BY <1>5, <2>1, <2>3, <2>4 DEF SetVisibility, Achieved, Later
  <2>6. /\ at'[r] = "initialize" => reply = "ok"
        /\ at'[r] # "private"
        /\ at'[r] = "end" /\ result'[r] = "done" /\ job[r].command = "create" =>
             reply = "ok" /\ ~job[r].init
    BY <1>5 DEF SetVisibility
  <2> QED
    BY <1>5, <1>o, <2>5, <2>6 DEF SetVisibility, Finishing
<1>6. ASSUME NEW r \in Runs, Look(r) PROVE Finishing'
  BY <1>6, <1>o DEF Look, Finishing, Typed, Steps
<1>7. ASSUME NEW r \in Runs, NEW reply \in Replies, Initialize(r, reply) PROVE Finishing'
  <2>1. job[r] \in Jobs /\ at[r] = "initialize"
        /\ (job[r].command = "create" => Achieved(r))
    BY <1>7 DEF Initialize, Finishing
  <2>2. /\ Change("initialize", job[r]) \in Requests
        /\ Change("initialize", job[r]).kind = "initialize"
        /\ Exchange(Change("initialize", job[r]), reply)
    BY <1>7, <2>1, RequestFacts DEF Initialize
  <2>3. reply = "ok" => app'.initialized
    BY <2>2, Exchanged DEF Served
  <2>4. job[r].command = "create" => Achieved(r)'
    BY <1>7, <2>1, AchievedStays DEF Initialize
  <2> QED
    BY <1>7, <1>o, <2>3, <2>4 DEF Initialize, Finishing
<1>8. ASSUME NEW r \in Runs, NEW reply \in Replies, Send(r, reply) PROVE Finishing'
  BY <1>8, <1>o DEF Send, Finishing, Typed, Steps
<1>9. ASSUME NEW r \in Runs, Return(r) \/ Crash(r) PROVE Finishing'
  BY <1>9, <1>o DEF Return, Crash, Forget, Finishing
<1>10. ASSUME NEW req \in late, Arrive(req) PROVE Finishing'
  BY <1>10, <1>o DEF Arrive, Finishing
<1>12. ASSUME NEW r \in Runs, NEW j \in Jobs, Decline(r, j) PROVE Finishing'
  BY <1>12, <1>o DEF Decline, Start, Finishing
<1>11. CASE UNCHANGED vars
  BY <1>11, <1>o DEF vars, Finishing
<1> QED
  BY <1>1, <1>2, <1>3, <1>4, <1>5, <1>6, <1>7, <1>8, <1>9, <1>10, <1>11, <1>12
  DEF Next, GoOn, Ask

\* A create that reports success leaves the app it was asked for, whatever other
\* commands, late requests and crashes there are at the same time.
THEOREM DoneIsTrue == Spec => []DoneIsDone
<1>1. Init => Innocent
  BY DEF Init, Innocent, NeverVisible
<1>2. Init => Finishing
  BY DEF Init, Finishing, NoJob
<1> QED
  BY <1>1, <1>2, FinishingIsDone, InnocentStep, FinishingStep, AlwaysTyped, PTL DEF Spec
=============================================================================
