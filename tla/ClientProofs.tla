---------------------------- MODULE ClientProofs ----------------------------
(***************************************************************************)
(* Theorems about the modules MCClient puts together, for any runs,        *)
(* people, communities, writers, items and bounds.  Those of CurlRequest   *)
(* and SkillsCommands have a proof module of their own; here they are      *)
(* taken into the composition.  AppSharing: what an error and a success    *)
(* say of the communities and renewals of an app is true, however requests *)
(* are lost, delayed and interleaved.  AppsRequest: the session stays a    *)
(* secret.  Preferences: what was reported set stays set.  BrowserLogin:   *)
(* what is stored was issued for this login.  Marketplace: a listing and   *)
(* an installation are of a piece.                                         *)
(***************************************************************************)
EXTENDS MCClient, CommandProofs

-----------------------------------------------------------------------------
(***************************************************************************)
(* Types: those of TypeOK that the arguments need                          *)
(***************************************************************************)

Labels == {"idle", "read", "write", "inspect", "audience", "end"}

Shaped ==
  /\ policy \in Policies
  /\ grantRev \in 0..MaxRev /\ renewRev \in 0..MaxRev /\ life \in 0..MaxLife
  /\ late \subseteq Requests
  /\ at \in [Runs -> Labels]
  /\ job \in [Runs -> Jobs \cup {NoJob}]
  /\ basis \in [Runs -> Bases]
  /\ result \in [Runs -> Results]
  /\ chosen \in [Renewals -> Bases \cup {Missing}]
  /\ word \in [Communities -> {"none", "grant", "revoke"}]
  /\ effect \subseteq Runs

\* A run that has left the start has a command, and only a grant or a revocation
\* reads a revision.
Commanded ==
  \A r \in Runs : /\ at[r] \in {"read", "write"} => job[r] \in Jobs
                  /\ at[r] = "read" => job[r] \in Grants

LEMMA Kinds ==
  ASSUME NEW j \in Jobs
  PROVE  /\ j \in Grants <=> j.command \in {"grant", "revoke"}
         /\ j \in Grants => j.community \in Communities
         /\ j \in Grants => j \notin Overwrites /\ j \notin Extensions
         /\ j \in Extensions => j \notin Overwrites
         /\ j.command = "renew" <=> j \in Extensions
BY DEF Jobs, Grants, Extensions, Overwrites, Visibilities, Accesses, PublisherChanges

\* What a change makes of the policy.
LEMMA ChangedType ==
  ASSUME Shaped, NEW j \in Jobs
  PROVE  /\ Changed(j) \in Policies
         /\ j \notin Grants => Changed(j).communities = policy.communities
         /\ j \in Grants => Changed(j).communities =
              IF j.command = "grant" THEN policy.communities \cup {j.community}
              ELSE policy.communities \ {j.community}
<1>1. /\ Changed(j).visibility \in {"restricted", "organization"}
      /\ Changed(j).viewers \subseteq Others
      /\ Changed(j).publishers \subseteq Others
      /\ Changed(j).communities \subseteq Communities
  BY DEF Changed, Shaped, Policies, Visibilities, Accesses
<1>2. Changed(j) \in Policies
  BY <1>1 DEF Changed, Policies
<1>3. policy.communities \subseteq Communities
  BY DEF Shaped, Policies
<1>4. CASE j \in Grants
  <2>1. PICK k \in {"grant", "revoke"}, d \in Communities :
              j = [command |-> k, community |-> d]
    BY <1>4 DEF Grants
  <2>2. \A c : (j = [command |-> "revoke", community |-> c]) <=> (k = "revoke" /\ c = d)
    BY <2>1
  <2>3. \A c : (j = [command |-> "grant", community |-> c]) <=> (k = "grant" /\ c = d)
    BY <2>1
  <2>4. Changed(j).communities = {c \in policy.communities : ~(k = "revoke" /\ c = d)}
                                   \cup {c \in Communities : k = "grant" /\ c = d}
    BY <2>2, <2>3 DEF Changed
  <2> QED
    BY <1>2, <1>3, <1>4, <2>1, <2>4
<1>5. CASE j \notin Grants
  <2>1. \A c \in Communities : /\ j # [command |-> "revoke", community |-> c]
                               /\ j # [command |-> "grant", community |-> c]
    BY <1>5 DEF Grants
  <2> QED
    BY <1>2, <1>3, <1>5, <2>1 DEF Changed
<1> QED
  BY <1>4, <1>5

\* What serving a request does, by kind.
LEMMA ServeType ==
  ASSUME Shaped, NEW req \in Requests, Serve(req)
  PROVE  /\ policy' \in Policies
         /\ grantRev' \in 0..MaxRev /\ renewRev' \in 0..MaxRev
         /\ life' = life
         /\ effect' = effect \cup ({req.by} \cap Runs)
         /\ req.job \notin Grants =>
              grantRev' = grantRev /\ policy'.communities = policy.communities
         /\ req.job \in Grants =>
              /\ req.basis.life = life /\ req.basis.rev = grantRev
              /\ grantRev' = grantRev + 1
              /\ policy'.communities =
                   IF req.job.command = "grant"
                     THEN policy.communities \cup {req.job.community}
                     ELSE policy.communities \ {req.job.community}
<1>1. req.job \in Jobs
  BY DEF Requests
<1>2. effect' = effect \cup ({req.by} \cap Runs) /\ life' = life
  BY DEF Serve
<1>3. CASE req.job \in Grants
  <2>1. ~Repeated(req) /\ req.job \notin Extensions /\ req.job \notin Overwrites
    BY <1>1, <1>3, Kinds DEF Repeated
  <2>2. policy' = Changed(req.job) /\ grantRev' = grantRev + 1 /\ renewRev' = renewRev
    BY <2>1 DEF Serve
  <2>3. req.basis.life = life /\ req.basis.rev = grantRev /\ grantRev < MaxRev
    BY <1>3 DEF Serve, Current
  <2>4. policy' \in Policies /\ policy'.communities =
          IF req.job.command = "grant" THEN policy.communities \cup {req.job.community}
          ELSE policy.communities \ {req.job.community}
    BY <1>1, <1>3, <2>2, ChangedType
  <2>5. grantRev' \in 0..MaxRev /\ renewRev' \in 0..MaxRev
    BY <2>2, <2>3, BoundsAssumption DEF Shaped
  <2> QED
    BY <1>2, <1>3, <2>2, <2>3, <2>4, <2>5
<1>4. CASE req.job \notin Grants
  <2>1. grantRev' = grantRev /\ policy' \in {policy, Changed(req.job)}
    BY <1>4 DEF Serve
  <2>2. policy' \in Policies /\ policy'.communities = policy.communities
    BY <1>1, <1>4, <2>1, ChangedType DEF Shaped
  <2>3. renewRev' = renewRev \/ (renewRev < MaxRev /\ renewRev' = renewRev + 1)
    BY DEF Serve, Current
  <2>4. renewRev' \in 0..MaxRev
    BY <2>3, BoundsAssumption DEF Shaped
  <2> QED
    BY <1>2, <1>4, <2>1, <2>2, <2>4 DEF Shaped
<1> QED
  BY <1>3, <1>4

\* What the exchange of a run's request with the platform does.
LEMMA ExchangeType ==
  ASSUME Shaped, Commanded, NEW r \in Runs, at[r] = "write", NEW reply \in Replies,
         Exchange(Request(r), reply)
  PROVE  /\ Request(r) \in Requests
         /\ policy' \in Policies
         /\ grantRev' \in 0..MaxRev /\ renewRev' \in 0..MaxRev
         /\ life' = life
         /\ late \subseteq late' /\ late' \subseteq late \cup {Request(r)}
         /\ effect \subseteq effect' /\ effect' \subseteq effect \cup {r}
         /\ late' # late => r \in effect'
         /\ reply = "ok" => Serve(Request(r))
         /\ reply = "refused" => effect' = effect
         /\ Serve(Request(r))
              \/ UNCHANGED <<policy, grantRev, renewRev, life, receipts, blind>>
<1>1. Request(r) \in Requests /\ Request(r).by = r
  BY DEF Shaped, Commanded, Request, Requests
<1>2. ASSUME Serve(Request(r)), reply # "refused", UNCHANGED late
      PROVE  /\ policy' \in Policies
             /\ grantRev' \in 0..MaxRev /\ renewRev' \in 0..MaxRev
             /\ life' = life
             /\ effect' = effect \cup {r}
  BY <1>1, <1>2, ServeType
<1>3. CASE Serve(Request(r)) /\ reply # "refused" /\ UNCHANGED late
  BY <1>1, <1>2, <1>3
<1>4. CASE reply \in {"refused", "broken", "none"} /\ UNCHANGED <<platform, late>>
  BY <1>1, <1>4 DEF platform, Shaped
<1>5. CASE /\ reply = "none"
           /\ late' = late \cup {Request(r)}
           /\ effect' = effect \cup {Request(r).by}
           /\ UNCHANGED <<policy, grantRev, renewRev, life, receipts, blind>>
  BY <1>1, <1>5 DEF Shaped
<1> QED
  BY <1>3, <1>4, <1>5 DEF Exchange

\* How a command begins: with its first request, or with an error.
LEMMA BeginStep ==
  ASSUME NEW r \in Runs, NEW j \in Jobs,
         \/ BeginVisibility(r, j) \/ BeginAccess(r, j) \/ BeginPublishers(r, j)
         \/ BeginGrant(r, j) \/ BeginGet(r, j)
  PROVE  /\ at[r] = "idle"
         /\ job' = [job EXCEPT ![r] = j]
         /\ UNCHANGED <<platform, late, basis, claim, truth, chosen, word>>
         /\ \/ Goto(r, "read") /\ j \in Grants
            \/ Goto(r, "write") /\ j \notin Grants /\ j \notin Extensions
            \/ Goto(r, "inspect")
            \/ \E value \in {"failed", "blocked"} : End(r, value)
<1>1. CASE BeginVisibility(r, j) \/ BeginAccess(r, j) \/ BeginPublishers(r, j)
  <2>1. j \notin Grants /\ j \notin Extensions
    BY <1>1, Kinds DEF BeginVisibility, BeginAccess, BeginPublishers
  <2> QED
    BY <1>1, <2>1 DEF BeginVisibility, BeginAccess, BeginPublishers, Start, Try
<1>2. CASE BeginGrant(r, j)
  BY <1>2 DEF BeginGrant, Start, Try
<1>3. CASE BeginGet(r, j)
  BY <1>3 DEF BeginGet, Start, Try
<1> QED
  BY <1>1, <1>2, <1>3

LEMMA EndType ==
  ASSUME Shaped, NEW r \in Runs, NEW value \in Results, End(r, value)
  PROVE  /\ at' = [at EXCEPT ![r] = "end"] /\ at' \in [Runs -> Labels]
         /\ result' = [result EXCEPT ![r] = value] /\ result' \in [Runs -> Results]
BY DEF Shaped, End, Labels

LEMMA AnsweredEnds ==
  ASSUME NEW r \in Runs, NEW reply \in Replies, Answered(r, reply)
  PROVE  /\ \E value \in Results : End(r, value) /\ (value = "unchanged" => reply = "refused")
         /\ Word(r, reply)
BY DEF Answered, Replies, Refusals, Results

\* What is still under way of a run that is over keeps its form.
LEMMA ForgetType ==
  ASSUME Shaped, NEW r \in Runs, Forget(r)
  PROVE  /\ late' \subseteq Requests
         /\ \A req \in late' : \E old \in late :
              /\ req.job = old.job /\ req.basis = old.basis
              /\ req.by = IF old.by = r THEN Missing ELSE old.by
<1> SUFFICES ASSUME NEW req \in late'
             PROVE  /\ req \in Requests
                    /\ \E old \in late :
                         /\ req.job = old.job /\ req.basis = old.basis
                         /\ req.by = IF old.by = r THEN Missing ELSE old.by
  OBVIOUS
<1>1. PICK old \in late : req = IF old.by = r THEN [old EXCEPT !.by = Missing] ELSE old
  BY DEF Forget
<1>2. old \in Requests
  BY DEF Shaped
<1> QED
  BY <1>1, <1>2 DEF Requests

LEMMA ShapedInit == Init => Shaped /\ Commanded
<1> SUFFICES ASSUME Init PROVE Shaped /\ Commanded
  OBVIOUS
<1>1. Private \in Policies
  BY DEF Private, Policies
<1>2. NoBasis \in Bases
  BY BoundsAssumption DEF NoBasis, Bases
<1> QED
  BY <1>1, <1>2, BoundsAssumption DEF Init, Shaped, Commanded, Labels, Results

LEMMA ShapedStep ==
  ASSUME Shaped, Commanded, [Next]_vars
  PROVE  Shaped' /\ Commanded'
<1> USE DEF platform
<1>1. ASSUME NEW r \in Runs, NEW j \in Jobs,
             \/ BeginVisibility(r, j) \/ BeginAccess(r, j) \/ BeginPublishers(r, j)
             \/ BeginGrant(r, j) \/ BeginGet(r, j)
      PROVE  Shaped' /\ Commanded'
  BY <1>1, BeginStep, EndType DEF Shaped, Commanded, Goto, End, Labels, Results
<1>2. ASSUME NEW r \in Runs, NEW q \in Renewals, NEW b \in Bases, BeginRenew(r, q, b)
      PROVE  Shaped' /\ Commanded'
  <2>1. [command |-> "renew", id |-> q] \in Jobs
    BY DEF Jobs, Extensions
  <2>2. Goto(r, "write") \/ End(r, "failed")
    BY <1>2 DEF BeginRenew, Try
  <2> QED
    BY <1>2, <2>1, <2>2 DEF BeginRenew, Shaped, Commanded, Goto, End, Labels, Results
<1>3. ASSUME NEW r \in Runs, ReadRevision(r) PROVE Shaped' /\ Commanded'
  <2>1. job[r] \in Grants /\ job[r] \in Jobs /\ job[r].community \in Communities
    BY <1>3, Kinds DEF ReadRevision, Commanded
  <2>2. [rev |-> grantRev, life |-> life, seen |-> policy.communities] \in Bases
    BY DEF Shaped, Policies, Bases
  <2>3. basis' \in [Runs -> Bases] /\ word' \in [Communities -> {"none", "grant", "revoke"}]
    BY <1>3, <2>1, <2>2 DEF ReadRevision, Shaped
  <2>4. /\ at' \in [Runs -> Labels] /\ result' \in [Runs -> Results]
        /\ \A s \in Runs \ {r} : at'[s] = at[s]
        /\ at'[r] # "read"
    BY <1>3 DEF ReadRevision, Shaped, Goto, End, Labels, Refusals, Results
  <2> QED
    BY <1>3, <2>1, <2>3, <2>4 DEF ReadRevision, Shaped, Commanded
<1>4. ASSUME NEW r \in Runs, NEW reply \in Replies, Write(r, reply)
      PROVE  Shaped' /\ Commanded'
  <2>1. /\ at[r] = "write" /\ Exchange(Request(r), reply) /\ Answered(r, reply)
        /\ UNCHANGED <<job, basis, claim, truth, chosen>>
    BY <1>4 DEF Write
  <2>2. /\ Request(r) \in Requests
        /\ policy' \in Policies
        /\ grantRev' \in 0..MaxRev /\ renewRev' \in 0..MaxRev
        /\ life' = life
        /\ late' \subseteq late \cup {Request(r)}
        /\ effect' \subseteq effect \cup {r}
    BY <2>1, ExchangeType
  <2>3. PICK value \in Results : End(r, value) /\ Word(r, reply)
    BY <2>1, AnsweredEnds
  <2>4. word' \in [Communities -> {"none", "grant", "revoke"}]
    BY <2>3, Kinds DEF Word, Shaped, Jobs
  <2> QED
    BY <2>1, <2>2, <2>3, <2>4, EndType DEF Shaped, Commanded
<1>5. ASSUME NEW r \in Runs, Inspect(r) PROVE Shaped' /\ Commanded'
  BY <1>5 DEF Inspect, Shaped, Commanded, Goto, End, Labels, Results
<1>6. ASSUME NEW r \in Runs, NEW o \in {Owner, Missing}, Audience(r, o)
      PROVE  Shaped' /\ Commanded'
  BY <1>6 DEF Audience, Shaped, Commanded, End, Labels, Results
<1>7. ASSUME NEW r \in Runs, Return(r) \/ Crash(r) PROVE Shaped' /\ Commanded'
  <2>1. Forget(r)
    BY <1>7 DEF Return, Crash
  <2>2. late' \subseteq Requests
    BY <2>1, ForgetType
  <2>3. NoBasis \in Bases
    BY BoundsAssumption DEF NoBasis, Bases
  <2> QED
    BY <2>1, <2>2, <2>3 DEF Forget, Shaped, Commanded, Labels, Results
<1>8. ASSUME NEW req \in late, Arrive(req) PROVE Shaped' /\ Commanded'
  <2>1. req \in Requests
    BY DEF Shaped
  <2>2. CASE Serve(req)
    BY <1>8, <2>1, <2>2, ServeType DEF Arrive, Shaped, Commanded
  <2>3. CASE UNCHANGED platform
    BY <1>8, <2>3 DEF Arrive, Shaped, Commanded
  <2> QED
    BY <1>8, <2>2, <2>3 DEF Arrive
<1>9. ASSUME NEW c \in Communities, Dialog(c) PROVE Shaped' /\ Commanded'
  <2>1. \A k \in {"grant", "revoke"} : [command |-> k, community |-> c] \in Jobs
    BY DEF Jobs, Grants
  <2>2. policy' \in Policies
    BY <1>9, <2>1, ChangedType DEF Dialog
  <2> QED
    BY <1>9, <2>2, BoundsAssumption DEF Dialog, Shaped, Commanded
<1>10. CASE Recreate
  <2>1. Private \in Policies
    BY DEF Private, Policies
  <2> QED
    BY <1>10, <2>1, BoundsAssumption DEF Recreate, Shaped, Commanded
<1>11. CASE UNCHANGED vars
  BY <1>11 DEF vars, Shaped, Commanded
<1> QED
  BY <1>1, <1>2, <1>3, <1>4, <1>5, <1>6, <1>7, <1>8, <1>9, <1>10, <1>11 DEF Next

-----------------------------------------------------------------------------
(***************************************************************************)
(* "Nothing was changed"                                                   *)
(***************************************************************************)

\* A run that is not over has had nothing served, and what is under way for a run
\* counts as its effect.
Unheard ==
  /\ \A r \in Runs : at[r] # "end" => r \notin effect /\ result[r] = "running"
  /\ \A req \in late : req.by \in Runs => req.by \in effect
  /\ UnchangedIsTrue

LEMMA UnheardStep ==
  ASSUME Shaped, Commanded, Unheard, [Next]_vars
  PROVE  Unheard'
<1> USE DEF Unheard, UnchangedIsTrue
<1>1. ASSUME NEW r \in Runs, UNCHANGED <<late, effect>>, at[r] # "end",
             (\E label \in Labels \ {"end"} : Goto(r, label)) \/ \E v \in Results : End(r, v)
      PROVE  Unheard'
  BY <1>1 DEF Goto, End, Shaped
<1>2. ASSUME NEW r \in Runs, NEW j \in Jobs,
             \/ BeginVisibility(r, j) \/ BeginAccess(r, j) \/ BeginPublishers(r, j)
             \/ BeginGrant(r, j) \/ BeginGet(r, j)
      PROVE  Unheard'
  <2>1. UNCHANGED <<late, effect>> /\ at[r] # "end"
    BY <1>2, BeginStep DEF platform
  <2> QED
    BY <1>1, <1>2, <2>1, BeginStep DEF Labels, Results
<1>3. ASSUME NEW r \in Runs, NEW q \in Renewals, NEW b \in Bases, BeginRenew(r, q, b)
      PROVE  Unheard'
  BY <1>1, <1>3 DEF BeginRenew, Try, platform, Labels, Results
<1>4. ASSUME NEW r \in Runs, ReadRevision(r) PROVE Unheard'
  BY <1>1, <1>4 DEF ReadRevision, platform, Labels, Results, Refusals
<1>5. ASSUME NEW r \in Runs, NEW reply \in Replies, Write(r, reply) PROVE Unheard'
  <2>1. /\ at[r] = "write" /\ Exchange(Request(r), reply) /\ Answered(r, reply)
    BY <1>5 DEF Write
  <2>2. PICK value \in Results :
          End(r, value) /\ (value = "unchanged" => reply = "refused")
    BY <2>1, AnsweredEnds
  <2>3. /\ late' \subseteq late \cup {Request(r)}
        /\ effect \subseteq effect' /\ effect' \subseteq effect \cup {r}
        /\ late' # late => r \in effect'
        /\ late \subseteq late'
        /\ reply = "refused" => effect' = effect
    BY <2>1, ExchangeType
  <2>4. \A req \in late' : req.by \in Runs => req.by \in effect'
    BY <2>3 DEF Request
  <2>5. r \notin effect
    BY <2>1
  <2> QED
    BY <2>2, <2>3, <2>4, <2>5, EndType DEF Shaped
<1>6. ASSUME NEW r \in Runs, Inspect(r) \/ \E o \in {Owner, Missing} : Audience(r, o)
      PROVE  Unheard'
  BY <1>1, <1>6 DEF Inspect, Audience, platform, Labels, Results
<1>7. ASSUME NEW r \in Runs, Return(r) \/ Crash(r) PROVE Unheard'
  <2>1. Forget(r)
    BY <1>7 DEF Return, Crash
  <2>2. \A req \in late' : req.by \in Runs => req.by \in effect'
    <3> SUFFICES ASSUME NEW req \in late', req.by \in Runs PROVE req.by \in effect'
      OBVIOUS
    <3>1. PICK old \in late : req.by = IF old.by = r THEN Missing ELSE old.by
      BY <2>1, ForgetType
    <3>2. req.by # r /\ req.by \in effect
      BY <3>1, MissingAssumption
    <3> QED
      BY <2>1, <3>2 DEF Forget
  <2> QED
    BY <2>1, <2>2 DEF Forget, Shaped
<1>8. ASSUME NEW req \in late, Arrive(req) PROVE Unheard'
  <2>1. req \in Requests /\ ({req.by} \cap Runs) \subseteq effect
    BY DEF Shaped
  <2>2. effect' = effect
    BY <1>8, <2>1 DEF Arrive, Serve, platform
  <2> QED
    BY <1>8, <2>2 DEF Arrive
<1>9. ASSUME NEW c \in Communities, Dialog(c) PROVE Unheard'
  BY <1>9 DEF Dialog
<1>10. CASE Recreate
  BY <1>10 DEF Recreate
<1>11. CASE UNCHANGED vars
  BY <1>11 DEF vars
<1> QED
  BY <1>2, <1>3, <1>4, <1>5, <1>6, <1>7, <1>8, <1>9, <1>10, <1>11 DEF Next

\* Whatever answers are lost and whatever requests arrive late: the command that
\* says "nothing was changed" has changed nothing, and never will.
THEOREM UnchangedTrue == Spec => []UnchangedIsTrue
<1>1. Init => Shaped /\ Commanded /\ Unheard
  BY ShapedInit DEF Init, Unheard, UnchangedIsTrue
<1>2. Shaped /\ Commanded /\ Unheard /\ [Next]_vars => (Shaped /\ Commanded /\ Unheard)'
  BY ShapedStep, UnheardStep
<1> QED
  BY <1>1, <1>2, PTL DEF Spec, Unheard

-----------------------------------------------------------------------------
(***************************************************************************)
(* Compare-and-set                                                         *)
(***************************************************************************)

\* A compare-and-set names a revision that stood for what was read with it: it is
\* no later one than the current one, and while it is the current one, the
\* communities are as they were read and nobody has been told otherwise.
Honest(j, b) ==
  /\ j \in Grants =>
       /\ b.life <= life
       /\ b.life = life => b.rev <= grantRev
       /\ b.life = life /\ b.rev = grantRev =>
            b.seen = policy.communities /\ word[j.community] = "none"
  /\ j \in Extensions => b.seen = {b.rev}

HonestInv ==
  /\ \A r \in Runs : at[r] = "write" => Honest(job[r], basis[r])
  /\ \A req \in late : Honest(req.job, req.basis)
  /\ \A q \in Renewals : chosen[q] # Missing => chosen[q].seen = {chosen[q].rev}

\* How the communities of the app may change: not at all, with a new revision, or
\* with a new incarnation.
Moves ==
  \/ /\ UNCHANGED <<life, grantRev>> /\ policy'.communities = policy.communities
     /\ \A c \in Communities : word'[c] \in {word[c], "none"}
  \/ life' = life /\ grantRev' = grantRev + 1
  \/ life' = life + 1

LEMMA StaysHonest ==
  ASSUME Shaped, Shaped', Moves, NEW j \in Jobs, NEW b \in Bases, Honest(j, b)
  PROVE  Honest(j, b)'
<1>1. j \in Grants => j.community \in Communities
  BY Kinds
<1>2. b.life \in Int /\ b.rev \in Int /\ life \in Int /\ grantRev \in Int
  BY BoundsAssumption DEF Shaped, Bases
<1> QED
  BY <1>1, <1>2 DEF Moves, Honest

\* A request that is served when its revision is current is applied to what was
\* read for it.
LEMMA ServedHonestly ==
  ASSUME Shaped, ~blind, NEW req \in Requests, Honest(req.job, req.basis), Serve(req)
  PROVE  /\ ~blind'
         /\ req.job \in Grants => word[req.job.community] = "none"
<1>1. req.job \in Jobs
  BY DEF Requests
<1>2. CASE req.job \in Grants
  <2>1. req.job \notin Extensions /\ ~Repeated(req) /\ req.job \notin Overwrites
    BY <1>1, <1>2, Kinds DEF Repeated
  <2> QED
    BY <1>2, <2>1 DEF Serve, Current, Meets, Honest
<1>3. CASE req.job \in Extensions /\ ~Repeated(req) /\ Meets(req, {renewRev})
  <2>1. req.basis.life = life /\ req.basis.rev = renewRev
    BY <1>3 DEF Serve, Current
  <2>2. req.basis.seen = {renewRev}
    BY <1>3, <2>1 DEF Honest
  <2>3. req.job \notin Grants
    BY <1>1, <1>3, Kinds
  <2> QED
    BY <1>3, <2>1, <2>2, <2>3 DEF Meets
<1>4. CASE req.job \notin Grants /\ blind' = blind
  BY <1>4
<1> QED
  BY <1>2, <1>3, <1>4 DEF Serve

LEMMA HonestStep ==
  ASSUME Shaped, Commanded, Shaped', HonestInv, LastWordStands, ~blind, [Next]_vars
  PROVE  HonestInv' /\ LastWordStands' /\ ~blind'
<1> USE DEF platform
<1>1. \A c \in Communities : word[c] \in {"none", "grant", "revoke"}
  BY DEF Shaped
<1>2. /\ \A r \in Runs : basis[r] \in Bases
      /\ \A r \in Runs : at[r] = "write" => job[r] \in Jobs
      /\ \A req \in late : req.job \in Jobs /\ req.basis \in Bases
  BY DEF Shaped, Commanded, Requests
<1>3. ASSUME Moves, UNCHANGED chosen,
             \A r \in Runs : at'[r] = "write" =>
               at[r] = "write" /\ job'[r] = job[r] /\ basis'[r] = basis[r],
             \A req \in late' :
               \/ \E old \in late : req.job = old.job /\ req.basis = old.basis
               \/ \E r \in Runs : at[r] = "write" /\ req.job = job[r] /\ req.basis = basis[r]
      PROVE  HonestInv'
  <2>1. ASSUME NEW r \in Runs, at'[r] = "write" PROVE Honest(job[r], basis[r])'
    <3>1. Honest(job[r], basis[r])
      BY <1>3, <2>1 DEF HonestInv
    <3>2. at[r] = "write" /\ job'[r] = job[r] /\ basis'[r] = basis[r]
      BY <1>3, <2>1
    <3>3. job[r] \in Jobs /\ basis[r] \in Bases
      BY <1>2, <3>2
    <3> DEFINE j == job[r]
               b == basis[r]
    <3>4. j' = j /\ b' = b
      BY <3>2
    <3> QED
      BY <1>3, <3>1, <3>2, <3>3, StaysHonest
  <2>2. ASSUME NEW req \in late' PROVE Honest(req.job, req.basis)'
    <3>1. req.job \in Jobs /\ req.basis \in Bases /\ Honest(req.job, req.basis)
      BY <1>2, <1>3 DEF HonestInv
    <3> QED
      BY <1>3, <3>1, StaysHonest
  <2> QED
    BY <1>3, <2>1, <2>2 DEF HonestInv
<1>4. ASSUME NEW req \in Requests, Honest(req.job, req.basis), Serve(req)
      PROVE  /\ ~blind' /\ life' = life
             /\ req.job \notin Grants =>
                  grantRev' = grantRev /\ policy'.communities = policy.communities
             /\ req.job \in Grants =>
                  /\ req.job.community \in Communities
                  /\ word[req.job.community] = "none"
                  /\ req.job.command \in {"grant", "revoke"}
                  /\ grantRev' = grantRev + 1
                  /\ policy'.communities = IF req.job.command = "grant"
                       THEN policy.communities \cup {req.job.community}
                       ELSE policy.communities \ {req.job.community}
  <2>1. req.job \in Jobs
    BY DEF Requests
  <2> QED
    BY <1>4, <2>1, ServedHonestly, ServeType, Kinds
<1>5. ASSUME NEW r \in Runs, NEW j \in Jobs,
             \/ BeginVisibility(r, j) \/ BeginAccess(r, j) \/ BeginPublishers(r, j)
             \/ BeginGrant(r, j) \/ BeginGet(r, j)
      PROVE  HonestInv' /\ LastWordStands' /\ ~blind'
  <2>1. /\ at[r] = "idle"
        /\ job' = [job EXCEPT ![r] = j]
        /\ UNCHANGED <<platform, late, basis, claim, truth, chosen, word>>
        /\ at'[r] = "write" => j \notin Grants /\ j \notin Extensions
        /\ \A s \in Runs \ {r} : at'[s] = at[s]
    BY <1>5, BeginStep DEF Goto, End, Shaped
  <2>2. \A s \in Runs : at'[s] = "write" => Honest(job[s], basis[s])'
    BY <2>1 DEF HonestInv, Honest, Shaped
  <2> QED
    BY <2>1, <2>2 DEF HonestInv, Honest, LastWordStands
<1>6. ASSUME NEW r \in Runs, NEW q \in Renewals, NEW b \in Bases, BeginRenew(r, q, b)
      PROVE  HonestInv' /\ LastWordStands' /\ ~blind'
  <2>1. b.seen = {b.rev}
    BY <1>6 DEF BeginRenew, HonestInv
  <2>2. [command |-> "renew", id |-> q] \notin Grants
    BY DEF Grants
  <2>3. /\ job' = [job EXCEPT ![r] = [command |-> "renew", id |-> q]]
        /\ basis' = [basis EXCEPT ![r] = b]
        /\ chosen' = [chosen EXCEPT ![q] = b]
        /\ UNCHANGED <<platform, late, word>>
        /\ \A s \in Runs \ {r} : at'[s] = at[s]
    BY <1>6 DEF BeginRenew, Try, Goto, End, Shaped
  <2>4. \A s \in Runs : at'[s] = "write" => Honest(job[s], basis[s])'
    BY <2>1, <2>2, <2>3 DEF HonestInv, Honest, Shaped
  <2>5. \A p \in Renewals : chosen'[p] # Missing => chosen'[p].seen = {chosen'[p].rev}
    BY <2>1, <2>3 DEF HonestInv, Shaped
  <2> QED
    BY <2>3, <2>4, <2>5 DEF HonestInv, Honest, LastWordStands
<1>7. ASSUME NEW r \in Runs, ReadRevision(r)
      PROVE  HonestInv' /\ LastWordStands' /\ ~blind'
  <2> DEFINE read == [rev |-> grantRev, life |-> life, seen |-> policy.communities]
  <2>1. /\ at[r] = "read" /\ UNCHANGED <<platform, late, job, chosen>>
        /\ job[r] \in Grants /\ job[r].community \in Communities
    BY <1>7, Kinds DEF ReadRevision, Commanded
  <2>2. \A s \in Runs \ {r} : at'[s] = at[s] /\ basis'[s] = basis[s]
    BY <1>7 DEF ReadRevision, Goto, End, Shaped
  <2>3. \A c \in Communities : word'[c] \in {word[c], "none"}
    BY <1>7 DEF ReadRevision, Shaped
  <2>4. at'[r] = "write" => basis'[r] = read /\ word'[job[r].community] = "none"
    BY <1>7, <2>1 DEF ReadRevision, End, Shaped
  <2>5. job[r] \notin Extensions
    BY <2>1, Kinds DEF Jobs
  <2>6. at'[r] = "write" => Honest(job[r], basis[r])'
    BY <2>1, <2>4, <2>5, BoundsAssumption DEF Honest, Shaped
  <2>7. \A s \in Runs \ {r} : at'[s] = "write" => Honest(job[s], basis[s])'
    BY <1>2, <2>1, <2>2, <2>3, Kinds DEF HonestInv, Honest
  <2>8. \A req \in late' : Honest(req.job, req.basis)'
    BY <1>2, <2>1, <2>3, Kinds DEF HonestInv, Honest
  <2> QED
    BY <2>1, <2>3, <2>6, <2>7, <2>8 DEF HonestInv, LastWordStands
<1>8. ASSUME NEW r \in Runs, NEW reply \in Replies, Write(r, reply)
      PROVE  HonestInv' /\ LastWordStands' /\ ~blind'
  <2>1. /\ at[r] = "write" /\ Exchange(Request(r), reply) /\ Answered(r, reply)
        /\ UNCHANGED <<job, basis, chosen>>
    BY <1>8 DEF Write
  <2>2. /\ Request(r) \in Requests
        /\ late' \subseteq late \cup {Request(r)}
        /\ reply = "ok" => Serve(Request(r))
        /\ Serve(Request(r))
              \/ UNCHANGED <<policy, grantRev, renewRev, life, receipts, blind>>
    BY <2>1, ExchangeType
  <2>3. PICK value \in Results : End(r, value) /\ Word(r, reply)
    BY <2>1, AnsweredEnds
  <2>4. \A s \in Runs : at'[s] = "write" => at[s] = "write"
    BY <2>3, EndType DEF Shaped
  <2>5. Request(r).job = job[r] /\ Request(r).basis = basis[r] /\ Honest(job[r], basis[r])
    BY <2>1 DEF Request, HonestInv
  <2>6. Moves /\ LastWordStands' /\ ~blind'
    <3>1. CASE Serve(Request(r)) /\ job[r] \in Grants
      <4>1. /\ ~blind' /\ life' = life /\ grantRev' = grantRev + 1
            /\ job[r].community \in Communities /\ word[job[r].community] = "none"
            /\ job[r].command \in {"grant", "revoke"}
            /\ policy'.communities = IF job[r].command = "grant"
                 THEN policy.communities \cup {job[r].community}
                 ELSE policy.communities \ {job[r].community}
        BY <1>4, <2>2, <2>5, <3>1
      <4>2. /\ word'[job[r].community] \in {"none", job[r].command}
            /\ \A c \in Communities \ {job[r].community} : word'[c] = word[c]
        BY <2>3, <4>1 DEF Word, Shaped
      <4> QED
        BY <4>1, <4>2 DEF Moves, LastWordStands
    <3>2. CASE Serve(Request(r)) /\ job[r] \notin Grants
      <4>1. /\ ~blind' /\ UNCHANGED <<life, grantRev>>
            /\ policy'.communities = policy.communities
        BY <1>4, <2>2, <2>5, <3>2
      <4>2. word' = word
        BY <2>3, <3>2 DEF Word
      <4> QED
        BY <4>1, <4>2 DEF Moves, LastWordStands
    <3>3. CASE /\ reply # "ok"
               /\ UNCHANGED <<policy, grantRev, renewRev, life, receipts, blind>>
      BY <2>3, <3>3 DEF Word, Moves, LastWordStands
    <3> QED
      BY <2>2, <3>1, <3>2, <3>3
  <2> QED
    BY <1>3, <2>1, <2>2, <2>4, <2>5, <2>6
<1>9. ASSUME NEW r \in Runs,
             \/ Inspect(r) \/ \E o \in {Owner, Missing} : Audience(r, o)
             \/ Return(r) \/ Crash(r)
      PROVE  HonestInv' /\ LastWordStands' /\ ~blind'
  <2>1. UNCHANGED <<policy, grantRev, life, blind, word, chosen>>
    BY <1>9 DEF Inspect, Audience, Return, Crash, Forget
  <2>2. \A s \in Runs : at'[s] = "write" =>
          at[s] = "write" /\ job'[s] = job[s] /\ basis'[s] = basis[s]
    BY <1>9 DEF Inspect, Audience, Return, Crash, Forget, Goto, End, Shaped
  <2>3. \A req \in late' : \E old \in late : req.job = old.job /\ req.basis = old.basis
    BY <1>9, ForgetType DEF Inspect, Audience, Return, Crash
  <2>4. Moves
    BY <2>1 DEF Moves
  <2> QED
    BY <1>3, <2>1, <2>2, <2>3, <2>4 DEF LastWordStands
<1>10. ASSUME NEW req \in late, Arrive(req)
       PROVE  HonestInv' /\ LastWordStands' /\ ~blind'
  <2>1. req \in Requests /\ Honest(req.job, req.basis)
    BY DEF Shaped, HonestInv
  <2>2. UNCHANGED <<at, job, basis, chosen, word>> /\ late' \subseteq late
    BY <1>10 DEF Arrive
  <2>3. Moves /\ LastWordStands' /\ ~blind'
    <3>1. CASE Serve(req)
      BY <1>4, <2>1, <2>2, <3>1 DEF Moves, LastWordStands
    <3>2. CASE UNCHANGED platform
      BY <2>2, <3>2 DEF Moves, LastWordStands
    <3> QED
      BY <1>10, <3>1, <3>2 DEF Arrive
  <2> QED
    BY <1>3, <2>2, <2>3
<1>11. ASSUME NEW c \in Communities, Dialog(c)
       PROVE  HonestInv' /\ LastWordStands' /\ ~blind'
  <2>1. /\ life' = life /\ grantRev' = grantRev + 1 /\ word' = [word EXCEPT ![c] = "none"]
        /\ UNCHANGED <<late, at, job, basis, chosen, blind>>
    BY <1>11 DEF Dialog
  <2>2. Moves
    BY <2>1 DEF Moves
  <2>3. PICK k \in {"grant", "revoke"} : policy' = Changed([command |-> k, community |-> c])
    BY <1>11 DEF Dialog
  <2>4. [command |-> k, community |-> c] \in Grants /\ [command |-> k, community |-> c] \in Jobs
    BY DEF Grants, Jobs
  <2>5. policy'.communities \in {policy.communities \cup {c}, policy.communities \ {c}}
    BY <2>3, <2>4, ChangedType
  <2>6. LastWordStands'
    BY <2>1, <2>5 DEF LastWordStands, Shaped
  <2> QED
    BY <1>3, <2>1, <2>2, <2>6
<1>12. CASE Recreate
  <2>1. /\ life' = life + 1 /\ word' = [c \in Communities |-> "none"]
        /\ UNCHANGED <<late, at, job, basis, chosen, blind>>
    BY <1>12 DEF Recreate
  <2>2. Moves /\ LastWordStands'
    BY <2>1 DEF Moves, LastWordStands
  <2> QED
    BY <1>3, <2>1, <2>2
<1>13. CASE UNCHANGED vars
  BY <1>13 DEF vars, HonestInv, Honest, LastWordStands
<1> QED
  BY <1>5, <1>6, <1>7, <1>8, <1>9, <1>10, <1>11, <1>12, <1>13 DEF Next

HonestIInv == Shaped /\ Commanded /\ HonestInv /\ LastWordStands /\ ~blind

LEMMA HonestIInit == Init => HonestIInv
BY ShapedInit DEF Init, HonestIInv, HonestInv, LastWordStands

LEMMA HonestIStep == HonestIInv /\ [Next]_vars => HonestIInv'
BY ShapedStep, HonestStep DEF HonestIInv

\* However late a grant, a revocation or a renewal is served, and whatever the
\* dialog, other runs and a new app under the ID did meanwhile: it is applied to
\* the state that was read for it, or not at all.
THEOREM NeverBlind == Spec => []AppliedToWhatWasRead
<1>1. HonestIInv => AppliedToWhatWasRead
  BY DEF HonestIInv, AppliedToWhatWasRead
<1> QED
  BY HonestIInit, HonestIStep, <1>1, PTL DEF Spec

\* What was last reported of a community is so, until somebody looks at the
\* communities again: no request that is still under way undoes it.
THEOREM LastWord == Spec => []LastWordStands
<1>1. HonestIInv => LastWordStands
  BY DEF HonestIInv
<1> QED
  BY HonestIInit, HonestIStep, <1>1, PTL DEF Spec

-----------------------------------------------------------------------------
(***************************************************************************)
(* Who can open the app                                                    *)
(***************************************************************************)

\* the types that Shaped leaves out
Claimed ==
  /\ claim \in [Runs -> Claims \cup {Missing}]
  /\ truth \in [Runs -> Policies]

\* What a claim says of a policy is so.
True(c, p) ==
  /\ c.base = "owner" <=> p.visibility = "restricted"
  /\ c.communities = p.communities
  /\ c.base = "owner" /\ c.counted => c.others = p.viewers \cup p.publishers

\* Only a command that has asked for the audience claims anything.
ClaimInv ==
  /\ \A r \in Runs : at[r] # "end" => claim[r] = Missing
  /\ \A r \in Runs : claim[r] # Missing => True(claim[r], truth[r])

\* An reply that is believed says who can open the app.
LEMMA VerifiedIsTrue ==
  ASSUME policy \in Policies, NEW reply \in Answers, Verified(reply),
         NEW o \in {Owner, Missing}
  PROVE  True(WhoCanOpen(reply, o), policy)
<1> DEFINE known == IF reply.owner # Missing THEN reply.owner ELSE o
           people == IF reply.effective # NoList THEN reply.effective
                     ELSE Listed(reply.viewers) \cup Listed(reply.publishers)
           said == WhoCanOpen(reply, o)
<1>1. /\ reply.visibility = policy.visibility
      /\ reply.owner \in {Owner, Missing}
      /\ reply.effective \in {policy.viewers \cup policy.publishers \cup {Owner}, NoList}
      /\ reply.communities \in (IF policy.communities = {} THEN {{}, NoList}
                                ELSE {policy.communities})
  BY DEF Answers
<1>2. /\ said.base = IF reply.visibility = "restricted" THEN "owner" ELSE "workspace"
      /\ said.others = IF reply.visibility = "restricted" /\ known # Missing
                         THEN people \ {known} ELSE {}
      /\ said.counted = (known # Missing)
      /\ said.communities = Listed(reply.communities)
  BY DEF WhoCanOpen
<1>3. policy.communities \subseteq Communities /\ policy.viewers \subseteq Others
        /\ policy.publishers \subseteq Others
  BY DEF Policies
<1>4. said.communities = policy.communities
  BY <1>1, <1>2, <1>3, MissingAssumption DEF Listed, NoList
<1>5. said.base = "owner" <=> policy.visibility = "restricted"
  BY <1>1, <1>2
<1>6. ASSUME said.base = "owner", said.counted
      PROVE  said.others = policy.viewers \cup policy.publishers
  <2>1. reply.visibility = "restricted" /\ known # Missing
    BY <1>2, <1>6
  <2>2. known = Owner
    BY <1>1, <2>1
  <2>3. reply.effective # NoList
    BY <2>1 DEF Verified
  <2>4. people = policy.viewers \cup policy.publishers \cup {Owner}
    BY <1>1, <2>3
  <2>5. said.others = people \ {Owner}
    BY <1>2, <2>1, <2>2
  <2> HIDE DEF known, people, said
  <2> QED
    BY <1>3, <2>4, <2>5, OwnerAssumption
<1> QED
  BY <1>4, <1>5, <1>6 DEF True

LEMMA ClaimStep ==
  ASSUME Shaped, Claimed, ClaimInv, [Next]_vars
  PROVE  ClaimInv'
<1> USE DEF ClaimInv, Claimed
<1>1. ASSUME UNCHANGED <<claim, truth>>,
             \A r \in Runs : at[r] = "end" => at'[r] = "end"
      PROVE  ClaimInv'
  BY <1>1 DEF True
<1>2. ASSUME NEW r \in Runs, NEW j \in Jobs,
             \/ BeginVisibility(r, j) \/ BeginAccess(r, j) \/ BeginPublishers(r, j)
             \/ BeginGrant(r, j) \/ BeginGet(r, j)
      PROVE  ClaimInv'
  BY <1>1, <1>2, BeginStep DEF Goto, End, Shaped
<1>3. ASSUME NEW r \in Runs,
             \/ \E q \in Renewals, b \in Bases : BeginRenew(r, q, b)
             \/ ReadRevision(r) \/ Inspect(r)
             \/ \E reply \in Replies : Write(r, reply)
      PROVE  ClaimInv'
  <2>1. UNCHANGED <<claim, truth>> /\ at[r] # "end"
    BY <1>3 DEF BeginRenew, ReadRevision, Inspect, Write
  <2>2. \A s \in Runs : s # r => at'[s] = at[s]
    BY <1>3 DEF BeginRenew, Try, ReadRevision, Inspect, Write, Answered, Goto, End, Shaped
  <2> QED
    BY <1>1, <2>1, <2>2
<1>4. ASSUME NEW r \in Runs, NEW o \in {Owner, Missing}, Audience(r, o) PROVE ClaimInv'
  <2>1. at' = [at EXCEPT ![r] = "end"] /\ truth' = [truth EXCEPT ![r] = policy]
    BY <1>4 DEF Audience, End
  <2>2. claim[r] = Missing
    BY <1>4 DEF Audience
  <2>3. \/ claim' = claim
        \/ \E reply \in Answers : Verified(reply)
              /\ claim' = [claim EXCEPT ![r] = WhoCanOpen(reply, o)]
        \/ claim' = [claim EXCEPT ![r] = Missing]
    BY <1>4 DEF Audience
  <2>4. claim'[r] # Missing => True(claim'[r], policy)
    BY <2>2, <2>3, VerifiedIsTrue DEF Shaped
  <2>5. \A s \in Runs \ {r} : /\ at'[s] = at[s] /\ claim'[s] = claim[s]
                              /\ truth'[s] = truth[s]
    BY <2>1, <2>3 DEF Shaped
  <2>6. at'[r] = "end" /\ truth'[r] = policy
    BY <2>1 DEF Shaped
  <2> QED
    BY <2>4, <2>5, <2>6 DEF True
<1>5. ASSUME NEW r \in Runs, Return(r) \/ Crash(r) PROVE ClaimInv'
  BY <1>5 DEF Return, Crash, Forget, Shaped, True
<1>6. ASSUME NEW req \in late, Arrive(req) PROVE ClaimInv'
  BY <1>1, <1>6 DEF Arrive
<1>7. ASSUME NEW c \in Communities, Dialog(c) PROVE ClaimInv'
  BY <1>1, <1>7 DEF Dialog
<1>8. CASE Recreate \/ UNCHANGED vars
  BY <1>1, <1>8 DEF Recreate, vars
<1> QED
  BY <1>2, <1>3, <1>4, <1>5, <1>6, <1>7, <1>8 DEF Next
LEMMA ClaimType ==
  ASSUME policy \in Policies, NEW reply \in Answers, Verified(reply),
         NEW o \in {Owner, Missing}
  PROVE  WhoCanOpen(reply, o) \in Claims
<1> DEFINE known == IF reply.owner # Missing THEN reply.owner ELSE o
           people == IF reply.effective # NoList THEN reply.effective
                     ELSE Listed(reply.viewers) \cup Listed(reply.publishers)
<1>1. /\ reply.owner \in {Owner, Missing}
      /\ reply.viewers \in {policy.viewers \cup {Owner}, NoList}
      /\ reply.effective \in {policy.viewers \cup policy.publishers \cup {Owner}, NoList}
      /\ reply.publishers \in {policy.publishers, NoList}
      /\ reply.communities \in (IF policy.communities = {} THEN {{}, NoList}
                                ELSE {policy.communities})
  BY DEF Answers
<1>2. policy.communities \subseteq Communities /\ policy.viewers \subseteq Others
        /\ policy.publishers \subseteq Others
  BY DEF Policies
<1>3. people \subseteq Others \cup {Owner}
  BY <1>1, <1>2 DEF Listed
<1>4. known # Missing => known = Owner
  BY <1>1
<1>5. Listed(reply.communities) \subseteq Communities
  BY <1>1, <1>2 DEF Listed
<1> HIDE DEF known, people
<1>6. known # Missing => people \ {known} \subseteq Others
  BY <1>3, <1>4
<1> QED
  BY <1>5, <1>6 DEF WhoCanOpen, Claims, known, people

LEMMA ClaimedStep ==
  ASSUME Shaped, Claimed, [Next]_vars
  PROVE  Claimed'
<1>1. Private \in Policies
  BY DEF Private, Policies
<1>2. ASSUME NEW r \in Runs, NEW o \in {Owner, Missing}, Audience(r, o) PROVE Claimed'
  <2>1. /\ truth' = [truth EXCEPT ![r] = policy]
        /\ \/ claim' = claim
           \/ \E reply \in Answers : Verified(reply)
                /\ claim' = [claim EXCEPT ![r] = WhoCanOpen(reply, o)]
           \/ claim' = [claim EXCEPT ![r] = Missing]
    BY <1>2 DEF Audience
  <2> QED
    BY <2>1, ClaimType DEF Claimed, Shaped
<1>3. ASSUME NEW r \in Runs, Return(r) \/ Crash(r) PROVE Claimed'
  BY <1>1, <1>3 DEF Return, Crash, Forget, Claimed
<1>4. ASSUME UNCHANGED <<claim, truth>> PROVE Claimed'
  BY <1>4 DEF Claimed
<1>5. ASSUME NEW r \in Runs, NEW j \in Jobs,
             \/ BeginVisibility(r, j) \/ BeginAccess(r, j) \/ BeginPublishers(r, j)
             \/ BeginGrant(r, j) \/ BeginGet(r, j)
      PROVE  UNCHANGED <<claim, truth>>
  BY <1>5, BeginStep
<1> QED
  BY <1>2, <1>3, <1>4, <1>5
  DEF Next, BeginRenew, ReadRevision, Write, Inspect, Arrive, Dialog, Recreate, vars

\* What `get' calls verified is so: it names every community, and counts everybody
\* who can open a private app if it knows the owner to leave out.
THEOREM AudienceComplete == Spec => []AudienceIsComplete
<1>1. Init => Shaped /\ Commanded /\ Claimed /\ ClaimInv
  <2>1. Private \in Policies
    BY DEF Private, Policies
  <2> QED
    BY <2>1, ShapedInit DEF Init, Claimed, ClaimInv
<1>2. Shaped /\ Commanded /\ Claimed /\ ClaimInv /\ [Next]_vars
        => (Shaped /\ Commanded /\ Claimed /\ ClaimInv)'
  BY ShapedStep, ClaimedStep, ClaimStep DEF Claimed
<1>3. ClaimInv => AudienceIsComplete
  BY DEF ClaimInv, AudienceIsComplete, True
<1> QED
  BY <1>1, <1>2, <1>3, PTL DEF Spec

\* So what the commands say of who can open the app is true: of a change, until the
\* next look or a late request; of an audience called verified, when it was asked.
THEOREM WhatIsToldIsTrue == Spec => []ToldTruly
<1>1. LastWordStands /\ AudienceIsComplete => ToldTruly
  BY DEF ToldTruly
<1> QED
  BY <1>1, LastWord, AudienceComplete, PTL

-----------------------------------------------------------------------------
(***************************************************************************)
(* The whole type invariant, with the bound on what is under way           *)
(***************************************************************************)

TypeInv == TypeOK /\ IsFiniteSet(late) /\ Commanded

LEMMA LateStep ==
  ASSUME IsFiniteSet(late), Cardinality(late) <= MaxLate, [Next]_vars
  PROVE  IsFiniteSet(late') /\ Cardinality(late') <= MaxLate
<1>1. Cardinality(late) \in Nat /\ MaxLate \in Nat
  BY FS_CardinalityType, BoundsAssumption
<1>2. ASSUME NEW r \in Runs, NEW reply \in Replies, Write(r, reply)
      PROVE  IsFiniteSet(late') /\ Cardinality(late') <= MaxLate
  <2>1. late' = late \/ (/\ late' = late \cup {Request(r)}
                         /\ Cardinality(late') <= MaxLate)
    BY <1>2 DEF Write, Exchange
  <2> QED
    BY <2>1, FS_AddElement
<1>3. ASSUME NEW req \in late, Arrive(req)
      PROVE  IsFiniteSet(late') /\ Cardinality(late') <= MaxLate
  <2>1. late' = late \ {req}
    BY <1>3 DEF Arrive
  <2> QED
    BY <1>1, <2>1, FS_RemoveElement
<1>4. ASSUME NEW r \in Runs, Forget(r)
      PROVE  IsFiniteSet(late') /\ Cardinality(late') <= MaxLate
  <2> DEFINE f == [req \in late |-> IF req.by = r THEN [req EXCEPT !.by = Missing] ELSE req]
  <2>1. f \in Surjection(late, late')
    BY <1>4 DEF Forget, Surjection
  <2>2. IsFiniteSet(late') /\ Cardinality(late') <= Cardinality(late)
    BY <2>1, FS_Surjection
  <2>3. Cardinality(late') \in Nat
    BY <2>2, FS_CardinalityType
  <2> QED
    BY <1>1, <2>2, <2>3
<1>5. ASSUME NEW r \in Runs, NEW j \in Jobs,
             \/ BeginVisibility(r, j) \/ BeginAccess(r, j) \/ BeginPublishers(r, j)
             \/ BeginGrant(r, j) \/ BeginGet(r, j)
      PROVE  late' = late
  BY <1>5, BeginStep
<1> QED
  BY <1>2, <1>3, <1>4, <1>5
  DEF Next, BeginRenew, ReadRevision, Inspect, Audience, Return, Crash, Dialog, Recreate, vars

Recorded == receipts \subseteq Renewals /\ blind \in BOOLEAN

LEMMA RecordedStep ==
  ASSUME Shaped, Commanded, Recorded, [Next]_vars
  PROVE  Recorded'
<1> USE DEF Recorded
<1>1. ASSUME NEW req \in Requests, Serve(req) PROVE Recorded'
  <2>1. req.job \in Extensions => req.job.id \in Renewals
    BY DEF Extensions
  <2> QED
    BY <1>1, <2>1 DEF Serve, Meets
<1>2. ASSUME UNCHANGED <<receipts, blind>> PROVE Recorded'
  BY <1>2
<1>3. ASSUME NEW r \in Runs, NEW reply \in Replies, Write(r, reply) PROVE Recorded'
  <2>1. /\ Request(r) \in Requests
        /\ Serve(Request(r))
              \/ UNCHANGED <<policy, grantRev, renewRev, life, receipts, blind>>
    BY <1>3, ExchangeType DEF Write
  <2> QED
    BY <1>1, <1>2, <2>1
<1>4. ASSUME NEW req \in late, Arrive(req) PROVE Recorded'
  BY <1>1, <1>2, <1>4 DEF Arrive, Shaped, platform
<1>5. ASSUME NEW r \in Runs, NEW j \in Jobs,
             \/ BeginVisibility(r, j) \/ BeginAccess(r, j) \/ BeginPublishers(r, j)
             \/ BeginGrant(r, j) \/ BeginGet(r, j)
      PROVE  UNCHANGED <<receipts, blind>>
  BY <1>5, BeginStep DEF platform
<1> QED
  BY <1>2, <1>3, <1>4, <1>5
  DEF Next, BeginRenew, ReadRevision, Inspect, Audience, Return, Crash, Forget, Dialog,
      Recreate, vars, platform

\* Every variable keeps its type, and the platform and the runs their bounds.
THEOREM TypeCorrect == Spec => []TypeOK
<1>1. Init => TypeInv
  <2>1. Private \in Policies
    BY DEF Private, Policies
  <2> SUFFICES ASSUME Init PROVE TypeInv
    OBVIOUS
  <2>2. late = {} /\ IsFiniteSet(late) /\ Cardinality(late) <= MaxLate
    BY FS_EmptySet, BoundsAssumption DEF Init
  <2>3. /\ receipts = {} /\ blind = FALSE
        /\ claim \in [Runs -> Claims \cup {Missing}]
        /\ truth \in [Runs -> Policies]
    BY <2>1 DEF Init
  <2> QED
    BY <2>2, <2>3, ShapedInit DEF TypeInv, TypeOK, Shaped, Labels
<1>2. TypeInv /\ [Next]_vars => TypeInv'
  <2> SUFFICES ASSUME TypeInv, [Next]_vars PROVE TypeInv'
    OBVIOUS
  <2>1. Shaped /\ Claimed
    BY DEF TypeInv, TypeOK, Shaped, Claimed, Labels
  <2>2. Shaped' /\ Commanded' /\ Claimed'
    BY <2>1, ShapedStep, ClaimedStep DEF TypeInv
  <2>3. IsFiniteSet(late') /\ Cardinality(late') <= MaxLate
    BY LateStep DEF TypeInv, TypeOK
  <2>4. Recorded'
    BY <2>1, RecordedStep DEF TypeInv, TypeOK, Recorded
  <2> QED
    BY <2>2, <2>3, <2>4 DEF TypeInv, TypeOK, Shaped, Claimed, Recorded, Labels
<1> QED
  BY <1>1, <1>2, PTL DEF Spec, TypeInv

-----------------------------------------------------------------------------
(***************************************************************************)
(* AppsRequest                                                             *)
(***************************************************************************)

\* The session is used for the approved hosts and for Kgoose, and at no other address.
AskInv ==
  /\ Ask!RequestTypeOK
  /\ SecretKept
  /\ askAt = "verify" => address = Ask!Service("approved")
  /\ askAt \in {"send", "quota"} =>
       /\ address \in Ask!Urls
       /\ holds = "session" => address = Ask!Service("approved")
  /\ askAt = "communities" =>
       /\ address \in {Ask!Kgoose, Ask!Proxy}
       /\ holds = "session" => address = Ask!Kgoose

LEMMA AskInit == Ask!RequestInit => AskInv
BY DEF Ask!RequestInit, AskInv, Ask!RequestTypeOK, SecretKept, Ask!SecretKept, Ask!Results,
   Ask!Recoveries

LEMMA ApprovedUrl ==
  /\ Ask!Service("approved") \in Ask!Urls
  /\ \A url \in Ask!Urls : url.https /\ url.port = "own" /\ ~url.user /\ url.host = "approved" =>
       url = Ask!Service("approved")
BY DEF Ask!Service, Ask!Urls

\* what is printed of an answer of the platform's
Harmless == {"none", "plain", "redacted"}

\* what is printed of an answer is not the session, but in a list of communities
LEMMA Printable ==
  /\ \A x \in Ask!Values : /\ Ask!Sanitized(x) \in Harmless
                           /\ Ask!RedactJson(x) \in Harmless \cup {"failed"}
                           /\ Ask!Cleared(x) \in Harmless \cup {"spelled"}
                           /\ Ask!Cleared(x) = "spelled" => holds = "session"
  /\ \A x \in Ask!Strings : /\ x \in Ask!Values
                            /\ Ask!Redact(x) \in Harmless
                            /\ Ask!Traced(x) \in Harmless
<1>1. \A x \in Ask!Strings : x \in {"none", "plain", "echo", "spelled"} /\ x \in Ask!Values
  BY DEF Ask!Strings, Ask!Repeated, Ask!Values
<1>2. \A x \in {"none", "plain", "echo", "spelled", "key"} :
        /\ Ask!RedactJson(x) \in Harmless \cup {"failed"}
        /\ Ask!Cleared(x) \in Harmless \cup {"spelled"}
        /\ Ask!Cleared(x) = "spelled" => x = "spelled"
  BY DEF Ask!RedactJson, Ask!Redact, Ask!Cleared, Harmless
<1>3. \A x \in {"none", "plain", "echo", "spelled", "key"} : Ask!Sanitized(x) \in Harmless
  BY <1>2 DEF Ask!Sanitized, Harmless
<1>4. \A x \in {"none", "plain", "echo", "spelled"} : /\ Ask!Redact(x) \in Harmless
                                                      /\ Ask!Traced(x) \in Harmless
  BY DEF Ask!Redact, Ask!Traced, Harmless
<1>5. ASSUME NEW x \in Ask!Values
      PROVE  /\ Ask!Sanitized(x) \in Harmless
             /\ Ask!RedactJson(x) \in Harmless \cup {"failed"}
             /\ Ask!Cleared(x) \in Harmless \cup {"spelled"}
             /\ Ask!Cleared(x) = "spelled" => holds = "session"
  <2>1. /\ x \in {"none", "plain", "echo", "spelled", "key"}
        /\ x = "spelled" => holds = "session"
    BY DEF Ask!Values, Ask!Strings, Ask!Repeated
  <2> QED
    BY <2>1, <1>2, <1>3
<1>6. ASSUME NEW x \in Ask!Strings
      PROVE  x \in Ask!Values /\ Ask!Redact(x) \in Harmless /\ Ask!Traced(x) \in Harmless
  BY <1>1, <1>4
<1> QED
  BY <1>5, <1>6

\* a request that is authorized as it must be, and of its answer only what may be shown
LEMMA AskStep ==
  ASSUME AskInv, askAt \in {"send", "quota", "names", "communities"},
         UNCHANGED <<command, address, holds, recovery>>,
         NEW m \in [to : Ask!Urls \cup {Ask!Kgoose, Ask!Proxy}, session : BOOLEAN],
         told' = told \cup {m},
         m.session => m.to = Ask!Kgoose \/ m.to = Ask!Service("approved"),
         NEW of \in Ask!Sources, NEW texts, texts \subseteq Harmless \cup {"spelled"},
         "spelled" \in texts =>
           of = "communities" /\ m = [to |-> Ask!Kgoose, session |-> TRUE],
         printed' = printed \cup Ask!Said(of, texts),
         askAt' = "end" \/ (askAt = "send" /\ askAt' \in {"quota", "names"}),
         askResult' \in Ask!Results
  PROVE  AskInv'
<1>1. Ask!RequestTypeOK
  BY DEF AskInv
<1>2. \A s \in Ask!Said(of, texts) :
        /\ s \in [of : Ask!Sources, text : Ask!Texts]
        /\ s.text \in texts /\ s.of = of
  BY DEF Ask!Said, Ask!Texts, Harmless
<1>3. /\ \A s \in printed' : s \in printed \/ s \in Ask!Said(of, texts)
      /\ printed' \subseteq [of : Ask!Sources, text : Ask!Texts]
  BY <1>1, <1>2 DEF Ask!RequestTypeOK
<1>4. ASSUME NEW s \in printed'
      PROVE  /\ s.text \notin {"echo", "key"}
             /\ s.text = "spelled" =>
                  s.of = "communities" /\ [to |-> Ask!Kgoose, session |-> TRUE] \in told'
  <2>1. CASE s \in printed
    BY <2>1 DEF AskInv, SecretKept, Ask!SecretKept
  <2>2. CASE s \in Ask!Said(of, texts)
    BY <1>2, <2>2 DEF Harmless
  <2> QED
    BY <1>3, <2>1, <2>2
<1>5. \A n \in told' : n.session => n.to = Ask!Kgoose \/ n.to = Ask!Service("approved")
  BY DEF AskInv, SecretKept, Ask!SecretKept
<1>6. SecretKept'
  BY <1>4, <1>5 DEF SecretKept, Ask!SecretKept
<1>7. told' \subseteq [to : Ask!Urls \cup {Ask!Kgoose, Ask!Proxy}, session : BOOLEAN]
  BY <1>1 DEF Ask!RequestTypeOK
<1>8. Ask!RequestTypeOK'
  BY <1>1, <1>3, <1>7 DEF Ask!RequestTypeOK
<1>9. /\ askAt' # "verify" /\ askAt' # "communities" /\ address' = address /\ holds' = holds
      /\ askAt' \in {"send", "quota"} => askAt = "send"
  OBVIOUS
<1> QED
  BY <1>6, <1>8, <1>9 DEF AskInv

\* the request to the address the command asks
LEMMA AskSends ==
  ASSUME AskInv, askAt \in {"send", "quota", "communities"}, Ask!Ask
  PROVE  \E m \in [to : Ask!Urls \cup {Ask!Kgoose, Ask!Proxy}, session : BOOLEAN] :
           /\ told' = told \cup {m}
           /\ m.session => m.to = Ask!Kgoose \/ m.to = Ask!Service("approved")
           /\ askAt = "communities" /\ holds = "session" =>
                m = [to |-> Ask!Kgoose, session |-> TRUE]
<1> DEFINE m == [to |-> address, session |-> holds = "session"]
<1>1. told' = told \cup {m}
  BY DEF Ask!Ask
<1>2. /\ address \in Ask!Urls \cup {Ask!Kgoose, Ask!Proxy}
      /\ holds = "session" => address = Ask!Kgoose \/ address = Ask!Service("approved")
      /\ askAt = "communities" /\ holds = "session" => address = Ask!Kgoose
  BY DEF AskInv
<1>3. \A x, y : (x = y) \in BOOLEAN
  OBVIOUS
<1>4. /\ m \in [to : Ask!Urls \cup {Ask!Kgoose, Ask!Proxy}, session : BOOLEAN]
      /\ m.session => m.to = Ask!Kgoose \/ m.to = Ask!Service("approved")
      /\ askAt = "communities" /\ holds = "session" =>
           m = [to |-> Ask!Kgoose, session |-> TRUE]
  BY <1>2, <1>3
<1> HIDE DEF m
<1> QED
  BY <1>1, <1>4

\* an answer of the platform's
LEMMA PlatformStep ==
  ASSUME AskInv, askAt \in {"send", "quota"}, Ask!Ask,
         UNCHANGED <<command, address, holds, recovery>>,
         NEW texts, texts \subseteq Harmless,
         printed' = printed \cup Ask!Said("platform", texts),
         askAt' = "end" \/ (askAt = "send" /\ askAt' \in {"quota", "names"}),
         askResult' \in Ask!Results
  PROVE  AskInv'
<1>1. PICK m \in [to : Ask!Urls \cup {Ask!Kgoose, Ask!Proxy}, session : BOOLEAN] :
        /\ told' = told \cup {m}
        /\ m.session => m.to = Ask!Kgoose \/ m.to = Ask!Service("approved")
  BY AskSends
<1>2. "platform" \in Ask!Sources /\ "spelled" \notin texts
      /\ texts \subseteq Harmless \cup {"spelled"}
  BY DEF Ask!Sources, Harmless
<1> QED
  BY <1>1, <1>2, AskStep

LEMMA AskBegin == ASSUME AskInv, NEW s \in Ask!Settings, Ask!Begin(s) PROVE AskInv'
<1>1. s.base \in Ask!Urls
  BY DEF Ask!Settings
<1>2. /\ UNCHANGED <<command, recovery, told, printed>>
      /\ Ask!RequestTypeOK /\ SecretKept
  BY DEF Ask!Begin, AskInv
<1>3. SecretKept'
  BY <1>2 DEF SecretKept, Ask!SecretKept
<1>4. ASSUME askAt' = "end", askResult' \in {"auth", "general"}, UNCHANGED <<address, holds>>
      PROVE  AskInv'
  BY <1>2, <1>3, <1>4 DEF AskInv, Ask!RequestTypeOK, Ask!Results
<1>5. ASSUME Ask!Trusted(s, s.base), address' = s.base, askResult' = askResult,
             \/ Ask!OfOperator(s, s.base) /\ holds' = "proxy" /\ askAt' = "send"
             \/ ~Ask!OfOperator(s, s.base) /\ holds' = "nothing" /\ askAt' = "verify"
      PROVE  AskInv'
  <2>1. askAt' = "verify" => address' = Ask!Service("approved")
    BY <1>1, <1>5, ApprovedUrl DEF Ask!Trusted
  <2>2. Ask!RequestTypeOK'
    BY <1>1, <1>2, <1>5 DEF Ask!RequestTypeOK
  <2> QED
    BY <1>1, <1>3, <1>5, <2>1, <2>2 DEF AskInv
<1>6. ASSUME askAt' = "communities", askResult' = askResult,
             \/ address' = Ask!Proxy /\ holds' = "proxy"
             \/ address' = Ask!Kgoose /\ holds' = "session"
      PROVE  AskInv'
  BY <1>2, <1>3, <1>6 DEF AskInv, Ask!RequestTypeOK
<1> QED
  BY <1>4, <1>5, <1>6 DEF Ask!Begin, Ask!End, Ask!Goto

LEMMA AskVerify == ASSUME AskInv, Ask!NoSession \/ Ask!Verify PROVE AskInv'
<1>1. /\ askAt = "verify" /\ address = Ask!Service("approved") /\ Ask!RequestTypeOK /\ SecretKept
      /\ UNCHANGED <<command, address, printed>>
  BY DEF Ask!NoSession, Ask!Verify, AskInv
<1> DEFINE m == [to |-> Ask!Kgoose, session |-> TRUE]
<1>2. m \in [to : Ask!Urls \cup {Ask!Kgoose, Ask!Proxy}, session : BOOLEAN] /\ m.to = Ask!Kgoose
  OBVIOUS
<1> HIDE DEF m
<1>3. told' = told \/ told' = told \cup {m}
  BY DEF Ask!NoSession, Ask!Verify, m
<1>4. SecretKept' /\ told' \subseteq [to : Ask!Urls \cup {Ask!Kgoose, Ask!Proxy}, session : BOOLEAN]
  BY <1>1, <1>2, <1>3 DEF SecretKept, Ask!SecretKept, Ask!RequestTypeOK
<1>5. \A me : Ask!RecoveryOf(me) \in Ask!Recoveries
  BY DEF Ask!RecoveryOf, Ask!Recoveries
<1>6. /\ askAt' \in {"send", "end"} /\ askResult' \in Ask!Results
      /\ holds' \in {"session", holds} /\ recovery' \in Ask!Recoveries
  BY <1>1, <1>5 DEF Ask!NoSession, Ask!Verify, Ask!End, Ask!Goto, Ask!Results, Ask!RequestTypeOK
<1>7. Ask!RequestTypeOK'
  BY <1>1, <1>4, <1>6 DEF Ask!RequestTypeOK
<1> QED
  BY <1>1, <1>4, <1>6, <1>7, ApprovedUrl DEF AskInv

LEMMA AskAnswer ==
  ASSUME AskInv,
         \/ Ask!NoUsableAnswer
         \/ \E e \in Ask!Errors : Ask!Refused(e)
         \/ \E x \in Ask!Values, trace \in Ask!Strings, more \in BOOLEAN :
              Ask!Answered(x, trace, more)
         \/ \E x \in Ask!Values : Ask!Quota(x)
         \/ \E x \in Ask!Values, trace \in Ask!Strings, ok \in BOOLEAN :
              Ask!JoinedCommunities(x, trace, ok)
         \/ Ask!CommunityNames
  PROVE  AskInv'
<1>1. CASE Ask!NoUsableAnswer
  <2>1. PICK trace \in Ask!Strings : printed' = printed \cup Ask!Said("platform", {Ask!Traced(trace)})
    BY <1>1 DEF Ask!NoUsableAnswer
  <2>2. {Ask!Traced(trace)} \subseteq Harmless
    BY Printable
  <2>3. /\ askAt = "send" /\ Ask!Ask /\ UNCHANGED <<command, address, holds, recovery>>
        /\ askAt' = "end" /\ askResult' \in Ask!Results
    BY <1>1 DEF Ask!NoUsableAnswer, Ask!End, Ask!Results
  <2> QED
    BY <2>1, <2>2, <2>3, PlatformStep
<1>2. ASSUME NEW e \in Ask!Errors, Ask!Refused(e) PROVE AskInv'
  <2>1. /\ e.code \in Ask!Strings /\ e.trace \in Ask!Strings
        /\ e.details \in Ask!Values /\ e.next \in Ask!Values
    BY DEF Ask!Errors
  <2> DEFINE raw == {Ask!Redact(e.code), Ask!Traced(e.trace)}
                      \cup (IF e.status \in {"unauthorized", "forbidden"}
                              THEN {} ELSE {Ask!Sanitized(e.details)})
                      \cup (IF Ask!OwnNextStep(e) THEN {} ELSE {Ask!Sanitized(e.next)})
  <2>2. raw \subseteq Harmless /\ {Ask!Traced(e.trace)} \subseteq Harmless
    BY <2>1, Printable
  <2>3. \E texts : texts \subseteq Harmless /\ printed' = printed \cup Ask!Said("platform", texts)
    BY <1>2, <2>2 DEF Ask!Refused, Ask!ShownOfError
  <2>4. /\ askAt = "send" /\ Ask!Ask /\ UNCHANGED <<command, address, holds, recovery>>
        /\ askAt' = "end" /\ askResult' \in Ask!Results
    BY <1>2 DEF Ask!Refused, Ask!End, Ask!ExitOf, Ask!Results
  <2> QED
    BY <2>3, <2>4, PlatformStep
<1>3. ASSUME NEW x \in Ask!Values, NEW trace \in Ask!Strings, NEW more \in BOOLEAN,
             Ask!Answered(x, trace, more)
      PROVE  AskInv'
  <2>1. /\ askAt = "send" /\ Ask!Ask /\ UNCHANGED <<command, address, holds, recovery>>
    BY <1>3 DEF Ask!Answered
  <2>2. CASE Ask!RedactJson(x) = "failed"
    <3>1. {Ask!Traced(trace)} \subseteq Harmless
      BY Printable
    <3>2. /\ printed' = printed \cup Ask!Said("platform", {Ask!Traced(trace)})
          /\ askAt' = "end" /\ askResult' \in Ask!Results
      BY <1>3, <2>2 DEF Ask!Answered, Ask!End, Ask!Results
    <3> QED
      BY <2>1, <3>1, <3>2, PlatformStep
  <2>3. CASE Ask!RedactJson(x) # "failed"
    <3>1. {Ask!RedactJson(x), Ask!Traced(trace)} \subseteq Harmless
      BY <2>3, Printable
    <3>2. /\ printed' = printed \cup Ask!Said("platform", {Ask!RedactJson(x), Ask!Traced(trace)})
          /\ askAt' \in {"quota", "names", "end"} /\ askResult' \in Ask!Results
      BY <1>3, <2>3
      DEF Ask!Answered, Ask!End, Ask!Goto, Ask!Results, AskInv, Ask!RequestTypeOK
    <3> QED
      BY <2>1, <3>1, <3>2, PlatformStep
  <2> QED
    BY <2>2, <2>3
<1>4. ASSUME NEW x \in Ask!Values, Ask!Quota(x) PROVE AskInv'
  <2>1. {Ask!Sanitized(x)} \subseteq Harmless
    BY Printable
  <2>2. /\ askAt = "quota" /\ Ask!Ask /\ UNCHANGED <<command, address, holds, recovery>>
        /\ printed' = printed \cup Ask!Said("platform", {Ask!Sanitized(x)})
        /\ askAt' = "end" /\ askResult' \in Ask!Results
    BY <1>4 DEF Ask!Quota, Ask!End, Ask!Results
  <2> QED
    BY <2>1, <2>2, PlatformStep
<1>5. ASSUME NEW x \in Ask!Values, NEW trace \in Ask!Strings, NEW ok \in BOOLEAN,
             Ask!JoinedCommunities(x, trace, ok)
      PROVE  AskInv'
  <2>1. /\ Ask!Cleared(x) \in Harmless \cup {"spelled"}
        /\ Ask!Cleared(trace) \in Harmless \cup {"spelled"}
        /\ "spelled" \in {Ask!Cleared(x), Ask!Cleared(trace)} => holds = "session"
    BY Printable
  <2>2. PICK texts : /\ texts \subseteq {Ask!Cleared(x), Ask!Cleared(trace)}
                     /\ printed' = printed \cup Ask!Said("communities", texts)
    <3>1. /\ {Ask!Cleared(x)} \subseteq {Ask!Cleared(x), Ask!Cleared(trace)}
          /\ {Ask!Cleared(trace)} \cup ({Ask!Cleared(x)} \ {"redacted"})
                \subseteq {Ask!Cleared(x), Ask!Cleared(trace)}
      OBVIOUS
    <3> QED
      BY <1>5, <3>1 DEF Ask!JoinedCommunities
  <2>3. /\ askAt = "communities" /\ Ask!Ask /\ UNCHANGED <<command, address, holds, recovery>>
        /\ askAt' = "end" /\ askResult' \in Ask!Results
    BY <1>5 DEF Ask!JoinedCommunities, Ask!End, Ask!Results
  <2>4. PICK m \in [to : Ask!Urls \cup {Ask!Kgoose, Ask!Proxy}, session : BOOLEAN] :
          /\ told' = told \cup {m}
          /\ m.session => m.to = Ask!Kgoose \/ m.to = Ask!Service("approved")
          /\ holds = "session" => m = [to |-> Ask!Kgoose, session |-> TRUE]
    BY <2>3, AskSends
  <2>5. /\ "communities" \in Ask!Sources /\ texts \subseteq Harmless \cup {"spelled"}
        /\ "spelled" \in texts => holds = "session"
    BY <2>1, <2>2 DEF Ask!Sources
  <2>6. /\ "spelled" \in texts => m = [to |-> Ask!Kgoose, session |-> TRUE]
        /\ askAt \in {"send", "quota", "names", "communities"}
    BY <2>3, <2>4, <2>5
  <2> QED
    BY <2>2, <2>3, <2>4, <2>5, <2>6, AskStep
<1>6. CASE Ask!CommunityNames
  <2>0. PICK own \in BOOLEAN : \E x \in Ask!Repeated(own) :
          /\ told' = told \cup {[to |-> IF own THEN Ask!Kgoose ELSE Ask!Proxy,
                                 session |-> own]}
          /\ printed' = printed \cup Ask!Said("communities", {Ask!Cleared(x)})
    BY <1>6 DEF Ask!CommunityNames
  <2>1. PICK x \in Ask!Repeated(own) :
          /\ told' = told \cup {[to |-> IF own THEN Ask!Kgoose ELSE Ask!Proxy,
                                 session |-> own]}
          /\ printed' = printed \cup Ask!Said("communities", {Ask!Cleared(x)})
    BY <2>0
  <2>2. /\ {Ask!Cleared(x)} \subseteq Harmless \cup {"spelled"}
        /\ "spelled" \in {Ask!Cleared(x)} => own = TRUE
    BY <2>1 DEF Ask!Repeated, Ask!Cleared, Harmless
  <2>3. /\ askAt = "names" /\ UNCHANGED <<command, address, holds, recovery>>
        /\ askAt' = "end" /\ askResult' \in Ask!Results /\ "communities" \in Ask!Sources
    BY <1>6 DEF Ask!CommunityNames, Ask!End, Ask!Results, Ask!Sources
  <2>4. CASE own = TRUE
    BY <2>1, <2>2, <2>3, <2>4, AskStep
  <2>5. CASE own = FALSE
    BY <2>1, <2>2, <2>3, <2>5, AskStep
  <2> QED
    BY <2>4, <2>5
<1> QED
  BY <1>1, <1>2, <1>3, <1>4, <1>5, <1>6

LEMMA AskNext == AskInv /\ [Ask!RequestNext]_askVars => AskInv'
<1> SUFFICES ASSUME AskInv, [Ask!RequestNext]_askVars PROVE AskInv'
  OBVIOUS
<1>1. CASE UNCHANGED askVars
  BY <1>1 DEF askVars, AskInv, Ask!RequestTypeOK, SecretKept, Ask!SecretKept
<1> QED
  BY <1>1, AskBegin, AskVerify, AskAnswer DEF Ask!RequestNext

-----------------------------------------------------------------------------
(***************************************************************************)
(* Preferences                                                             *)
(***************************************************************************)

Writing(w) == wat[w] \in {"open", "fill"}

\* what w's command makes of the settings f
Edited(f, w) == [f EXCEPT ![wjob[w].key] = wjob[w].value]

\* only `set' and the login's question write
Setting ==
  \A w \in Writers :
    /\ wat[w] # "idle" => wjob[w] \in Prefs!Wjobs
    /\ wat[w] \in {"prompt", "read", "open", "fill"} => wjob[w].command \in {"set", "login"}

\* Unless a write fell between, one command at a time writes, from the settings that
\* were reported last; and these are what the file holds while nobody fills it.
Undisturbed ==
  /\ \A v, w \in Writers : Writing(v) /\ Writing(w) => v = w
  /\ \A w \in Writers : Writing(w) => draft[w] = Edited(asserted, w)
  /\ (\A w \in Writers : wat[w] # "fill") => prefs = asserted

PrefsInv == Prefs!PrefsTypeOK /\ Setting /\ (~meddled => Undisturbed)

LEMMA JobKinds ==
  \A j \in Prefs!Wjobs :
    /\ j.command \in {"set", "login", "get"}
    /\ j.command \in {"set", "login"} => j.key \in Prefs!KeyNames /\ j.value \in Prefs!Choices
BY DEF Prefs!Wjobs, Prefs!KeyNames, Prefs!Choices

LEMMA PrefsBegin == Prefs!PrefsInit => PrefsInv
<1> SUFFICES ASSUME Prefs!PrefsInit PROVE PrefsInv
  OBVIOUS
<1>1. Prefs!Empty \in Prefs!Contents
  BY DEF Prefs!Empty, Prefs!Contents
<1>2. Prefs!PrefsTypeOK
  BY <1>1 DEF Prefs!PrefsInit, Prefs!PrefsTypeOK
<1> QED
  BY <1>2 DEF Prefs!PrefsInit, PrefsInv, Setting, Undisturbed, Writing

\* the settings edited are settings
LEMMA EditedSettings ==
  ASSUME NEW w \in Writers, PrefsInv, wat[w] \in {"prompt", "read", "open", "fill"},
         NEW f \in Prefs!Contents
  PROVE  Edited(f, w) \in Prefs!Contents
<1>1. wjob[w].key \in Prefs!KeyNames /\ wjob[w].value \in Prefs!Choices
  BY JobKinds DEF PrefsInv, Setting
<1> QED
  BY <1>1 DEF Edited, Prefs!Contents

\* a command that goes on, or ends, without touching the file
LEMMA PrefsQuiet ==
  ASSUME PrefsInv, NEW w \in Writers, NEW label \in {"look", "prompt", "read", "end", "idle"},
         wat' = [wat EXCEPT ![w] = label], UNCHANGED <<prefs, asserted>>,
         meddled' \in BOOLEAN, ~meddled' => ~meddled /\ wat[w] # "fill",
         NEW j \in Prefs!Wjobs \cup {Prefs!NoWjob}, wjob' = [wjob EXCEPT ![w] = j],
         label # "idle" => j \in Prefs!Wjobs,
         label \in {"prompt", "read"} => j.command \in {"set", "login"},
         NEW d \in Prefs!Contents, draft' = [draft EXCEPT ![w] = d],
         wresult' \in [Writers -> {"running", "done", "failed"}]
  PROVE  PrefsInv'
<1>1. Prefs!PrefsTypeOK /\ Setting
  BY DEF PrefsInv
<1>2. /\ \A v \in Writers : wat'[v] = IF v = w THEN label ELSE wat[v]
      /\ \A v \in Writers : wjob'[v] = IF v = w THEN j ELSE wjob[v]
      /\ \A v \in Writers : draft'[v] = IF v = w THEN d ELSE draft[v]
  BY <1>1 DEF Prefs!PrefsTypeOK
<1>3. Prefs!PrefsTypeOK'
  BY <1>1 DEF Prefs!PrefsTypeOK
<1>4. Setting'
  BY <1>1, <1>2 DEF Setting
<1>5. ASSUME ~meddled' PROVE Undisturbed'
  <2>1. Undisturbed /\ wat[w] # "fill"
    BY <1>5 DEF PrefsInv
  <2>2. \A v \in Writers : Writing(v)' => v # w /\ Writing(v) /\ wjob'[v] = wjob[v]
                                          /\ draft'[v] = draft[v]
    BY <1>2 DEF Writing
  <2>3. \A v \in Writers : Writing(v)' => draft'[v] = Edited(asserted, v)'
    BY <2>1, <2>2 DEF Undisturbed, Edited
  <2>4. (\A v \in Writers : wat'[v] # "fill") => \A v \in Writers : wat[v] # "fill"
    BY <1>2, <2>1
  <2> QED
    BY <2>1, <2>2, <2>3, <2>4 DEF Undisturbed
<1> QED
  BY <1>3, <1>4, <1>5 DEF PrefsInv

LEMMA LookStep == ASSUME PrefsInv, NEW w \in Writers, Prefs!Look(w) PROVE PrefsInv'
<1>1. /\ wat[w] = "look" /\ UNCHANGED <<prefs, wjob, asserted, meddled>>
      /\ draft' = IF prefs = Prefs!Unparsable THEN draft ELSE [draft EXCEPT ![w] = prefs]
      /\ Prefs!PrefsTypeOK /\ wjob[w] \in Prefs!Wjobs
  BY DEF Prefs!Look, PrefsInv, Setting
<1>2. /\ wjob \in [Writers -> Prefs!Wjobs \cup {Prefs!NoWjob}] /\ draft \in [Writers -> Prefs!Contents]
      /\ prefs \in Prefs!Contents \cup {Prefs!Unparsable} /\ meddled \in BOOLEAN
      /\ wresult \in [Writers -> {"running", "done", "failed"}]
  BY <1>1 DEF Prefs!PrefsTypeOK
<1>3. wjob' = [wjob EXCEPT ![w] = wjob[w]]
  BY <1>1, <1>2
<1>4. \E d \in Prefs!Contents : draft' = [draft EXCEPT ![w] = d]
  <2>1. CASE prefs = Prefs!Unparsable
    BY <1>1, <1>2, <2>1
  <2>2. CASE prefs # Prefs!Unparsable
    BY <1>1, <1>2, <2>2
  <2> QED
    BY <2>1, <2>2
<1>5. \E label \in {"prompt", "read", "end"} :
        /\ wat' = [wat EXCEPT ![w] = label]
        /\ label \in {"prompt", "read"} => wjob[w].command \in {"set", "login"}
        /\ wresult' \in [Writers -> {"running", "done", "failed"}]
  <2>1. wjob[w].command \in {"set", "login", "get"}
    BY <1>1, JobKinds
  <2>2. \A value \in {"done", "failed"} :
          [wresult EXCEPT ![w] = value] \in [Writers -> {"running", "done", "failed"}]
    BY <1>2
  <2> QED
    BY <1>2, <2>1, <2>2 DEF Prefs!Look, Prefs!To, Prefs!Report
<1> QED
  BY <1>1, <1>2, <1>3, <1>4, <1>5, PrefsQuiet

LEMMA PromptStep ==
  ASSUME PrefsInv, NEW w \in Writers, Prefs!AnswerPrompt(w) PROVE PrefsInv'
<1>1. /\ wat[w] = "prompt" /\ UNCHANGED <<prefs, wjob, draft, asserted, meddled>>
      /\ Prefs!PrefsTypeOK /\ wjob[w] \in Prefs!Wjobs /\ wjob[w].command \in {"set", "login"}
  BY DEF Prefs!AnswerPrompt, PrefsInv, Setting
<1>2. /\ wjob \in [Writers -> Prefs!Wjobs \cup {Prefs!NoWjob}] /\ draft \in [Writers -> Prefs!Contents]
      /\ meddled \in BOOLEAN /\ wresult \in [Writers -> {"running", "done", "failed"}]
  BY <1>1 DEF Prefs!PrefsTypeOK
<1>3. wjob' = [wjob EXCEPT ![w] = wjob[w]] /\ draft' = [draft EXCEPT ![w] = draft[w]]
      /\ draft[w] \in Prefs!Contents
  BY <1>1, <1>2
<1>4. \E label \in {"read", "end"} :
        /\ wat' = [wat EXCEPT ![w] = label]
        /\ wresult' \in [Writers -> {"running", "done", "failed"}]
  BY <1>2 DEF Prefs!AnswerPrompt, Prefs!To, Prefs!Report
<1> QED
  BY <1>1, <1>2, <1>3, <1>4, PrefsQuiet

LEMMA ReadAgainStep ==
  ASSUME PrefsInv, NEW w \in Writers, Prefs!ReadAgain(w) PROVE PrefsInv'
<1>1. /\ wat[w] = "read" /\ UNCHANGED <<prefs, wjob, asserted>>
      /\ meddled' = (meddled \/ Prefs!Between(w))
      /\ Prefs!PrefsTypeOK /\ Setting
      /\ wjob[w] \in Prefs!Wjobs /\ wjob[w].command \in {"set", "login"}
  BY DEF Prefs!ReadAgain, PrefsInv, Setting
<1>2. /\ wjob \in [Writers -> Prefs!Wjobs \cup {Prefs!NoWjob}] /\ draft \in [Writers -> Prefs!Contents]
      /\ wresult \in [Writers -> {"running", "done", "failed"}]
  BY <1>1 DEF Prefs!PrefsTypeOK
<1>3. meddled' \in BOOLEAN /\ (~meddled' => ~meddled /\ ~Prefs!Between(w))
  BY <1>1
<1>4. CASE Prefs!Report(w, "failed") /\ UNCHANGED draft
  <2>1. wjob' = [wjob EXCEPT ![w] = wjob[w]] /\ draft' = [draft EXCEPT ![w] = draft[w]]
        /\ draft[w] \in Prefs!Contents
    BY <1>1, <1>2, <1>4
  <2>2. wat' = [wat EXCEPT ![w] = "end"] /\ wresult' \in [Writers -> {"running", "done", "failed"}]
    BY <1>2, <1>4 DEF Prefs!Report
  <2> QED
    BY <1>1, <1>3, <2>1, <2>2, PrefsQuiet
<1>5. CASE /\ prefs # Prefs!Unparsable
           /\ draft' = [draft EXCEPT ![w] = Edited(prefs, w)]
           /\ Prefs!To(w, "open")
  <2>1. Edited(prefs, w) \in Prefs!Contents
    BY <1>1, <1>5, EditedSettings DEF Prefs!PrefsTypeOK
  <2>2. wat' = [wat EXCEPT ![w] = "open"] /\ wresult' = wresult
    BY <1>5 DEF Prefs!To
  <2>3. Prefs!PrefsTypeOK'
    BY <1>1, <1>3, <1>5, <2>1, <2>2 DEF Prefs!PrefsTypeOK
  <2>4. /\ \A v \in Writers : wat'[v] = IF v = w THEN "open" ELSE wat[v]
        /\ \A v \in Writers : draft'[v] = IF v = w THEN Edited(prefs, w) ELSE draft[v]
    BY <1>1, <1>5, <2>2 DEF Prefs!PrefsTypeOK
  <2>5. Setting'
    BY <1>1, <2>4 DEF Setting
  <2>6. ASSUME ~meddled' PROVE Undisturbed'
    <3>1. Undisturbed /\ \A v \in Writers \ {w} : ~Writing(v)
      BY <1>3, <2>6 DEF PrefsInv, Prefs!Between, Writing
    <3>2. \A v \in Writers : wat[v] # "fill" /\ wat'[v] # "fill"
      BY <1>1, <2>4, <3>1 DEF Writing
    <3>3. prefs = asserted
      BY <3>1, <3>2 DEF Undisturbed
    <3>4. \A v \in Writers : Writing(v)' => v = w
      BY <2>4, <3>1 DEF Writing
    <3>5. draft'[w] = Edited(asserted, w)'
      BY <1>1, <2>4, <3>3 DEF Edited
    <3> QED
      BY <1>1, <3>2, <3>3, <3>4, <3>5 DEF Undisturbed
  <2> QED
    BY <2>3, <2>5, <2>6 DEF PrefsInv
<1> QED
  BY <1>4, <1>5 DEF Prefs!ReadAgain, Edited

LEMMA OpenStep == ASSUME PrefsInv, NEW w \in Writers, Prefs!Open(w) PROVE PrefsInv'
<1>1. /\ wat[w] = "open" /\ UNCHANGED <<wjob, draft, asserted>>
      /\ Prefs!PrefsTypeOK /\ Setting /\ wjob[w] \in Prefs!Wjobs
  BY DEF Prefs!Open, PrefsInv, Setting
<1>2. /\ wjob \in [Writers -> Prefs!Wjobs \cup {Prefs!NoWjob}] /\ draft \in [Writers -> Prefs!Contents]
      /\ meddled \in BOOLEAN /\ wresult \in [Writers -> {"running", "done", "failed"}]
  BY <1>1 DEF Prefs!PrefsTypeOK
<1>3. CASE Prefs!Report(w, "failed") /\ UNCHANGED <<prefs, meddled>>
  <2>1. wjob' = [wjob EXCEPT ![w] = wjob[w]] /\ draft' = [draft EXCEPT ![w] = draft[w]]
        /\ draft[w] \in Prefs!Contents
    BY <1>1, <1>2
  <2>2. wat' = [wat EXCEPT ![w] = "end"] /\ wresult' \in [Writers -> {"running", "done", "failed"}]
    BY <1>2, <1>3 DEF Prefs!Report
  <2> QED
    BY <1>1, <1>2, <1>3, <2>1, <2>2, PrefsQuiet
<1>4. CASE prefs' = Prefs!Empty /\ Prefs!To(w, "fill") /\ meddled' = (meddled \/ Prefs!Between(w))
  <2>1. wat' = [wat EXCEPT ![w] = "fill"] /\ wresult' = wresult
    BY <1>4 DEF Prefs!To
  <2>2. Prefs!Empty \in Prefs!Contents /\ meddled' \in BOOLEAN /\ (~meddled' => ~meddled)
    BY <1>2, <1>4 DEF Prefs!Empty, Prefs!Contents
  <2>3. Prefs!PrefsTypeOK'
    BY <1>1, <1>4, <2>1, <2>2 DEF Prefs!PrefsTypeOK
  <2>4. \A v \in Writers : wat'[v] = IF v = w THEN "fill" ELSE wat[v]
    BY <1>1, <2>1 DEF Prefs!PrefsTypeOK
  <2>5. Setting'
    BY <1>1, <2>4 DEF Setting
  <2>6. ASSUME ~meddled' PROVE Undisturbed'
    <3>1. \A v \in Writers : (Writing(v)' <=> Writing(v)) /\ Edited(asserted, v)' = Edited(asserted, v)
      BY <1>1, <2>4 DEF Writing, Edited
    <3> QED
      BY <1>1, <2>2, <2>4, <2>6, <3>1 DEF PrefsInv, Undisturbed
  <2> QED
    BY <2>3, <2>5, <2>6 DEF PrefsInv
<1> QED
  BY <1>3, <1>4 DEF Prefs!Open

LEMMA FillStep == ASSUME PrefsInv, NEW w \in Writers, Prefs!Fill(w) PROVE PrefsInv'
<1>1. /\ wat[w] = "fill" /\ UNCHANGED <<wjob, draft>>
      /\ Prefs!PrefsTypeOK /\ Setting /\ wjob[w] \in Prefs!Wjobs
      /\ wjob[w].command \in {"set", "login"}
  BY DEF Prefs!Fill, PrefsInv, Setting
<1>2. wat' = [wat EXCEPT ![w] = "end"] /\ wresult' \in [Writers -> {"running", "done", "failed"}]
  BY <1>1 DEF Prefs!Fill, Prefs!Report, Prefs!PrefsTypeOK
<1>3. \A v \in Writers : wat'[v] = IF v = w THEN "end" ELSE wat[v]
  BY <1>1, <1>2 DEF Prefs!PrefsTypeOK
<1>4. Setting'
  BY <1>1, <1>3 DEF Setting
<1>5. CASE prefs' \in {Prefs!Empty, Prefs!Unparsable} /\ meddled' = TRUE /\ UNCHANGED asserted
  <2>1. Prefs!Empty \in Prefs!Contents
    BY DEF Prefs!Empty, Prefs!Contents
  <2>2. Prefs!PrefsTypeOK'
    BY <1>1, <1>2, <1>5, <2>1 DEF Prefs!PrefsTypeOK
  <2> QED
    BY <1>4, <1>5, <2>2 DEF PrefsInv
<1>6. CASE /\ prefs' = draft[w] /\ asserted' = Edited(asserted, w)
           /\ meddled' = (meddled \/ Prefs!Between(w))
  <2>1. Edited(asserted, w) \in Prefs!Contents /\ draft[w] \in Prefs!Contents
        /\ meddled' \in BOOLEAN /\ (~meddled' => ~meddled)
    BY <1>1, <1>6, EditedSettings DEF Prefs!PrefsTypeOK
  <2>2. Prefs!PrefsTypeOK'
    BY <1>1, <1>2, <1>6, <2>1 DEF Prefs!PrefsTypeOK
  <2>3. ASSUME ~meddled' PROVE Undisturbed'
    <3>1. Undisturbed /\ Writing(w)
      BY <1>1, <2>1, <2>3 DEF PrefsInv, Writing
    <3>2. prefs' = asserted' /\ \A v \in Writers : ~Writing(v)'
      BY <1>3, <1>6, <3>1 DEF Undisturbed, Writing
    <3> QED
      BY <3>2 DEF Undisturbed
  <2> QED
    BY <1>4, <2>2, <2>3 DEF PrefsInv
<1> QED
  BY <1>5, <1>6 DEF Prefs!Fill, Edited

LEMMA PrefsNextStep == PrefsInv /\ [Prefs!PrefsNext]_prefsVars => PrefsInv'
<1> SUFFICES ASSUME PrefsInv, [Prefs!PrefsNext]_prefsVars PROVE PrefsInv'
  OBVIOUS
<1>1. CASE UNCHANGED prefsVars
  BY <1>1 DEF prefsVars, PrefsInv, Prefs!PrefsTypeOK, Setting, Undisturbed, Writing, Edited
<1>2. /\ wjob \in [Writers -> Prefs!Wjobs \cup {Prefs!NoWjob}] /\ draft \in [Writers -> Prefs!Contents]
      /\ meddled \in BOOLEAN /\ wresult \in [Writers -> {"running", "done", "failed"}]
  BY DEF PrefsInv, Prefs!PrefsTypeOK
<1>3. ASSUME NEW w \in Writers, NEW j \in Prefs!Wjobs, Prefs!StartCommand(w, j) PROVE PrefsInv'
  <2>1. draft' = [draft EXCEPT ![w] = draft[w]] /\ draft[w] \in Prefs!Contents
    BY <1>2, <1>3 DEF Prefs!StartCommand
  <2>2. /\ wat[w] = "idle" /\ wat' = [wat EXCEPT ![w] = "look"] /\ wresult' = wresult
        /\ wjob' = [wjob EXCEPT ![w] = j] /\ UNCHANGED <<prefs, asserted, meddled>>
    BY <1>3 DEF Prefs!StartCommand, Prefs!To
  <2> QED
    BY <1>2, <2>1, <2>2, PrefsQuiet
<1>4. ASSUME NEW w \in Writers, Prefs!Leave(w) PROVE PrefsInv'
  <2>1. Prefs!Empty \in Prefs!Contents
    BY DEF Prefs!Empty, Prefs!Contents
  <2>2. /\ wat' = [wat EXCEPT ![w] = "idle"] /\ UNCHANGED <<prefs, asserted>>
        /\ wjob' = [wjob EXCEPT ![w] = Prefs!NoWjob]
        /\ draft' = [draft EXCEPT ![w] = Prefs!Empty]
        /\ meddled' = (meddled \/ wat[w] = "fill")
        /\ wresult' \in [Writers -> {"running", "done", "failed"}]
    BY <1>2, <1>4 DEF Prefs!Leave
  <2>3. meddled' \in BOOLEAN /\ (~meddled' => ~meddled /\ wat[w] # "fill")
    BY <2>2
  <2> QED
    BY <2>1, <2>2, <2>3, PrefsQuiet
<1> QED
  BY <1>1, <1>3, <1>4, LookStep, PromptStep, ReadAgainStep, OpenStep, FillStep
  DEF Prefs!PrefsNext

-----------------------------------------------------------------------------
(***************************************************************************)
(* BrowserLogin: what the listener sends, and what is stored for it        *)
(***************************************************************************)

\* what the listening thread has sent ends it, and is this attempt's code or an error
Heard ==
  channel # "empty" =>
    /\ listener = "ended"
    /\ channel \in {"own", "error"}
    /\ channel = "own" => page = "success"
    /\ ~broken => Browser!OwnState(request)

\* the session is one that was issued for this attempt's code
Issued(s) == s \in Browser!NewSessions /\ s.of = "own"

LoginInv ==
  /\ Browser!LoginTypeOK
  /\ Heard
  /\ code # "none" => code = "own" /\ channel = "own"
  /\ main \in {"stored", "verify", "browse"} => channel = "empty" /\ listener = "off"
  /\ main = "check" => Issued(session)
  /\ outcome = "running" <=> main # "end"
  /\ OwnLoginOnly

LEMMA LoginBegin == Browser!LoginInit => LoginInv
BY DEF Browser!LoginInit, LoginInv, Heard, OwnLoginOnly, Browser!OwnLoginOnly, Browser!LoginTypeOK,
   Browser!Logins

\* the main thread goes on
LEMMA MainGoesOn ==
  ASSUME LoginInv, main # "end", UNCHANGED <<login, request, channel, page, broken>>,
         main' \in {"verify", "browse", "wait", "exchange", "check"}, outcome' = outcome,
         main' \in {"stored", "verify", "browse"} => channel' = "empty" /\ listener' = "off",
         keys' = keys, code' \in {code, "own"}, code' = "own" => channel = "own",
         listener' \in {listener, "listening"}, listener' # listener => channel = "empty",
         session' \in Browser!NewSessions \cup {Browser!NoSession},
         main' = "check" => Issued(session)'
  PROVE  LoginInv'
<1>1. keys # "new"
  BY DEF LoginInv, OwnLoginOnly, Browser!OwnLoginOnly
<1>2. Browser!LoginTypeOK'
  <2>1. Browser!LoginTypeOK
    BY DEF LoginInv
  <2>2. /\ main' \in {"stored", "verify", "browse", "wait", "exchange", "check", "end"}
        /\ listener' \in {"off", "listening", "answer", "ended"}
        /\ code' \in {"none", "own", "other"}
    BY <2>1 DEF Browser!LoginTypeOK
  <2> QED
    BY <2>1, <2>2, Zenon DEF Browser!LoginTypeOK
<1>3. Heard'
  BY DEF LoginInv, Heard, Browser!OwnState
<1>4. OwnLoginOnly'
  BY <1>1, <1>3 DEF LoginInv, Heard, OwnLoginOnly, Browser!OwnLoginOnly, Browser!OwnState
<1>6. (code # "none" => code = "own" /\ channel = "own")'
  BY DEF LoginInv
<1>7. outcome' = "running" /\ main' # "end"
  BY DEF LoginInv
<1> QED
  BY <1>2, <1>3, <1>4, <1>6, <1>7, Zenon DEF LoginInv

\* or ends, without a new session unless it has checked it
LEMMA MainEnds ==
  ASSUME LoginInv, main # "end",
         UNCHANGED <<login, request, channel, page, broken, code, session>>,
         main' = "end", outcome' \in {"stored", "signed in", "failed"},
         listener' \in {listener, "listening"}, listener' # listener => channel = "empty",
         \/ outcome' # "signed in" /\ keys' = keys
         \/ /\ outcome' = "signed in" /\ keys' = "new"
            /\ main = "check" /\ Browser!Acceptable
  PROVE  LoginInv'
<1>1. keys # "new"
  BY DEF LoginInv, OwnLoginOnly, Browser!OwnLoginOnly
<1>2. Browser!LoginTypeOK'
  <2>1. Browser!LoginTypeOK
    BY DEF LoginInv
  <2>2. /\ main' \in {"stored", "verify", "browse", "wait", "exchange", "check", "end"}
        /\ listener' \in {"off", "listening", "answer", "ended"}
        /\ code' \in {"none", "own", "other"}
    BY <2>1 DEF Browser!LoginTypeOK
  <2> QED
    BY <2>1, <2>2, Zenon DEF Browser!LoginTypeOK
<1>3. Heard'
  BY DEF LoginInv, Heard, Browser!OwnState
<1>4. login.type \in {"cli", "cli_hosted"}
  BY DEF LoginInv, Browser!LoginTypeOK, Browser!Logins
<1>5. keys' = "new" =>
        /\ session.of = "own"
        /\ login.type = "cli" => session.workspace
        /\ login.type = "cli_hosted" => session.domain = "this" /\ session.cookie
  BY <1>1, <1>4 DEF LoginInv, Issued, Browser!Acceptable
<1>6. OwnLoginOnly'
  BY <1>1, <1>3, <1>5 DEF LoginInv, Heard, OwnLoginOnly, Browser!OwnLoginOnly, Browser!OwnState
<1> QED
  BY <1>2, <1>3, <1>6 DEF LoginInv

LEMMA ListenerStep ==
  ASSUME LoginInv, NEW r \in Browser!Callbacks \cup {Browser!Elsewhere, Browser!Garbled},
         Browser!Arrives(r)
  PROVE  LoginInv'
<1>1. /\ channel = "empty" /\ request' = r /\ listener' = "answer"
      /\ UNCHANGED <<main, login, channel, code, session, keys, page, broken, outcome>>
  BY DEF Browser!Arrives, LoginInv, Heard
<1>2. Browser!LoginTypeOK'
  BY <1>1 DEF LoginInv, Browser!LoginTypeOK
<1>3. Heard'
  BY <1>1 DEF Heard
<1>4. OwnLoginOnly'
  BY <1>1 DEF LoginInv, OwnLoginOnly, Browser!OwnLoginOnly
<1>5. main' \notin {"stored", "verify", "browse"} /\ (Issued(session)' <=> Issued(session))
  BY <1>1 DEF LoginInv, Issued, Browser!Arrives
<1> QED
  BY <1>1, <1>2, <1>3, <1>4, <1>5 DEF LoginInv

LEMMA AnswerStep == ASSUME LoginInv, Browser!Answer PROVE LoginInv'
<1>1. /\ channel = "empty" /\ listener = "answer" /\ code = "none"
      /\ UNCHANGED <<main, login, request, code, session, keys, outcome>>
  BY DEF Browser!Answer, LoginInv, Heard
<1>2. \/ /\ listener' = "listening" /\ UNCHANGED <<channel, page, broken>>
      \/ /\ Browser!OwnState(request) /\ channel' = Browser!Code(request) /\ listener' = "ended"
         /\ page' = IF Browser!Code(request) = "error" THEN "failure" ELSE "success"
         /\ UNCHANGED broken
      \/ /\ channel' = "error" /\ listener' = "ended" /\ broken' = TRUE /\ UNCHANGED page
  BY DEF Browser!Answer, Browser!Send
<1>3. Browser!OwnState(request) => Browser!Code(request) \in {"own", "error"}
  BY DEF Browser!OwnState, Browser!Code
<1>4. Browser!LoginTypeOK'
  <2>2. Browser!LoginTypeOK
    BY DEF LoginInv
  <2>1. /\ listener' \in {"off", "listening", "answer", "ended"}
        /\ channel' \in {"empty", "own", "other", "error"}
        /\ page' \in {"none", "success", "failure"} /\ broken' \in BOOLEAN
    BY <1>1, <1>2, <1>3, <2>2 DEF Browser!LoginTypeOK
  <2> QED
    BY <1>1, <2>1, <2>2, Zenon DEF Browser!LoginTypeOK
<1>5. Heard'
  BY <1>1, <1>2, <1>3 DEF Heard, Browser!OwnState
<1>6. OwnLoginOnly'
  BY <1>1, <1>5 DEF LoginInv, Heard, OwnLoginOnly, Browser!OwnLoginOnly, Browser!OwnState
<1>7. Issued(session)' <=> Issued(session)
  BY <1>1 DEF Issued
<1>8. main' \notin {"stored", "verify", "browse"}
  BY <1>1 DEF LoginInv
<1> QED
  BY <1>1, <1>4, <1>5, <1>6, <1>7, <1>8 DEF LoginInv

LEMMA LoginStep == LoginInv /\ [Browser!LoginNext]_loginVars => LoginInv'
<1> SUFFICES ASSUME LoginInv, [Browser!LoginNext]_loginVars PROVE LoginInv'
  OBVIOUS
<1>0. session \in Browser!NewSessions \cup {Browser!NoSession}
  BY DEF LoginInv, Browser!LoginTypeOK
<1>1. CASE UNCHANGED loginVars
  <2>1. /\ Browser!LoginTypeOK' <=> Browser!LoginTypeOK
        /\ OwnLoginOnly' <=> OwnLoginOnly
        /\ Issued(session)' <=> Issued(session)
    BY <1>1 DEF loginVars, Browser!LoginTypeOK, OwnLoginOnly, Browser!OwnLoginOnly, Issued
  <2>2. Heard' <=> Heard
    BY <1>1 DEF loginVars, Heard, Browser!OwnState
  <2> QED
    BY <1>1, <2>1, <2>2 DEF loginVars, LoginInv
<1>2. CASE Browser!LookUp
  <2>1. \/ main' \in {"browse", "verify"} /\ outcome' = outcome
        \/ main' = "end" /\ outcome' = "failed"
    BY <1>2 DEF Browser!LookUp, Browser!Continue, Browser!Finish
  <2>2. /\ main = "stored"
        /\ UNCHANGED <<login, listener, request, channel, code, session, keys, page, broken>>
    BY <1>2 DEF Browser!LookUp
  <2>3. channel = "empty" /\ listener = "off" /\ (code' = "own" => channel = "own")
    BY <2>2 DEF LoginInv
  <2> QED
    BY <2>1, <2>2, <2>3, <1>0, MainGoesOn, MainEnds
<1>3. CASE Browser!VerifyStored
  <2>1. \/ main' = "browse" /\ outcome' = outcome
        \/ main' = "end" /\ outcome' \in {"stored", "failed"}
    BY <1>3 DEF Browser!VerifyStored, Browser!Continue, Browser!Finish
  <2>2. /\ main = "verify"
        /\ UNCHANGED <<login, listener, request, channel, code, session, keys, page, broken>>
    BY <1>3 DEF Browser!VerifyStored
  <2>3. channel = "empty" /\ listener = "off" /\ (code' = "own" => channel = "own")
    BY <2>2 DEF LoginInv
  <2> QED
    BY <2>1, <2>2, <2>3, <1>0, MainGoesOn, MainEnds
<1>4. CASE Browser!OpenBrowser
  <2>1. \/ main' = "wait" /\ outcome' = outcome
        \/ main' = "end" /\ outcome' = "failed"
    BY <1>4 DEF Browser!OpenBrowser, Browser!Continue, Browser!Finish
  <2>2. /\ main = "browse" /\ listener' \in {listener, "listening"}
        /\ UNCHANGED <<login, request, channel, code, session, keys, page, broken>>
    BY <1>4 DEF Browser!OpenBrowser
  <2>3. code' = "own" => channel = "own"
    BY <2>2 DEF LoginInv
  <2>4. channel = "empty"
    BY <2>2 DEF LoginInv
  <2> QED
    BY <2>1, <2>2, <2>3, <2>4, <1>0, MainGoesOn, MainEnds
<1>5. CASE Browser!TimeOut
  BY <1>5, MainEnds DEF Browser!TimeOut, Browser!Finish
<1>6. CASE Browser!Receive
  <2>1. /\ main = "wait" /\ channel \in {"own", "error"}
        /\ UNCHANGED <<login, listener, request, channel, session, keys, page, broken>>
    BY <1>6 DEF Browser!Receive, LoginInv, Heard
  <2>2. CASE channel = "error"
    <3>1. main' = "end" /\ outcome' = "failed" /\ code' = code
      BY <1>6, <2>2 DEF Browser!Receive, Browser!Finish
    <3> QED
      BY <2>1, <3>1, MainEnds
  <2>3. CASE channel = "own"
    <3>1. main' = "exchange" /\ outcome' = outcome /\ code' = "own"
      BY <1>6, <2>3 DEF Browser!Receive, Browser!Continue
    <3> QED
      BY <2>1, <2>3, <3>1, <1>0, MainGoesOn
  <2> QED
    BY <2>1, <2>2, <2>3
<1>7. CASE Browser!ExchangeCode
  <2>1. /\ main = "exchange"
        /\ UNCHANGED <<login, listener, request, channel, code, keys, page, broken>>
    BY <1>7 DEF Browser!ExchangeCode
  <2>2. \/ /\ main' = "check" /\ outcome' = outcome
           /\ Issued(session)'
        \/ main' = "end" /\ outcome' = "failed" /\ session' = session
    BY <1>7 DEF Issued, Browser!ExchangeCode, Browser!Continue, Browser!Finish
  <2>3. code' = "own" => channel = "own"
    BY <2>1 DEF LoginInv
  <2> QED
    BY <2>1, <2>2, <2>3, <1>0, MainGoesOn, MainEnds DEF Issued
<1>8. CASE Browser!CheckAndStore
  <2>1. /\ main = "check"
        /\ UNCHANGED <<login, listener, request, channel, code, session, page, broken>>
    BY <1>8 DEF Browser!CheckAndStore
  <2>2. /\ main' = "end"
        /\ \/ Browser!Acceptable /\ keys' = "new" /\ outcome' = "signed in"
           \/ outcome' = "failed" /\ keys' = keys
    BY <1>8 DEF Browser!CheckAndStore, Browser!Finish
  <2> QED
    BY <2>1, <2>2, MainEnds
<1> QED
  BY <1>1, <1>2, <1>3, <1>4, <1>5, <1>6, <1>7, <1>8, ListenerStep, AnswerStep
  DEF Browser!LoginNext

-----------------------------------------------------------------------------
(***************************************************************************)
(* Marketplace: what was listed so far, and what the plan is for           *)
(***************************************************************************)

SeenSoFar(i) == \E n \in DOMAIN listed : listed[n] = i

\* What was listed so far is in order, ends at the cursor, and leaves out nothing up
\* to there that has been in the catalog all the time.
Listing ==
  /\ \A m, n \in DOMAIN listed : m < n => listed[m] < listed[n]
  /\ step # "end" => /\ cursor = 0 => listed = <<>>
                     /\ \A n \in DOMAIN listed : listed[n] <= cursor
                     /\ \A i \in throughout : i <= cursor => SeenSoFar(i)
  /\ status = "listed" => \A i \in throughout : SeenSoFar(i)

\* What is installed is of one version, the one planned; the plan is for the pinned
\* one, and leaves alone only what is whole.
Installing ==
  /\ local.kind = "exact" => local = Market!Managed(local.version)
  /\ step \in {"version", "download"} =>
       plan \in Market!Plans /\ Market!Pinned(plan.version)
  /\ status \in {"installed", "updated"} => local = Market!Managed(plan.version)
  /\ status = "up_to_date" => local.kind = "exact" /\ plan.action = "noop"
  /\ status \in {"installed", "updated", "up_to_date"} => Market!Pinned(plan.version)

MarketInv ==
  /\ Market!MarketTypeOK
  /\ status = "running" <=> step # "end"
  /\ Listing
  /\ Installing

LEMMA MarketSizes == Items \subseteq Nat \ {0} /\ PageLimit \in Nat \ {0} /\ MaxVersion \in Nat
BY SizesAssumption DEF Market!Sizes

LEMMA ManagedKinds ==
  ASSUME NEW v \in Market!Versions
  PROVE  /\ Market!Managed(v) \in Market!Locals
         /\ Market!Managed(v).kind = "exact" /\ Market!Managed(v).version = v
         /\ [Market!Managed(v) EXCEPT !.kind = "missing"] \in Market!Locals
         /\ [Market!Managed(v) EXCEPT !.kind = "missing"].kind = "missing"
         /\ \A w \in Market!Versions : [Market!Managed(v) EXCEPT !.document = w] \in Market!Locals
         /\ [Market!Managed(v) EXCEPT !.document = v] = Market!Managed(v)
BY DEF Market!Managed, Market!Locals

LEMMA ErrorCodes ==
  \A http : Market!ExitCode(http) \in
              {"auth_required", "forbidden", "plan_blocked", "network", "cli_error"}
BY DEF Market!ExitCode

LEMMA Failing ==
  ASSUME Market!RequestFails
  PROVE  step' = "end" /\ status' \in {"auth_required", "forbidden", "plan_blocked", "network",
                                       "cli_error"}
BY ErrorCodes DEF Market!RequestFails, Market!Report

LEMMA MarketBegin == Market!MarketInit => MarketInv
<1> SUFFICES ASSUME Market!MarketInit PROVE MarketInv
  OBVIOUS
<1>1. /\ local \in Market!Locals
      /\ local.kind = "exact" => local = Market!Managed(local.version)
  <2>1. CASE local \in {Market!Absent, Market!Conflict}
    BY <2>1 DEF Market!Absent, Market!Conflict, Market!Locals
  <2>2. 1..latest \subseteq Market!Versions
    BY MarketSizes DEF Market!MarketInit, Market!Versions
  <2>3. ASSUME NEW v \in 1..latest, local = Market!Managed(v)
        PROVE  local \in Market!Locals /\ local = Market!Managed(local.version)
    BY <2>2, <2>3, ManagedKinds
  <2>4. ASSUME NEW v \in 1..latest, local = [Market!Managed(v) EXCEPT !.kind = "missing"]
        PROVE  local \in Market!Locals /\ local.kind = "missing"
    BY <2>2, <2>4, ManagedKinds
  <2> QED
    BY <2>1, <2>3, <2>4 DEF Market!MarketInit
<1>2. /\ throughout = catalog /\ catalog \subseteq Items /\ latest \in 0..MaxVersion /\ detail = 0
      /\ step = "begin" /\ task \in Market!Commands /\ cursor = 0 /\ listed = <<>>
      /\ plan = Market!NoPlan /\ status = "running"
  BY DEF Market!MarketInit
<1>3. Market!MarketTypeOK
  <2>1. listed \in Seq(Items) /\ detail \in 0..MaxVersion
    BY <1>2, MarketSizes, EmptySeq
  <2> QED
    BY <1>1, <1>2, <2>1 DEF Market!MarketTypeOK, Market!Statuses
<1>4. Listing
  <2>1. \A i \in throughout : ~(i <= 0)
    BY <1>2, MarketSizes
  <2> QED
    BY <1>2, <2>1 DEF Listing
<1>5. Installing
  BY <1>1, <1>2 DEF Installing
<1> QED
  BY <1>2, <1>3, <1>4, <1>5 DEF MarketInv

\* a step of the command that is not about the listing
LEMMA ListingStays ==
  ASSUME MarketInv, step # "end", UNCHANGED <<throughout, cursor, listed>>, status' # "listed"
  PROVE  Listing'
BY DEF MarketInv, Listing, SeenSoFar

\* or not about the installation
LEMMA InstallingStays ==
  ASSUME MarketInv, UNCHANGED <<task, local, plan>>, step' \notin {"version", "download"},
         status' \notin {"installed", "updated", "up_to_date"}
  PROVE  Installing'
BY DEF MarketInv, Installing

LEMMA PageStep == ASSUME MarketInv, Market!Page PROVE MarketInv'
<1>1. /\ step = "page" /\ UNCHANGED <<catalog, throughout, latest, task, local, detail, plan>>
      /\ Market!MarketTypeOK /\ Listing
  BY DEF Market!Page, MarketInv
<1>2. /\ throughout \subseteq catalog /\ catalog \subseteq Items /\ Items \subseteq Nat \ {0}
      /\ cursor \in Nat /\ PageLimit \in Nat \ {0} /\ listed \in Seq(Items)
  <2>1. /\ throughout \subseteq catalog /\ catalog \subseteq Items /\ listed \in Seq(Items)
        /\ cursor \in Items \cup {0}
    BY <1>1 DEF Market!MarketTypeOK
  <2> QED
    BY <2>1, MarketSizes
<1>3. CASE Market!RequestFails /\ UNCHANGED <<cursor, listed>>
  <2>1. step' = "end" /\ status' \in {"auth_required", "forbidden", "plan_blocked", "network",
                                      "cli_error"}
    BY <1>3, Failing
  <2>2. Market!MarketTypeOK'
    BY <1>1, <1>3, <2>1 DEF Market!MarketTypeOK, Market!Statuses
  <2> QED
    BY <1>1, <1>3, <2>1, <2>2, ListingStays, InstallingStays DEF MarketInv
<1>4. ASSUME NEW items \in Market!PageItems(cursor), listed' = listed \o items,
             cursor' = Market!NextCursor(items, cursor),
             IF cursor' = 0 THEN Market!Report("listed") ELSE Market!Proceed("page")
      PROVE  MarketInv'
  <2>1. PICK k \in 0..PageLimit : items \in [1..k -> Market!Following(cursor)]
    BY <1>4 DEF Market!PageItems
  <2>2. /\ \A m, n \in DOMAIN items : m < n => items[m] < items[n]
        /\ \A n \in DOMAIN items, i \in Market!Rest(items, cursor) : items[n] < i
        /\ Market!Rest(items, cursor) # {} => Len(items) = PageLimit
    BY <1>4 DEF Market!PageItems
  <2>3. k \in Nat
    BY MarketSizes
  <2>4. /\ items \in Seq(Items) /\ Len(items) = k /\ DOMAIN items = 1..k
        /\ \A n \in 1..k : items[n] \in Items /\ items[n] \in Nat /\ items[n] > cursor
    <3>1. \A i \in Market!Following(cursor) : i \in Items /\ i \in Nat /\ i > cursor
      BY MarketSizes, <1>2 DEF Market!Following
    <3>2. DOMAIN items = 1..k /\ \A n \in 1..k : items[n] \in Market!Following(cursor)
      BY <2>1
    <3>3. items \in [1..k -> Items]
      BY <2>1, <3>1, <3>2
    <3>4. items \in Seq(Items)
      BY <2>3, <3>3, SeqDef
    <3>5. Len(items) = k
      BY <2>3, <3>2, <3>4, LenProperties
    <3> QED
      BY <3>1, <3>2, <3>4, <3>5
  <2>5. /\ Len(listed) \in Nat /\ DOMAIN listed = 1..Len(listed)
        /\ \A n \in 1..Len(listed) : listed[n] \in Nat /\ listed[n] <= cursor
    <3>1. Len(listed) \in Nat /\ DOMAIN listed = 1..Len(listed)
      BY <1>2
    <3>2. \A n \in 1..Len(listed) : listed[n] \in Items
      BY <1>2
    <3>3. \A n \in DOMAIN listed : listed[n] <= cursor
      BY <1>1 DEF Listing
    <3> QED
      BY MarketSizes, <3>1, <3>2, <3>3
  <2>6. /\ listed' \in Seq(Items) /\ Len(listed') = Len(listed) + k
        /\ DOMAIN listed' = 1..(Len(listed) + k)
        /\ \A n \in 1..(Len(listed) + k) :
             listed'[n] = IF n <= Len(listed) THEN listed[n] ELSE items[n - Len(listed)]
    <3>1. listed \o items \in Seq(Items) /\ Len(listed \o items) = Len(listed) + Len(items)
          /\ \A n \in 1..(Len(listed) + Len(items)) : (listed \o items)[n] =
               IF n <= Len(listed) THEN listed[n] ELSE items[n - Len(listed)]
      BY <1>2, <2>4, ConcatProperties
    <3>2. Len(items) = k
      BY <2>4
    <3>3. listed' \in Seq(Items) /\ Len(listed') = Len(listed) + k
          /\ \A n \in 1..(Len(listed) + k) :
               listed'[n] = IF n <= Len(listed) THEN listed[n] ELSE items[n - Len(listed)]
      BY <1>4, <3>1, <3>2
    <3>4. DOMAIN listed' = 1..Len(listed')
      BY <3>3, LenProperties
    <3> QED
      BY <3>3, <3>4
  <2>7. ASSUME NEW i, SeenSoFar(i) \/ \E n \in 1..k : items[n] = i PROVE SeenSoFar(i)'
    <3>1. ASSUME NEW n \in 1..Len(listed), listed[n] = i PROVE SeenSoFar(i)'
      BY <2>5, <2>6, <2>3, <3>1 DEF SeenSoFar
    <3>2. ASSUME NEW n \in 1..k, items[n] = i PROVE SeenSoFar(i)'
      <4>1. Len(listed) + n \in 1..(Len(listed) + k) /\ listed'[Len(listed) + n] = items[n]
        BY <2>3, <2>5, <2>6
      <4> QED
        BY <2>6, <3>2, <4>1 DEF SeenSoFar
    <3> QED
      BY <2>5, <2>7, <3>1, <3>2 DEF SeenSoFar
  <2>8. \A m, n \in DOMAIN listed' : m < n => listed'[m] < listed'[n]
    <3> SUFFICES ASSUME NEW m \in 1..(Len(listed) + k), NEW n \in 1..(Len(listed) + k), m < n
                 PROVE  listed'[m] < listed'[n]
      BY <2>6
    <3>1. CASE n <= Len(listed)
      <4>1. m \in DOMAIN listed /\ n \in DOMAIN listed
        BY <2>5, <3>1
      <4>2. listed'[m] = listed[m] /\ listed'[n] = listed[n]
        BY <2>5, <2>6, <3>1
      <4> QED
        BY <1>1, <4>1, <4>2 DEF Listing
    <3>2. CASE m <= Len(listed) /\ n > Len(listed)
      <4>1. m \in 1..Len(listed) /\ n - Len(listed) \in 1..k
        BY <2>3, <2>5, <3>2
      <4>2. listed'[m] = listed[m] /\ listed'[n] = items[n - Len(listed)]
        BY <2>5, <2>6, <3>2
      <4>3. listed[m] \in Nat /\ listed[m] <= cursor
            /\ items[n - Len(listed)] \in Nat /\ items[n - Len(listed)] > cursor
        BY <2>4, <2>5, <4>1
      <4> QED
        BY <1>2, <4>2, <4>3
    <3>3. CASE m > Len(listed)
      <4>1. m - Len(listed) \in 1..k /\ n - Len(listed) \in 1..k /\ m - Len(listed) < n - Len(listed)
        BY <2>3, <2>5, <3>3
      <4>2. listed'[m] = items[m - Len(listed)] /\ listed'[n] = items[n - Len(listed)]
        BY <2>5, <2>6, <3>3
      <4> QED
        BY <2>2, <2>4, <4>1, <4>2
    <3> QED
      BY <2>5, <3>1, <3>2, <3>3
  <2>9. ASSUME NEW i \in throughout, Market!Rest(items, cursor) = {} \/ (k > 0 /\ i <= items[k])
        PROVE  SeenSoFar(i)'
    <3>1. i \in catalog /\ i \in Nat
      BY <1>2
    <3>2. CASE i <= cursor
      BY <1>1, <2>7, <3>2 DEF Listing
    <3>3. CASE i > cursor
      <4>1. i \in Market!Following(cursor)
        BY <3>1, <3>3 DEF Market!Following
      <4>2. i \notin Market!Rest(items, cursor)
        <5>1. CASE Market!Rest(items, cursor) = {}
          BY <5>1
        <5>2. CASE k > 0 /\ i <= items[k]
          <6>1. k \in DOMAIN items /\ items[k] \in Nat /\ ~(items[k] < i)
            BY <2>3, <2>4, <3>1, <5>2
          <6> QED
            BY <2>2, <6>1
        <5> QED
          BY <2>9, <5>1, <5>2
      <4>3. \E n \in 1..k : items[n] = i
        BY <2>4, <4>1, <4>2 DEF Market!Rest
      <4> QED
        BY <2>7, <4>3
    <3> QED
      BY <1>2, <3>1, <3>2, <3>3
  <2>10. CASE Market!Rest(items, cursor) = {}
    <3>1. cursor' = 0 /\ step' = "end" /\ status' = "listed"
      BY <1>4, <2>10 DEF Market!NextCursor, Market!Report
    <3>2. Listing'
      BY <1>1, <2>8, <2>9, <2>10, <3>1 DEF Listing
    <3>3. Market!MarketTypeOK'
      BY <1>1, <2>6, <3>1 DEF Market!MarketTypeOK, Market!Statuses
    <3> QED
      BY <1>1, <3>1, <3>2, <3>3, InstallingStays DEF MarketInv
  <2>11. CASE Market!Rest(items, cursor) # {}
    <3>1. k = PageLimit /\ k > 0 /\ k \in DOMAIN items /\ items[k] \in Items
          /\ items[k] \in Nat /\ items[k] # 0 /\ items[k] > cursor
      BY <1>2, <2>2, <2>3, <2>4, <2>11
    <3>2. cursor' = items[k]
      BY <1>4, <2>4, <2>11 DEF Market!NextCursor
    <3>3. step' = "page" /\ status' = status /\ status = "running"
      BY <1>1, <1>4, <3>1, <3>2 DEF Market!Proceed, MarketInv
    <3>4. ASSUME NEW n \in DOMAIN listed' PROVE listed'[n] <= cursor'
      <4>1. CASE n <= Len(listed)
        <5>1. n \in 1..Len(listed) /\ listed'[n] = listed[n]
          BY <2>5, <2>6, <4>1
        <5>2. listed[n] \in Nat /\ listed[n] <= cursor
          BY <2>5, <5>1
        <5> QED
          BY <1>2, <3>1, <3>2, <5>1, <5>2
      <4>2. CASE n > Len(listed)
        <5>1. n - Len(listed) \in 1..k /\ listed'[n] = items[n - Len(listed)]
          BY <2>3, <2>5, <2>6, <4>2
        <5>2. items[n - Len(listed)] \in Nat
              /\ (n - Len(listed) < k => items[n - Len(listed)] < items[k])
          BY <2>2, <2>4, <3>1, <5>1
        <5> QED
          BY <2>3, <3>1, <3>2, <5>1, <5>2
      <4> QED
        BY <2>3, <2>5, <2>6, <4>1, <4>2
    <3>5. \A i \in throughout : i <= cursor' => SeenSoFar(i)'
      BY <2>9, <3>1, <3>2
    <3>6. Listing'
      BY <1>1, <2>8, <3>1, <3>2, <3>3, <3>4, <3>5 DEF Listing
    <3>7. Market!MarketTypeOK'
      BY <1>1, <2>6, <3>1, <3>2, <3>3 DEF Market!MarketTypeOK
    <3> QED
      BY <1>1, <3>3, <3>6, <3>7, InstallingStays DEF MarketInv
  <2> QED
    BY <2>10, <2>11
<1> QED
  BY <1>3, <1>4 DEF Market!Page

LEMMA PublishStep == ASSUME MarketInv, Market!Publish \/ Market!Withdraw PROVE MarketInv'
<1>1. /\ UNCHANGED <<step, task, cursor, listed, local, detail, plan, status>>
      /\ step # "end" /\ Market!MarketTypeOK
      /\ status = "running"
  BY DEF Market!Publish, Market!Withdraw, MarketInv
<1>2. throughout' \subseteq throughout /\ throughout' \subseteq catalog' /\ catalog' \subseteq Items
  BY <1>1 DEF Market!Publish, Market!Withdraw, Market!MarketTypeOK
<1>3. latest' \in 0..MaxVersion
  BY <1>1, MarketSizes DEF Market!Publish, Market!Withdraw, Market!MarketTypeOK
<1>4. Market!MarketTypeOK'
  BY <1>1, <1>2, <1>3 DEF Market!MarketTypeOK
<1>5. \A i : SeenSoFar(i)' <=> SeenSoFar(i)
  BY <1>1 DEF SeenSoFar
<1>6. Listing'
  BY <1>1, <1>2, <1>5 DEF MarketInv, Listing
<1>7. Installing'
  BY <1>1 DEF MarketInv, Installing, Market!Pinned
<1> QED
  BY <1>1, <1>4, <1>6, <1>7 DEF MarketInv

\* a request about the agent that leads on, or ends the command without a change
LEMMA AskingStep ==
  ASSUME MarketInv, Market!Begin \/ Market!Show \/ Market!PlanInstall \/ Market!GetVersion
  PROVE  MarketInv'
<1>1. /\ UNCHANGED <<catalog, throughout, latest, task, cursor, listed, local>>
      /\ step \in {"begin", "show", "plan", "version"}
      /\ Market!MarketTypeOK /\ Listing /\ Installing
  BY DEF Market!Begin, Market!Show, Market!PlanInstall, Market!GetVersion, MarketInv
<1>2. status = "running"
  BY <1>1 DEF MarketInv
<1>3. ASSUME step' = "end", status' \in Market!Statuses \ {"running", "listed", "installed", "updated", "up_to_date"},
             detail' \in 0..MaxVersion, plan' \in Market!Plans \cup {Market!NoPlan}
      PROVE  MarketInv'
  <2>1. Market!MarketTypeOK'
    BY <1>1, <1>3 DEF Market!MarketTypeOK
  <2>2. Listing'
    BY <1>1, <1>3, ListingStays
  <2>3. Installing'
    BY <1>1, <1>3 DEF Installing
  <2> QED
    BY <1>3, <2>1, <2>2, <2>3 DEF MarketInv
<1>4. ASSUME step' \in {"page", "show", "plan", "version", "download"}, status' = status,
             detail' \in 0..MaxVersion, plan' \in Market!Plans \cup {Market!NoPlan},
             step' \in {"version", "download"} =>
               plan' \in Market!Plans /\ Market!Pinned(plan'.version)
      PROVE  MarketInv'
  <2>1. Market!MarketTypeOK'
    BY <1>1, <1>4 DEF Market!MarketTypeOK
  <2>2. Listing'
    BY <1>1, <1>2, <1>4, ListingStays
  <2>3. Market!Pinned(plan.version)' <=> Market!Pinned(plan'.version)
    BY <1>1 DEF Market!Pinned
  <2>4. Installing'
    BY <1>1, <1>2, <1>4, <2>3 DEF Installing
  <2> QED
    BY <1>2, <1>4, <2>1, <2>2, <2>4 DEF MarketInv
<1>5. detail \in 0..MaxVersion /\ latest \in 0..MaxVersion /\ plan \in Market!Plans \cup {Market!NoPlan}
  BY <1>1 DEF Market!MarketTypeOK
<1>6. ASSUME Market!RequestFails, detail' \in 0..MaxVersion,
             plan' \in Market!Plans \cup {Market!NoPlan}
      PROVE  MarketInv'
  BY <1>3, <1>6, Failing DEF Market!Statuses
<1>7. CASE Market!Begin
  <2>1. /\ UNCHANGED <<detail, plan>>
        /\ \/ step' \in {"page", "show"} /\ status' = status
           \/ step' = "end" /\ status' \in {"not_installed", "conflict"}
    BY <1>7 DEF Market!Begin, Market!Proceed, Market!Report
  <2> QED
    BY <1>3, <1>4, <1>5, <2>1 DEF Market!Statuses
<1>8. CASE Market!Show
  <2>1. \/ Market!RequestFails /\ UNCHANGED <<detail, plan>>
        \/ /\ detail' = latest /\ UNCHANGED plan
           /\ \/ step' = "plan" /\ status' = status
              \/ step' = "end" /\ status' = "shown"
    BY <1>8 DEF Market!Show, Market!Proceed, Market!Report
  <2> QED
    BY <1>3, <1>4, <1>5, <1>6, <2>1 DEF Market!Statuses
<1>9. CASE Market!PlanInstall
  <2>1. ASSUME NEW p \in Market!Plans, plan' = p,
               IF Market!Pinned(p.version) THEN Market!Proceed("version")
                                           ELSE Market!Report("plan_blocked")
        PROVE  MarketInv'
    BY <1>3, <1>4, <1>5, <1>9, <2>1
    DEF Market!PlanInstall, Market!Statuses, Market!Proceed, Market!Report
  <2>2. CASE Market!Report("verification") /\ UNCHANGED plan
    BY <1>3, <1>5, <1>9, <2>2 DEF Market!PlanInstall, Market!Statuses, Market!Report
  <2>3. CASE Market!RequestFails /\ UNCHANGED plan
    BY <1>5, <1>6, <1>9, <2>3 DEF Market!PlanInstall
  <2> QED
    BY <1>9, <2>1, <2>2, <2>3 DEF Market!PlanInstall
<1>10. CASE Market!GetVersion
  <2>1. step = "version" /\ UNCHANGED <<detail, plan>>
    BY <1>10 DEF Market!GetVersion
  <2>2. plan \in Market!Plans /\ Market!Pinned(plan.version)
    BY <1>1, <2>1 DEF Installing
  <2>3. CASE Market!NeedsDownload /\ Market!Proceed("download")
    BY <1>4, <1>5, <2>1, <2>2, <2>3 DEF Market!Proceed
  <2>4. CASE ~Market!NeedsDownload /\ Market!Report("up_to_date")
    <3>1. local.kind = "exact" /\ plan.action = "noop"
      BY <2>4 DEF Market!NeedsDownload
    <3>2. step' = "end" /\ status' = "up_to_date"
      BY <2>4 DEF Market!Report
    <3>3. Market!MarketTypeOK'
      BY <1>1, <2>1, <3>2 DEF Market!MarketTypeOK, Market!Statuses
    <3>4. Listing'
      BY <1>1, <3>2, ListingStays
    <3>5. Installing'
      BY <1>1, <2>1, <2>2, <3>1, <3>2 DEF Installing, Market!Pinned
    <3> QED
      BY <3>2, <3>3, <3>4, <3>5 DEF MarketInv
  <2>5. CASE Market!RequestFails
    BY <1>5, <1>6, <2>1, <2>5
  <2> QED
    BY <1>10, <2>3, <2>4, <2>5 DEF Market!GetVersion
<1> QED
  BY <1>7, <1>8, <1>9, <1>10

LEMMA DownloadStep == ASSUME MarketInv, Market!Download PROVE MarketInv'
<1>1. /\ step = "download"
      /\ UNCHANGED <<catalog, throughout, latest, task, cursor, listed, detail, plan>>
      /\ Market!MarketTypeOK /\ Installing
      /\ plan \in Market!Plans /\ Market!Pinned(plan.version)
  BY DEF Market!Download, MarketInv, Installing
<1>2. CASE /\ step' = "end"
           /\ status' \in {"cli_error", "verification", "auth_required", "forbidden",
                           "plan_blocked", "network"}
           /\ UNCHANGED local
  <2>1. Market!MarketTypeOK'
    BY <1>1, <1>2 DEF Market!MarketTypeOK, Market!Statuses
  <2>2. Listing' /\ Installing'
    BY <1>1, <1>2, ListingStays, InstallingStays
  <2> QED
    BY <1>2, <2>1, <2>2 DEF MarketInv
<1>3. CASE /\ step' = "end" /\ status' \in {"installed", "updated"}
           /\ local' = Market!Managed(plan.version)
  <2>1. plan.version \in Market!Versions
    BY <1>1 DEF Market!Plans
  <2>2. /\ local' \in Market!Locals /\ local'.kind = "exact" /\ local'.version = plan.version
        /\ local' = Market!Managed(local'.version)
    BY <1>3, <2>1, ManagedKinds
  <2>3. Market!MarketTypeOK'
    BY <1>1, <1>3, <2>2 DEF Market!MarketTypeOK, Market!Statuses
  <2>4. Listing'
    BY <1>1, <1>3, ListingStays
  <2>5. Market!Pinned(plan.version)' /\ plan' = plan
    BY <1>1 DEF Market!Pinned
  <2>6. /\ Market!Managed(local.version)' = Market!Managed(local'.version)
        /\ Market!Managed(plan.version)' = Market!Managed(plan.version)
    BY <1>1 DEF Market!Managed
  <2>7. Installing'
    BY <1>3, <2>2, <2>5, <2>6 DEF Installing
  <2> QED
    BY <1>3, <2>3, <2>4, <2>7 DEF MarketInv
<1>4. ASSUME NEW d \in Market!Downloads, Market!Authentic(d),
             Market!Unpacks(d) /\ Market!OneDocument(d),
             \E v \in Market!Versions :
               /\ IF d.bytes = "right" THEN v = plan.version ELSE TRUE
               /\ local' = [Market!Record(plan.version) EXCEPT !.document = v]
      PROVE  local' = Market!Managed(plan.version)
  <2>1. plan.version \in Market!Versions
    BY <1>1 DEF Market!Plans
  <2>2. local' = [Market!Managed(plan.version) EXCEPT !.document = plan.version]
    BY <1>4 DEF Market!Authentic, Market!Record
  <2> QED
    BY <2>1, <2>2, ManagedKinds
<1> QED
  BY <1>2, <1>3, <1>4, Failing DEF Market!Download, Market!Report

LEMMA MarketNextStep == MarketInv /\ [Market!MarketNext]_marketVars => MarketInv'
<1> SUFFICES ASSUME MarketInv, [Market!MarketNext]_marketVars PROVE MarketInv'
  OBVIOUS
<1>1. CASE UNCHANGED marketVars
  BY <1>1 DEF marketVars, MarketInv, Market!MarketTypeOK, Listing, SeenSoFar, Installing, Market!Pinned
<1> QED
  BY <1>1, PageStep, PublishStep, AskingStep, DownloadStep DEF Market!MarketNext

\* a strictly growing list shows nothing twice
LEMMA ListingMeans == MarketInv => OnePicture
<1> SUFFICES ASSUME MarketInv PROVE Market!ListingIsComplete /\ Market!OneVersion
  BY DEF OnePicture, Market!OnePicture
<1>1. \A m, n \in DOMAIN listed : listed[m] = listed[n] => m = n
  <2>1. /\ \A m, n \in DOMAIN listed : m < n => listed[m] < listed[n]
        /\ DOMAIN listed = 1..Len(listed) /\ Len(listed) \in Nat
        /\ \A n \in DOMAIN listed : listed[n] \in Nat
    <3>1. listed \in Seq(Items) /\ \A m, n \in DOMAIN listed : m < n => listed[m] < listed[n]
      BY DEF MarketInv, Listing, Market!MarketTypeOK
    <3>2. DOMAIN listed = 1..Len(listed) /\ Len(listed) \in Nat
          /\ \A n \in DOMAIN listed : listed[n] \in Items
      BY <3>1
    <3> QED
      BY MarketSizes, <3>1, <3>2
  <2> SUFFICES ASSUME NEW m \in DOMAIN listed, NEW n \in DOMAIN listed, m < n
               PROVE  listed[m] # listed[n]
    BY <2>1
  <2> QED
    BY <2>1
<1>2. Market!ListingIsComplete
  BY <1>1 DEF MarketInv, Listing, SeenSoFar, Market!ListingIsComplete
<1>3. Market!OneVersion
  BY DEF MarketInv, Installing, Market!OneVersion, Market!Managed
<1> QED
  BY <1>2, <1>3

-----------------------------------------------------------------------------
(***************************************************************************)
(* The composition                                                         *)
(***************************************************************************)

\* Each of the modules moves as it would alone.  The specifications of the last two
\* also state fairness, which nothing here needs.
LEMMA EachAlone ==
  ClientSpec => /\ Spec /\ CurlSpec /\ SkillsSpec /\ Prefs!PrefsSpec /\ Ask!RequestSpec
                /\ Browser!LoginInit /\ [][Browser!LoginNext]_loginVars
                /\ Market!MarketInit /\ [][Market!MarketNext]_marketVars
<1>1. ClientInit => /\ Init /\ CurlInit /\ SkillsInit /\ Prefs!PrefsInit /\ Ask!RequestInit
                    /\ Browser!LoginInit /\ Market!MarketInit
  BY DEF ClientInit
<1>2. [ClientNext]_clientVars => /\ [Next]_vars
                                 /\ [CurlNext]_curlVars
                                 /\ [SkillsNext]_skillsVars
                                 /\ [Prefs!PrefsNext]_(Prefs!prefsVars)
                                 /\ [Ask!RequestNext]_(Ask!vars)
                                 /\ [Browser!LoginNext]_loginVars
                                 /\ [Market!MarketNext]_marketVars
  <2> SUFFICES ASSUME [ClientNext]_clientVars
               PROVE  /\ [Next]_vars /\ [CurlNext]_curlVars /\ [SkillsNext]_skillsVars
                      /\ [Prefs!PrefsNext]_prefsVars /\ [Ask!RequestNext]_askVars
                      /\ [Browser!LoginNext]_loginVars /\ [Market!MarketNext]_marketVars
    BY DEF prefsVars, askVars, Prefs!prefsVars, Ask!vars
  <2>1. \/ /\ Next
           /\ UNCHANGED <<curlVars, skillsVars, askVars, prefsVars, loginVars, marketVars>>
        \/ /\ CurlNext
           /\ UNCHANGED <<vars, skillsVars, askVars, prefsVars, loginVars, marketVars>>
        \/ /\ SkillsNext
           /\ UNCHANGED <<vars, curlVars, askVars, prefsVars, loginVars, marketVars>>
        \/ /\ Ask!RequestNext
           /\ UNCHANGED <<vars, curlVars, skillsVars, prefsVars, loginVars, marketVars>>
        \/ /\ Prefs!PrefsNext
           /\ UNCHANGED <<vars, curlVars, skillsVars, askVars, loginVars, marketVars>>
        \/ /\ Browser!LoginNext
           /\ UNCHANGED <<vars, curlVars, skillsVars, askVars, prefsVars, marketVars>>
        \/ /\ Market!MarketNext
           /\ UNCHANGED <<vars, curlVars, skillsVars, askVars, prefsVars, loginVars>>
        \/ UNCHANGED <<vars, curlVars, skillsVars, askVars, prefsVars, loginVars, marketVars>>
    BY DEF ClientNext, clientVars
  <2> QED
    BY <2>1
<1> QED
  BY <1>1, <1>2, PTL DEF ClientSpec, Spec, CurlSpec, SkillsSpec, Prefs!PrefsSpec, Ask!RequestSpec

LEMMA AskInvariant == ClientSpec => []AskInv
<1>1. Ask!vars = askVars
  BY DEF Ask!vars, askVars
<1>2. AskInv /\ [Ask!RequestNext]_(Ask!vars) => AskInv'
  BY <1>1, AskNext DEF Ask!vars, askVars
<1> QED
  BY <1>2, AskInit, EachAlone, PTL DEF Ask!RequestSpec

LEMMA PrefsInvariant == ClientSpec => []PrefsInv
<1>1. PrefsInv /\ [Prefs!PrefsNext]_(Prefs!prefsVars) => PrefsInv'
  BY PrefsNextStep DEF Prefs!prefsVars, prefsVars
<1> QED
  BY <1>1, PrefsBegin, EachAlone, PTL DEF Prefs!PrefsSpec

LEMMA LoginInvariant == ClientSpec => []LoginInv
BY LoginBegin, LoginStep, EachAlone, PTL

LEMMA MarketInvariant == ClientSpec => []MarketInv
BY MarketBegin, MarketNextStep, EachAlone, PTL

\* Every variable of the seven modules keeps its type.
THEOREM ClientTypeCorrect == ClientSpec => []ClientTypeOK
<1>1. AskInv => Ask!RequestTypeOK
  BY DEF AskInv
<1>2. PrefsInv => Prefs!PrefsTypeOK
  BY DEF PrefsInv
<1>3. LoginInv => Browser!LoginTypeOK
  BY DEF LoginInv
<1>4. MarketInv => Market!MarketTypeOK
  BY DEF MarketInv
<1> QED
  BY <1>1, <1>2, <1>3, <1>4, EachAlone, TypeCorrect, CurlTypeCorrect, SkillsTypeCorrect, AskInvariant,
     PrefsInvariant, LoginInvariant, MarketInvariant, PTL
  DEF ClientTypeOK

\* Whatever URL, flags, variables and preferences a command is given, the session
\* goes to Kgoose and the approved hosts alone; an answer that repeats it, as sent or
\* in JSON's escapes, does not have it printed, unless it is a list of communities
\* that spells it with escapes.
THEOREM SessionStaysSecret == ClientSpec => []SecretKept
BY AskInvariant, PTL DEF AskInv

\* However many commands change settings and however long the login's question is
\* open, a setting that was reported is not lost, unless a write falls between
\* another's last reading and writing or is cut off.
THEOREM ReportedSettingsStay == ClientSpec => []SettingsKept
<1>1. PrefsInv => SettingsKept
  BY DEF PrefsInv, Undisturbed, SettingsKept, Prefs!SettingsKept
<1> QED
  BY <1>1, PrefsInvariant, PTL

\* Whatever requests reach the login's listener, and whichever of its threads is
\* faster, a new session is stored only if it was issued for the code that came
\* with this login's own state, and is of the organisation asked for.
THEOREM StoredIsThisLogins == ClientSpec => []OwnLoginOnly
BY LoginInvariant, PTL DEF LoginInv

\* Whatever is published and withdrawn between its requests, a listing shows once
\* each item that was there all the time; record and document are of one version,
\* what is installed is the version of the plan, the pinned one, and what is left
\* alone is whole and had a noop planned for it, whichever version it is of.
THEOREM ConversationIsConsistent == ClientSpec => []OnePicture
BY MarketInvariant, ListingMeans, PTL
=============================================================================
