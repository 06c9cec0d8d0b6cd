------------------------------ MODULE HostedApp ------------------------------
(***************************************************************************)
(* `bl apps create', `initialize', `visibility', `deploy', `rollback' and  *)
(* `delete' (apps.rs) on one app ID, over a network that loses answers and *)
(* may deliver a request after its sender has given up.                    *)
(*                                                                         *)
(* The Apps Platform is not part of the repository.  Of it the model has   *)
(* what the client counts on: an ID is reserved for one owner and not      *)
(* given again, the owner alone changes the app, a deleted app is not      *)
(* changed, and an answer that refuses a request says that nothing was     *)
(* done.  It may refuse anything, and break.                               *)
(*                                                                         *)
(* A run is one command; it sends one request at a time and none twice.    *)
(* The plan a create starts from changes nothing and is part of Begin: it  *)
(* yields the settings to reserve (profile) and whether to initialize.  A  *)
(* command may also end before any of its requests that change something.  *)
(***************************************************************************)
EXTENDS Integers, FiniteSets

CONSTANTS
  Runs,      \* commands that may be running at once
  Users,     \* accounts
  Profiles,  \* settings a plan may ask for: environment, runtime, name
  NoApp,     \* the ID is free
  MaxLate    \* bound on the requests on their way that nobody waits for

ASSUME MaxLateAssumption == MaxLate \in Nat

Apps == [owner : Users, profile : Profiles, private : BOOLEAN, initialized : BOOLEAN,
         fresh : BOOLEAN, deleted : BOOLEAN]

ASSUME NoAppAssumption == NoApp \notin Apps

VARIABLES
  app,     \* the platform's record of the app
  late,    \* requests whose sender has given up, which may still be served
  at,      \* what each run does next
  job,     \* its command: who, what, and for a create with which plan
  doubt,   \* its request may have been granted without its being told
  result,  \* what it reports
  barred,  \* history: when it began, the app was none it may go on to change
  secret,  \* history: its request was granted unheard, or may still be
  casual   \* history: a command began that may make the app visible

vars == <<app, late, at, job, doubt, result, barred, secret, casual>>

Creates == [command : {"create"}, user : Users, profile : Profiles, private : BOOLEAN,
            init : BOOLEAN]

Jobs == Creates \cup [command : {"visibility"}, user : Users, private : BOOLEAN]
                \cup [command : {"initialize", "deploy", "rollback", "delete"}, user : Users]

NoJob == [command |-> "none"]

Reservations == [kind : {"reserve"}, user : Users, profile : Profiles]
Changes == [kind : {"private", "workspace", "initialize", "deploy", "rollback", "delete"},
            user : Users]
Labels == {"idle", "reserve", "inspect", "private", "look", "initialize", "send", "end"}

\* ok and unreadable answers have a success status; a broken one has not, or
\* is about something else; none comes when the network fails
Replies == {"ok", "unreadable", "refused", "broken", "substitute", "none"}

TypeOK ==
  /\ app \in Apps \cup {NoApp}
  /\ late \subseteq Reservations \cup Changes /\ Cardinality(late) <= MaxLate
  /\ at \in [Runs -> Labels]
  /\ job \in [Runs -> Jobs \cup {NoJob}]
  /\ doubt \in [Runs -> BOOLEAN]
  /\ result \in [Runs -> {"running", "done", "incomplete", "unknown", "failed"}]
  /\ barred \in [Runs -> BOOLEAN]
  /\ secret \in [Runs -> BOOLEAN]
  /\ casual \in BOOLEAN
  /\ \A r \in Runs : at[r] = "end" <=> result[r] # "running"

Init ==
  /\ app = NoApp
  /\ late = {}
  /\ at = [r \in Runs |-> "idle"]
  /\ job = [r \in Runs |-> NoJob]
  /\ doubt = [r \in Runs |-> FALSE]
  /\ result = [r \in Runs |-> "running"]
  /\ barred = [r \in Runs |-> FALSE]
  /\ secret = [r \in Runs |-> FALSE]
  /\ casual = FALSE

-----------------------------------------------------------------------------
(***************************************************************************)
(* The platform and the network                                            *)
(***************************************************************************)

Reservation(j) == [kind |-> "reserve", user |-> j.user, profile |-> j.profile]

Change(kind, j) == [kind |-> kind, user |-> j.user]

Reserved(req) == [owner |-> req.user, profile |-> req.profile, private |-> FALSE,
                  initialized |-> FALSE, fresh |-> TRUE, deleted |-> FALSE]

\* What a request that is granted makes of the app.  Whether an initialized app
\* still looks like a new reservation is the platform's business; such an app has
\* no version to go back to.
Effects(req) ==
  IF app = NoApp THEN IF req.kind = "reserve" THEN {Reserved(req)} ELSE {}
  ELSE IF app.owner # req.user \/ app.deleted THEN {}
  ELSE CASE req.kind = "reserve" -> {}
         [] req.kind = "private" -> {[app EXCEPT !.private = TRUE]}
         [] req.kind = "workspace" -> {[app EXCEPT !.private = FALSE]}
         [] req.kind = "initialize" ->
              {[app EXCEPT !.initialized = TRUE, !.fresh = f] : f \in {app.fresh, FALSE}}
         [] req.kind = "deploy" -> {[app EXCEPT !.initialized = TRUE, !.fresh = FALSE]}
         [] req.kind = "rollback" -> IF app.fresh THEN {} ELSE {app}
         [] req.kind = "delete" -> {[app EXCEPT !.deleted = TRUE]}

\* one request and what its sender hears of it
Exchange(req, reply) ==
  CASE reply \in {"ok", "unreadable"} -> app' \in Effects(req) /\ UNCHANGED late
    [] reply = "refused" -> UNCHANGED <<app, late>>
    [] reply \in {"broken", "substitute"} -> app' \in Effects(req) \cup {app} /\ UNCHANGED late
    [] reply = "none" ->
         \/ app' \in Effects(req) \cup {app} /\ UNCHANGED late
         \/ /\ Cardinality(late \cup {req}) <= MaxLate
            /\ late' = late \cup {req}
            /\ UNCHANGED app

\* a request that was given up on is served, or lost
Arrive(req) ==
  /\ req \in late
  /\ late' = late \ {req}
  /\ app' \in Effects(req) \cup {app}
  /\ UNCHANGED <<at, job, doubt, result, barred, secret, casual>>

-----------------------------------------------------------------------------
(***************************************************************************)
(* The commands                                                            *)
(***************************************************************************)

Goto(r, label) == at' = [at EXCEPT ![r] = label]

Report(r, value) == result' = [result EXCEPT ![r] = value]

End(r, value) == Goto(r, "end") /\ Report(r, value)

Go(r, label) == Goto(r, label) /\ UNCHANGED result

FirstStep(command) ==
  CASE command = "create" -> "reserve"
    [] command = "initialize" -> "look"
    [] command = "visibility" -> "private"
    [] OTHER -> "send"

\* a command that may show the app to the workspace
MayShow(j) ==
  \/ j.command = "create" /\ ~j.private
  \/ j.command = "visibility" /\ ~j.private
  \/ j.command \in {"initialize", "deploy"}

\* the app is deleted or, to a create, somebody else's or in use
Barred(j) ==
  /\ app # NoApp
  /\ app.deleted \/ (j.command = "create" /\ ~(app.owner = j.user /\ app.fresh))

Start(r, j) ==
  /\ at[r] = "idle"
  /\ job' = [job EXCEPT ![r] = j]
  /\ barred' = [barred EXCEPT ![r] = Barred(j)]
  /\ secret' = [secret EXCEPT ![r] = FALSE]
  /\ casual' = (casual \/ MayShow(j))
  /\ UNCHANGED <<app, late, doubt>>

Begin(r, j) == Start(r, j) /\ Go(r, FirstStep(j.command))

\* No session, no plan or one that is not for this very ID or does not initialize a
\* database it is to have, a deletion that is not confirmed, no archive to deploy
Decline(r, j) == Start(r, j) /\ End(r, "failed")

\* only the error of a request that got no answer
NoAnswerAtAll(reply) == reply = "none"

\* reservation_outcome_is_unknown: the error is not one the platform reported
OutcomeIsUnknown(reply) == reply \in {"unreadable", "none"}

\* the request of r had no answer that says what became of it, and has had an
\* effect or may still have one
Keep(r, reply) ==
  secret' = [secret EXCEPT ![r] =
               reply \in {"unreadable", "none"} /\ <<app, late>>' # <<app, late>>]

\* after the reservation, with the two steps exchanged
InitializeFirst(j) ==
  IF j.init THEN "initialize" ELSE IF j.private THEN "private" ELSE "end"

\* after the reservation: private first, so that a private app is never visible
AfterReserve(j) ==
  IF j.private THEN "private" ELSE IF j.init THEN "initialize" ELSE "end"

Accept(r) ==
  IF AfterReserve(job[r]) = "end" THEN End(r, "done") ELSE Go(r, AfterReserve(job[r]))

\* reserve; after any error, but not after an answer about another app, the ID
\* is inspected
Reserve(r, reply) ==
  /\ at[r] = "reserve"
  /\ Exchange(Reservation(job[r]), reply)
  /\ Keep(r, reply)
  /\ doubt' = [doubt EXCEPT ![r] = OutcomeIsUnknown(reply)]
  /\ \/ reply = "ok" /\ Accept(r)
     \/ reply = "substitute" /\ End(r, "failed")
     \/ reply \notin {"ok", "substitute"} /\ Go(r, "inspect")
  /\ UNCHANGED <<job, barred, casual>>

\* a reservation with the planned settings, whosesoever
PlannedReservation(j) ==
  app # NoApp /\ app.profile = j.profile /\ app.fresh /\ ~app.deleted

\* the caller's own app, whatever has become of it
OwnedByCaller(j) == app # NoApp /\ app.owner = j.user /\ app.profile = j.profile

\* is_matching_incomplete_reservation
IsMatchingReservation(j) ==
  /\ app # NoApp
  /\ app.owner = j.user
  /\ app.profile = j.profile
  /\ app.fresh
  /\ ~app.deleted

\* taken up only when this very reservation may have got through
AdoptIfInDoubt(r) ==
  /\ at[r] = "inspect"
  /\ IsMatchingReservation(job[r])
  /\ doubt[r]
  /\ Accept(r)
  /\ UNCHANGED <<app, late, job, doubt, barred, secret, casual>>

\* an earlier reservation of the caller's is taken up, whatever the error was
Adopt(r) ==
  /\ at[r] = "inspect"
  /\ IsMatchingReservation(job[r])
  /\ Accept(r)
  /\ UNCHANGED <<app, late, job, doubt, barred, secret, casual>>

\* the inspection fails, or finds no such reservation
GiveUp(r) ==
  /\ at[r] = "inspect"
  /\ End(r, IF doubt[r] THEN "unknown" ELSE "failed")
  /\ UNCHANGED <<app, late, job, doubt, barred, secret, casual>>

\* `create --private' and `visibility'
SetVisibility(r, reply) ==
  /\ at[r] = "private"
  /\ Exchange(Change(IF job[r].private THEN "private" ELSE "workspace", job[r]), reply)
  /\ LET more == job[r].command = "create" /\ job[r].init
     IN \/ reply # "ok" /\ End(r, "incomplete")
        \/ reply = "ok" /\ more /\ Go(r, "initialize")
        \/ reply = "ok" /\ ~more /\ End(r, "done")
  /\ UNCHANGED <<job, doubt, barred, secret, casual>>

\* `initialize' does not go on with an app that is deleted
Look(r) ==
  /\ at[r] = "look"
  /\ \/ app # NoApp /\ ~app.deleted /\ Go(r, "initialize")
     \/ End(r, "failed")
  /\ UNCHANGED <<app, late, job, doubt, barred, secret, casual>>

Initialize(r, reply) ==
  /\ at[r] = "initialize"
  /\ Exchange(Change("initialize", job[r]), reply)
  /\ End(r, IF reply = "ok" THEN "done" ELSE "incomplete")
  /\ UNCHANGED <<job, doubt, barred, secret, casual>>

\* `deploy', `rollback' and `delete' are one request; a deletion that no complete success
\* answer confirms, and no error answer denies, is reported as unknown
Send(r, reply) ==
  /\ at[r] = "send"
  /\ reply # "substitute"
  /\ Exchange(Change(job[r].command, job[r]), reply)
  /\ Keep(r, reply)
  /\ End(r, IF reply = "ok" THEN "done"
            ELSE IF job[r].command = "delete" /\ OutcomeIsUnknown(reply) THEN "unknown"
            ELSE "failed")
  /\ UNCHANGED <<job, doubt, barred, casual>>

\* the run is over, or killed
Forget(r) ==
  /\ Goto(r, "idle")
  /\ Report(r, "running")
  /\ job' = [job EXCEPT ![r] = NoJob]
  /\ doubt' = [doubt EXCEPT ![r] = FALSE]
  /\ barred' = [barred EXCEPT ![r] = FALSE]
  /\ secret' = [secret EXCEPT ![r] = FALSE]
  /\ UNCHANGED <<app, late, casual>>

Return(r) == at[r] = "end" /\ Forget(r)

Crash(r) == at[r] # "idle" /\ Forget(r)

Ask(r, reply) ==
  Reserve(r, reply) \/ SetVisibility(r, reply) \/ Initialize(r, reply) \/ Send(r, reply)

GoOn(r) ==
  \/ \E reply \in Replies : Ask(r, reply)
  \/ Adopt(r)
  \/ GiveUp(r)
  \/ Look(r)
  \/ Return(r)

Next ==
  \/ \E r \in Runs, j \in Jobs : Begin(r, j) \/ Decline(r, j)
  \/ \E r \in Runs : GoOn(r) \/ Crash(r)
  \/ \E req \in late : Arrive(req)

Spec == Init /\ [][Next]_vars

(***************************************************************************)
(* A user who tries again, a network and a platform that do not fail, or   *)
(* leave without an answer, the same request for ever, and runs that are   *)
(* not killed at the same step for ever.                                   *)
(***************************************************************************)
RetrySpec ==
  /\ Spec
  /\ WF_vars(\E r \in Runs : (\E j \in Jobs : Begin(r, j)) \/ GoOn(r))
  /\ SF_vars(\E r \in Runs, j \in Jobs : Begin(r, j))
  /\ SF_vars(\E r \in Runs : Reserve(r, "ok"))
  /\ SF_vars(\E r \in Runs : Reserve(r, "ok") \/ Reserve(r, "refused"))
  /\ SF_vars(\E r \in Runs : Adopt(r))
  /\ SF_vars(\E r \in Runs : SetVisibility(r, "ok"))
  /\ SF_vars(\E r \in Runs : Initialize(r, "ok"))

-----------------------------------------------------------------------------
(***************************************************************************)
(* Properties                                                              *)
(***************************************************************************)

\* A create or delete that reports a plain failure has not done, and will not
\* do, what it failed to do: if its request was granted unheard, or is still on
\* its way, the error says that the outcome is unknown.  (Of an error answer
\* that the platform gives after the fact the client knows nothing.)
PlainFailureIsNone ==
  \A r \in Runs :
    at[r] = "end" /\ job[r].command \in {"create", "delete"} /\ result[r] = "failed"
      => ~secret[r]

\* A create that reports success leaves an app of the caller's, with the
\* planned settings, initialized if the plan asks for it and private if the
\* command did, whoever else creates, deploys or deletes at the same time.
DoneIsDone ==
  \A r \in Runs :
    at[r] = "end" /\ job[r].command = "create" /\ result[r] = "done" =>
      /\ app # NoApp
      /\ app.owner = job[r].user /\ app.profile = job[r].profile
      /\ job[r].init => app.initialized
      /\ job[r].private /\ ~casual => app.private

\* A command does not go on to change an app that was deleted when it began,
\* and a create none that was anybody else's, or in use: it does not leave it
\* to the platform to refuse.
SparesOthers ==
  \A r \in Runs :
    at[r] \in {"private", "initialize"} /\ job[r].command # "visibility" => ~barred[r]

\* `create --private' makes the app private before it initializes it, so that
\* a private app is never visible: not in between, and not after any number of
\* lost answers, late requests, killed runs and retries.
NeverVisible == ~casual /\ app # NoApp /\ app.initialized => app.private

\* What the errors of create say: trying the same command again takes up the
\* reservation and goes on, in the end with success.
Created == app # NoApp /\ app.private /\ app.initialized

RetryCreates ==
  \A j \in Creates :
    j.private /\ j.init => ([](\A r \in Runs : job[r] \in {NoJob, j}) => <>Created)
=============================================================================
