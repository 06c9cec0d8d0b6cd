----------------------------- MODULE InstallLock -----------------------------
(***************************************************************************)
(* The lock file that guards install, update and remove of one skills home *)
(* (InstallLock, skills_install.rs) and of one agent (AgentLock,           *)
(* agents_install.rs): the two types run the same algorithm on a file.     *)
(*                                                                         *)
(* A process is one run of the command.  `acquire' makes two attempts to   *)
(* create the file exclusively; finding it there, it reads the file's age  *)
(* and either reports that the lock is taken or, when the age exceeds      *)
(* LOCK_STALE_SECS, removes whatever is at the path and tries again.       *)
(* Dropping the guard also removes whatever is at the path.                *)
(*                                                                         *)
(* Time is the age of the file that is there now; it stops counting one    *)
(* unit past StaleAfter, from where on nothing tells two ages apart.       *)
(***************************************************************************)
EXTENDS Integers, FiniteSets

CONSTANTS
  Procs,       \* runs of the command
  None,        \* no file at the lock's path
  StaleAfter,  \* LOCK_STALE_SECS
  MaxHold      \* how long a well-behaved command keeps the lock

ASSUME NoneAssumption == None \notin Procs
ASSUME StaleAfterAssumption == StaleAfter \in Nat
ASSUME MaxHoldAssumption == MaxHold \in Nat /\ MaxHold <= StaleAfter

VARIABLES
  owner,      \* the process that created the file at the path, or None
  age,        \* time since that file was last written
  pc,         \* what each process is about to do
  attempt,    \* which of the two rounds of `acquire' it is in
  staleSeen   \* history: some process has judged a lock to be stale

lockVars == <<owner, age, pc, attempt, staleSeen>>

Attempts == 2

Held(p) == pc[p] \in {"stamp", "holding"}

Holders == {p \in Procs : Held(p)}

TypeOK ==
  /\ owner \in Procs \cup {None}
  /\ age \in 0 .. StaleAfter + 1
  /\ pc \in [Procs -> {"idle", "create", "inspect", "unlink", "stamp", "holding"}]
  /\ attempt \in [Procs -> 1 .. Attempts]
  /\ staleSeen \in BOOLEAN

Init ==
  /\ owner = None
  /\ age = 0
  /\ pc = [p \in Procs |-> "idle"]
  /\ attempt = [p \in Procs |-> 1]
  /\ staleSeen = FALSE

Goto(p, label) == pc' = [pc EXCEPT ![p] = label]

Begin(p) ==
  /\ pc[p] = "idle"
  /\ Goto(p, "create")
  /\ attempt' = [attempt EXCEPT ![p] = 1]
  /\ UNCHANGED <<owner, age, staleSeen>>

\* OpenOptions::create without create_new, which succeeds on a file that exists
CreateShared(p) ==
  /\ pc[p] = "create"
  /\ owner' = p
  /\ age' = 0
  /\ Goto(p, "stamp")
  /\ UNCHANGED <<attempt, staleSeen>>

\* create_new succeeds only when there is no file
CreateNew(p) ==
  /\ pc[p] = "create"
  /\ owner = None
  /\ owner' = p
  /\ age' = 0
  /\ Goto(p, "stamp")
  /\ UNCHANGED <<attempt, staleSeen>>

FindTaken(p) ==
  /\ pc[p] = "create"
  /\ owner # None
  /\ Goto(p, "inspect")
  /\ UNCHANGED <<owner, age, attempt, staleSeen>>

\* any other error of the open ends the command
CreateFails(p) ==
  /\ pc[p] = "create"
  /\ Goto(p, "idle")
  /\ UNCHANGED <<owner, age, attempt, staleSeen>>

\* the process id is written through the handle: a file that was unlinked in
\* the meantime is not the one at the path
WritePid(p) ==
  /\ pc[p] = "stamp"
  /\ age' = IF owner = p THEN 0 ELSE age
  /\ Goto(p, "holding")
  /\ UNCHANGED <<owner, attempt, staleSeen>>

NeverStale == FALSE

IsStale == owner # None /\ age > StaleAfter

JudgeStale(p) ==
  /\ pc[p] = "inspect"
  /\ IsStale
  /\ Goto(p, "unlink")
  /\ staleSeen' = TRUE
  /\ UNCHANGED <<owner, age, attempt>>

\* a lock whose age cannot be read, because it is gone by now, is not stale
Refuse(p) ==
  /\ pc[p] = "inspect"
  /\ ~IsStale
  /\ Goto(p, "idle")
  /\ UNCHANGED <<owner, age, attempt, staleSeen>>

\* `loop' where the code has a loop of two rounds
NextAttemptAlways(p) ==
  /\ Goto(p, "create")
  /\ attempt' = [attempt EXCEPT ![p] = @ + 1]

NextAttempt(p) ==
  IF attempt[p] < Attempts
    THEN /\ Goto(p, "create")
         /\ attempt' = [attempt EXCEPT ![p] = @ + 1]
    ELSE /\ Goto(p, "idle")
         /\ UNCHANGED attempt

\* the path is removed, whichever file is at it by now
Unlink(p) ==
  /\ pc[p] = "unlink"
  /\ owner' = None
  /\ NextAttempt(p)
  /\ UNCHANGED <<age, staleSeen>>

\* the result of remove_file is not looked at
UnlinkFails(p) ==
  /\ pc[p] = "unlink"
  /\ NextAttempt(p)
  /\ UNCHANGED <<owner, age, staleSeen>>

Release(p) ==
  /\ pc[p] = "holding"
  /\ owner' = None
  /\ Goto(p, "idle")
  /\ UNCHANGED <<age, attempt, staleSeen>>

\* killed, or powered off: nothing is dropped, so the file stays; a drop whose
\* remove_file fails (its result is not looked at) is a Crash from "holding"
Crash(p) ==
  /\ pc[p] # "idle"
  /\ Goto(p, "idle")
  /\ UNCHANGED <<owner, age, attempt, staleSeen>>

Tick ==
  /\ age <= StaleAfter
  /\ age' = age + 1
  /\ UNCHANGED <<owner, pc, attempt, staleSeen>>

Acquire(p) ==
  \/ CreateNew(p)
  \/ FindTaken(p)
  \/ CreateFails(p)
  \/ WritePid(p)
  \/ JudgeStale(p)
  \/ Refuse(p)
  \/ Unlink(p)
  \/ UnlinkFails(p)

Step(p) == Begin(p) \/ Acquire(p) \/ Release(p)

(***************************************************************************)
(* Two environments: the unrestricted one, and one whose processes never   *)
(* keep the lock longer than MaxHold and do not crash between creating the *)
(* file and dropping it.                                                   *)
(***************************************************************************)
InTime == \A p \in Procs : Held(p) /\ owner = p => age < MaxHold

Next == (\E p \in Procs : Step(p) \/ Crash(p)) \/ Tick

TimelyNext ==
  \/ \E p \in Procs : Step(p) \/ (~Held(p) /\ Crash(p))
  \/ InTime /\ Tick

Spec == Init /\ [][Next]_lockVars

TimelySpec == Init /\ [][TimelyNext]_lockVars

(***************************************************************************)
(* Properties                                                              *)
(***************************************************************************)

\* Two commands never work on the packages and target directories at once:
\* what the comment on InstallLock promises.
MutualExclusion == \A p, q \in Procs : Held(p) /\ Held(q) => p = q

\* Two commands hold the lock together only if some lock file has reached the
\* age at which `acquire' takes it for the leftover of a crashed run; until
\* then create_new and the drop of the guard keep the holder alone, whoever
\* crashes and whenever.
ExclusiveUntilStale == ~staleSeen => MutualExclusion

\* When every command drops its lock in time and none crashes while it holds
\* it, acquire and drop behave as an exclusive lock.
Lock == INSTANCE ExclusiveLock WITH holders <- Holders

ImplementsExclusiveLock == Lock!Spec

\* The file left behind by a crash does not lock everybody out for good: it
\* goes once it is stale and somebody runs a command again.
LeftoverIsCleared ==
  \A p \in Procs : (owner = p /\ ~Held(p)) ~> (owner # p \/ Held(p))
=============================================================================
