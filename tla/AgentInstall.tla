---------------------------- MODULE AgentInstall ----------------------------
(***************************************************************************)
(* Install, update and remove of one marketplace agent                     *)
(* (agents_install.rs): the agent's document, the record that proves bl    *)
(* put it there, the stage and backup files of each run, and the lock the  *)
(* run holds.                                                              *)
(*                                                                         *)
(* A document is the bytes of a marketplace version, or a document of the  *)
(* user's; a record names the version whose bytes it vouches for, or does  *)
(* not prove ownership (Foreign).  The backup files of a run carry a       *)
(* suffix of their own, so they belong to the process; what a run leaves   *)
(* of them no run ever reads, so the model forgets it.  Of the two stage   *)
(* files only the writing is modelled: they hold the version to install.   *)
(*                                                                         *)
(* Each system call is a step.  A rename, a write and a removal may fail,  *)
(* at most MaxFaults times in one run; a process may crash anywhere; the   *)
(* user may write or delete the document.                                  *)
(***************************************************************************)
EXTENDS Integers

CONSTANTS
  Procs, None, StaleAfter, MaxHold,  \* the lock's, see InstallLock
  Versions,   \* marketplace versions of the agent
  UserDoc,    \* bytes that are no marketplace version
  Foreign,    \* a record that does not prove ownership
  Absent,     \* no file
  MaxFaults   \* bound on the file operations that fail in one run

ASSUME LockAssumption ==
  None \notin Procs /\ StaleAfter \in Nat /\ MaxHold \in Nat /\ MaxHold <= StaleAfter

ASSUME ContentAssumption ==
  /\ UserDoc \notin Versions \cup {Foreign, Absent}
  /\ Foreign \notin Versions \cup {Absent}
  /\ Absent \notin Versions

ASSUME MaxFaultsAssumption == MaxFaults \in Nat

VARIABLES
  owner, age, pc, attempt, staleSeen,  \* the lock file, see InstallLock
  target,        \* the agent's Markdown document
  record,        \* bl's record of what it installed
  at,            \* the next step of each run, once it holds the lock
  goal,          \* the version it is to install, Absent when it removes
  had,           \* which of the two files it has to move away
  targetBackup,  \* its backup of the document
  recordBackup,  \* its backup of the record
  faults,        \* how many of its file operations have failed
  result,        \* what it reports
  before,        \* history: the pair it found
  torn           \* history: a run died between installing document and record, or
                 \* could not undo because a second operation failed

lockVars == <<owner, age, pc, attempt, staleSeen>>
pair == <<target, record>>
backups == <<targetBackup, recordBackup>>
report == <<faults, result>>
agentVars == <<pair, at, goal, had, backups, report, before, torn>>
vars == <<lockVars, agentVars>>

Lock == INSTANCE InstallLock

Documents == Versions \cup {UserDoc, Absent}
Records == Versions \cup {Foreign, Absent}
Labels == {"classify", "resolve", "stage", "backupTarget", "backupRecord",
           "putTarget", "putRecord", "removeNew", "restoreRecord",
           "restoreTarget", "dropBackups", "end"}
Kinds == {"install", "update", "remove"}

AgentTypeOK ==
  /\ target \in Documents
  /\ record \in Records
  /\ at \in [Procs -> Labels]
  /\ goal \in [Procs -> Versions \cup {Absent}]
  /\ had \in [Procs -> SUBSET {"target", "record"}]
  /\ targetBackup \in [Procs -> Documents]
  /\ recordBackup \in [Procs -> Records]
  /\ faults \in [Procs -> 0 .. MaxFaults]
  /\ result \in [Procs -> {"running", "done", "leftover", "unchanged", "failed"}]
  /\ before \in [Procs -> Documents \X Records]
  /\ torn \in BOOLEAN

TypeOK == Lock!TypeOK /\ AgentTypeOK

At(p, label) == pc[p] = "holding" /\ at[p] = label

\* from the classification to the return of the command
Working(p) == pc[p] = "holding" /\ at[p] # "classify"

\* it has changed the pair as it was asked to; "leftover" is the error it returns
\* when, after that, a backup cannot be removed
Changed(p) == result[p] \in {"done", "leftover"}

\* the pair as the next command would find it if the runs at work were to fail
Undecided == {p \in Procs : Working(p) /\ ~Changed(p)}

SettledPair == IF Undecided = {} THEN pair ELSE before[CHOOSE p \in Undecided : TRUE]

Lifecycle == INSTANCE AgentLifecycle WITH pair <- SettledPair

All(value) == [p \in Procs |-> value]

Init ==
  /\ Lock!Init
  /\ \E q \in Lifecycle!InitialPairs : target = q[1] /\ record = q[2]
  /\ at = All("classify")
  /\ goal = All(Absent)
  /\ had = All({})
  /\ targetBackup = All(Absent)
  /\ recordBackup = All(Absent)
  /\ faults = All(0)
  /\ result = All("running")
  /\ before = All(<<Absent, Absent>>)
  /\ torn = FALSE

-----------------------------------------------------------------------------
(***************************************************************************)
(* Ownership                                                               *)
(***************************************************************************)

ClassifyIgnoringHash(document, rec) ==
  IF document = Absent /\ rec = Absent THEN "Absent"
  ELSE IF rec \notin Versions THEN "ProtectedConflict"
  ELSE IF document = Absent THEN "ManagedMissingFile"
  ELSE "ManagedExact"

Ownership(document, rec) ==
  IF document = Absent /\ rec = Absent THEN "Absent"
  ELSE IF rec \notin Versions THEN "ProtectedConflict"
  ELSE IF document = Absent THEN "ManagedMissingFile"
  ELSE IF document = rec THEN "ManagedExact"
  ELSE "ProtectedConflict"

\* a removal that looks only at whether there is something to remove
ProceedsOnConflict(kind, own) ==
  IF kind = "remove" THEN own # "Absent"
  ELSE own # "ProtectedConflict" /\ (kind = "update" => own # "Absent")

\* what a command does about an agent it found in the given state
Proceeds(kind, own) ==
  /\ own # "ProtectedConflict"
  /\ kind \in {"update", "remove"} => own # "Absent"

-----------------------------------------------------------------------------
(***************************************************************************)
(* Steps of a run that holds the lock                                      *)
(***************************************************************************)

Goto(p, label) == at' = [at EXCEPT ![p] = label]

Report(p, value) == result' = [result EXCEPT ![p] = value]

\* a file operation of p fails, within the bound; the run goes on from label
Fault(p, label) ==
  /\ faults[p] < MaxFaults
  /\ faults' = [faults EXCEPT ![p] = @ + 1]
  /\ Goto(p, label)

Fail(p, label) == Fault(p, label) /\ Report(p, "failed")

\* a rename whose source is gone fails of itself
FailGone(p, file, label) ==
  /\ file = Absent
  /\ Goto(p, label)
  /\ Report(p, "failed")
  /\ UNCHANGED faults

\* which of the two files are there
Present == {f \in {"target", "record"} :
              (f = "target" => target # Absent) /\ (f = "record" => record # Absent)}

Classify(p, kind) ==
  LET own == Ownership(target, record)
  IN /\ At(p, "classify")
     /\ before' = [before EXCEPT ![p] = pair]
     /\ had' = [had EXCEPT ![p] = Present]
     /\ \/ /\ Proceeds(kind, own)
           /\ Goto(p, IF kind # "remove" THEN "resolve"
                      ELSE IF own = "ManagedExact" THEN "backupTarget" ELSE "backupRecord")
           /\ UNCHANGED result
        \/ /\ ~Proceeds(kind, own)
           /\ Goto(p, "end")
           /\ Report(p, "unchanged")
     /\ UNCHANGED <<lockVars, pair, goal, backups, faults, torn>>

\* The server resolves a version and names an action; the document is
\* downloaded and verified, unless the action is noop and the installed
\* document is exactly the recorded one.  Anything may fail on the way.
Resolve(p) ==
  /\ At(p, "resolve")
  /\ \/ Goto(p, "end") /\ Report(p, "unchanged") /\ UNCHANGED goal
     \/ /\ \E v \in Versions : goal' = [goal EXCEPT ![p] = v]
        /\ Goto(p, "stage")
        /\ UNCHANGED result
  /\ UNCHANGED <<lockVars, pair, had, backups, faults, before, torn>>

RenameIgnoringRecord(present) ==
  IF "target" \in present THEN "backupTarget" ELSE "putTarget"

\* the first of the four renames that there is something to rename for
FirstRename(present) ==
  IF "target" \in present THEN "backupTarget"
  ELSE IF "record" \in present THEN "backupRecord" ELSE "putTarget"

\* both stage files are written, then it is looked again what is there to be
\* moved away
Stage(p) ==
  /\ At(p, "stage")
  /\ \/ /\ had' = [had EXCEPT ![p] = Present]
        /\ Goto(p, FirstRename(Present))
        /\ UNCHANGED report
     \/ Fail(p, "end") /\ UNCHANGED had
  /\ UNCHANGED <<lockVars, pair, goal, backups, before, torn>>

\* a restore_pair that puts the document back only
RestoreDocument(moved) ==
  IF "target" \in moved THEN "restoreTarget" ELSE "end"

\* restore_pair puts back what was moved away, the record first
Restore(moved) ==
  IF "record" \in moved THEN "restoreRecord"
  ELSE IF "target" \in moved THEN "restoreTarget" ELSE "end"

\* the document is removed instead of being kept aside
DiscardTarget(p) ==
  /\ At(p, "backupTarget")
  /\ \/ /\ target' = Absent
        /\ Goto(p, IF "record" \in had[p] THEN "backupRecord" ELSE "putTarget")
        /\ UNCHANGED <<targetBackup, report>>
     \/ /\ Fail(p, "end") \/ FailGone(p, target, "end")
        /\ UNCHANGED <<target, targetBackup>>
  /\ UNCHANGED <<lockVars, record, goal, had, recordBackup, before, torn>>

BackupTarget(p) ==
  /\ At(p, "backupTarget")
  /\ \/ /\ target # Absent
        /\ targetBackup' = [targetBackup EXCEPT ![p] = target]
        /\ target' = Absent
        /\ Goto(p, IF "record" \in had[p] THEN "backupRecord" ELSE "putTarget")
        /\ UNCHANGED report
     \/ /\ Fail(p, "end") \/ FailGone(p, target, "end")
        /\ UNCHANGED <<target, targetBackup>>
  /\ UNCHANGED <<lockVars, record, goal, had, recordBackup, before, torn>>

\* with both files moved away a removal is done
BackupRecord(p) ==
  /\ At(p, "backupRecord")
  /\ \/ /\ recordBackup' = [recordBackup EXCEPT ![p] = record]
        /\ record' = Absent
        /\ \/ goal[p] = Absent /\ Goto(p, "dropBackups") /\ Report(p, "done")
           \/ goal[p] # Absent /\ Goto(p, "putTarget") /\ UNCHANGED result
        /\ UNCHANGED faults
     \/ /\ Fail(p, Restore(had[p] \ {"record"}))
        /\ UNCHANGED <<record, recordBackup>>
  /\ UNCHANGED <<lockVars, target, goal, had, targetBackup, before, torn>>

PutTarget(p) ==
  /\ At(p, "putTarget")
  /\ \/ target' = goal[p] /\ Goto(p, "putRecord") /\ UNCHANGED report
     \/ Fail(p, Restore(had[p])) /\ UNCHANGED target
  /\ UNCHANGED <<lockVars, record, goal, had, backups, before, torn>>

\* the failure path without the removal of the new document
PutRecordKeepingTarget(p) ==
  /\ At(p, "putRecord")
  /\ \/ /\ record' = goal[p]
        /\ Goto(p, "dropBackups")
        /\ Report(p, "done")
        /\ UNCHANGED faults
     \/ Fail(p, Restore(had[p])) /\ UNCHANGED record
  /\ UNCHANGED <<lockVars, target, goal, had, backups, before, torn>>

PutRecord(p) ==
  /\ At(p, "putRecord")
  /\ \/ /\ record' = goal[p]
        /\ Goto(p, "dropBackups")
        /\ Report(p, "done")
        /\ UNCHANGED faults
     \/ Fail(p, "removeNew") /\ UNCHANGED record
  /\ UNCHANGED <<lockVars, target, goal, had, backups, before, torn>>

\* restore_pair goes on after a step of it that fails
RemoveNew(p) ==
  /\ At(p, "removeNew")
  /\ \/ target' = Absent /\ Goto(p, Restore(had[p])) /\ UNCHANGED faults
     \/ Fault(p, Restore(had[p])) /\ UNCHANGED target
  /\ UNCHANGED <<lockVars, record, goal, had, backups, result, before, torn>>

RestoreRecord(p) ==
  /\ At(p, "restoreRecord")
  /\ \/ /\ record' = recordBackup[p]
        /\ recordBackup' = [recordBackup EXCEPT ![p] = Absent]
        /\ Goto(p, Restore(had[p] \ {"record"}))
        /\ UNCHANGED faults
     \/ Fault(p, Restore(had[p] \ {"record"})) /\ UNCHANGED <<record, recordBackup>>
  /\ UNCHANGED <<lockVars, target, goal, had, targetBackup, result, before, torn>>

RestoreTarget(p) ==
  /\ At(p, "restoreTarget")
  /\ \/ /\ target' = targetBackup[p]
        /\ targetBackup' = [targetBackup EXCEPT ![p] = Absent]
        /\ Goto(p, "end")
        /\ UNCHANGED faults
     \/ Fault(p, "end") /\ UNCHANGED <<target, targetBackup>>
  /\ UNCHANGED <<lockVars, record, goal, had, recordBackup, result, before, torn>>

\* a backup that is there and cannot be removed: the command ends with this
\* error, the pair it was asked for in place
Leave(p) == Fault(p, "end") /\ Report(p, "leftover")

\* the backups go, the document's first
DropBackups(p) ==
  /\ At(p, "dropBackups")
  /\ \/ /\ targetBackup' = [targetBackup EXCEPT ![p] = Absent]
        /\ \/ /\ recordBackup' = [recordBackup EXCEPT ![p] = Absent]
              /\ Goto(p, "end")
              /\ UNCHANGED report
           \/ /\ recordBackup[p] # Absent
              /\ Leave(p)
              /\ UNCHANGED recordBackup
     \/ /\ targetBackup[p] # Absent
        /\ Leave(p)
        /\ UNCHANGED backups
  /\ UNCHANGED <<lockVars, pair, goal, had, before, torn>>

-----------------------------------------------------------------------------
(***************************************************************************)
(* The run around them                                                     *)
(***************************************************************************)

Start(p) == Lock!Begin(p) /\ UNCHANGED agentVars

\* AgentLock::acquire, up to the moment it returns
AcquireStep(p) == Lock!Acquire(p) /\ UNCHANGED agentVars

\* what a run knows goes with it
Forget(p) ==
  /\ Goto(p, "classify")
  /\ goal' = [goal EXCEPT ![p] = Absent]
  /\ had' = [had EXCEPT ![p] = {}]
  /\ targetBackup' = [targetBackup EXCEPT ![p] = Absent]
  /\ recordBackup' = [recordBackup EXCEPT ![p] = Absent]
  /\ faults' = [faults EXCEPT ![p] = 0]
  /\ Report(p, "running")
  /\ before' = [before EXCEPT ![p] = <<Absent, Absent>>]

\* the guard is dropped when the command returns
Finish(p) ==
  /\ at[p] = "end"
  /\ Lock!Release(p)
  /\ Forget(p)
  /\ torn' = (torn \/ faults[p] > 1)
  /\ UNCHANGED pair

Crash(p) ==
  /\ Lock!Crash(p)
  /\ Forget(p)
  /\ torn' = (torn \/ faults[p] > 1 \/ at[p] \in {"putRecord", "removeNew"})
  /\ UNCHANGED pair

\* an editor, not bl
UserChanges ==
  /\ target' \in {UserDoc, Absent}
  /\ UNCHANGED <<lockVars, record, at, goal, had, backups, report, before, torn>>

Tick == Lock!Tick /\ UNCHANGED agentVars

WorkStep(p) ==
  \/ \E kind \in Kinds : Classify(p, kind)
  \/ Resolve(p)
  \/ Stage(p)
  \/ BackupTarget(p)
  \/ BackupRecord(p)
  \/ PutTarget(p)
  \/ PutRecord(p)
  \/ RemoveNew(p)
  \/ RestoreRecord(p)
  \/ RestoreTarget(p)
  \/ DropBackups(p)

RunStep(p) == Start(p) \/ AcquireStep(p) \/ WorkStep(p) \/ Finish(p)

Idle == \A p \in Procs : ~Working(p)

(***************************************************************************)
(* Three environments.  In the first, runs crash and locks go stale, and   *)
(* the user edits at any time; in the second, the user leaves the document *)
(* alone while a run is at work; in the third, moreover, a run that holds  *)
(* the lock finishes in time.                                              *)
(***************************************************************************)
Next == (\E p \in Procs : RunStep(p) \/ Crash(p)) \/ Tick \/ UserChanges

QuietNext == (\E p \in Procs : RunStep(p) \/ Crash(p)) \/ Tick \/ (Idle /\ UserChanges)

TimelyNext ==
  \/ \E p \in Procs : RunStep(p) \/ (~Lock!Held(p) /\ Crash(p))
  \/ Lock!InTime /\ Tick
  \/ Idle /\ UserChanges

Spec == Init /\ [][Next]_vars

QuietSpec == Init /\ [][QuietNext]_vars

TimelySpec == Init /\ [][TimelyNext]_vars

-----------------------------------------------------------------------------
(***************************************************************************)
(* Properties                                                              *)
(***************************************************************************)

\* A command that met no more than one failing file operation has made the
\* pair what it was asked to make it, or has left it as it found it: restore_pair
\* undoes any prefix of the four renames.  What it reports tells which: "done" is
\* the new pair with nothing left behind; an error is the old pair with nothing
\* left behind, but for the one error that comes after the fact, when of the new
\* pair a backup could not be removed (remove_backups), and is still there.
FailureIsAtomic ==
  \A p \in Procs : At(p, "end") /\ faults[p] <= 1 =>
    /\ pair = IF Changed(p) THEN <<goal[p], goal[p]>> ELSE before[p]
    /\ result[p] = "leftover" <=> targetBackup[p] # Absent \/ recordBackup[p] # Absent

\* However many file operations fail, and wherever the run stops: until the
\* new pair is complete, the old document and the old record are still on
\* disk, in place or in the run's backups.
PriorPairOnDisk ==
  \A p \in Undecided :
    /\ before[p][1] \in {Absent, target, targetBackup[p]}
    /\ before[p][2] \in {Absent, record, recordBackup[p]}

\* A record never vouches for the bytes of another version, at any point at
\* which a run can crash: the old record is gone before the new document is
\* installed, and the new one comes last.  (A run that meets a second failing
\* operation while it undoes its work may leave such a pair.)
RecordVouches ==
  (\A p \in Procs : faults[p] <= 1) /\ ~torn /\ record \in Versions /\ target \in Versions
    => target = record

\* A document of the user's that a command finds is never replaced, moved or
\* removed by it.
UserDocKept == [][target = UserDoc => target' = UserDoc \/ UserChanges]_vars

\* A crash anywhere but between the last two renames, and a failing file
\* operation that restore_pair can undo, leave a pair that the next command can
\* work on; only the user's document and a foreign record make a conflict.
ResumableUnlessTorn ==
  Idle /\ ~torn /\ Ownership(target, record) = "ProtectedConflict"
    => target = UserDoc \/ record = Foreign

\* What the runs do between taking the lock and dropping it leaves the lock
\* alone: for them, too, it is an exclusive lock.
LockIsExclusive == Lock!ImplementsExclusiveLock
=============================================================================
