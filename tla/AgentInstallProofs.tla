------------------------- MODULE AgentInstallProofs -------------------------
(***************************************************************************)
(* What AgentInstall guarantees for every set of processes and versions,   *)
(* every staleness bound and every number of failing file operations.      *)
(***************************************************************************)
EXTENDS MCAgentInstall, TLAPS

LP == INSTANCE InstallLockProofs

-----------------------------------------------------------------------------
(***************************************************************************)
(* The lock is used as it is meant to be: every step of an agent command   *)
(* is a step of the lock or leaves it alone.                               *)
(***************************************************************************)

LEMMA WorkLeavesLock ==
  ASSUME NEW p \in Procs, WorkStep(p)
  PROVE  UNCHANGED lockVars
BY DEF WorkStep, Classify, Resolve, Stage, BackupTarget, BackupRecord, PutTarget,
       PutRecord, RemoveNew, RestoreRecord, RestoreTarget, DropBackups, Leave

LEMMA LockStep == [Next]_vars => [Lock!Next]_lockVars
<1> SUFFICES ASSUME [Next]_vars PROVE [Lock!Next]_lockVars
  OBVIOUS
<1>1. ASSUME NEW p \in Procs, RunStep(p) PROVE [Lock!Next]_lockVars
  BY <1>1, WorkLeavesLock
  DEF RunStep, Start, AcquireStep, Finish, Lock!Next, Lock!Step
<1>2. ASSUME NEW p \in Procs, Crash(p) PROVE [Lock!Next]_lockVars
  BY <1>2 DEF Crash, Lock!Next
<1>3. CASE Tick
  BY <1>3 DEF Tick, Lock!Next
<1>4. CASE UserChanges
  BY <1>4 DEF UserChanges
<1>5. CASE UNCHANGED vars
  BY <1>5 DEF vars
<1> QED
  BY <1>1, <1>2, <1>3, <1>4, <1>5 DEF Next

LEMMA TimelyLockStep == [TimelyNext]_vars => [Lock!TimelyNext]_lockVars
<1> SUFFICES ASSUME [TimelyNext]_vars PROVE [Lock!TimelyNext]_lockVars
  OBVIOUS
<1>1. ASSUME NEW p \in Procs, RunStep(p) PROVE [Lock!TimelyNext]_lockVars
  BY <1>1, WorkLeavesLock
  DEF RunStep, Start, AcquireStep, Finish, Lock!TimelyNext, Lock!Step
<1>2. ASSUME NEW p \in Procs, ~Lock!Held(p), Crash(p) PROVE [Lock!TimelyNext]_lockVars
  BY <1>2 DEF Crash, Lock!TimelyNext
<1>3. CASE Lock!InTime /\ Tick
  BY <1>3 DEF Tick, Lock!TimelyNext
<1>4. CASE UserChanges
  BY <1>4 DEF UserChanges
<1>5. CASE UNCHANGED vars
  BY <1>5 DEF vars
<1> QED
  BY <1>1, <1>2, <1>3, <1>4, <1>5 DEF TimelyNext

LEMMA TimelyIsNext == [TimelyNext]_vars => [QuietNext]_vars
BY DEF TimelyNext, QuietNext

LEMMA QuietIsNext == [QuietNext]_vars => [Next]_vars
BY DEF QuietNext, Next

-----------------------------------------------------------------------------
(***************************************************************************)
(* Types                                                                   *)
(***************************************************************************)

LEMMA AgentTypeInit == Init => AgentTypeOK
<1> SUFFICES ASSUME Init PROVE AgentTypeOK
  OBVIOUS
<1>1. target \in Documents /\ record \in Records
  BY DEF Init, Lifecycle!InitialPairs, Documents, Records
<1>2. 0 \in 0 .. MaxFaults
  BY MaxFaultsAssumption
<1>3. <<Absent, Absent>> \in Documents \X Records /\ "classify" \in Labels
  BY DEF Documents, Records, Labels
<1> QED
  BY <1>1, <1>2, <1>3, Zenon DEF Init, AgentTypeOK, All, Documents, Records

LEMMA GotoType ==
  ASSUME at \in [Procs -> Labels], NEW p \in Procs, NEW label \in Labels, Goto(p, label)
  PROVE  at' \in [Procs -> Labels]
BY DEF Goto

Results == {"running", "done", "leftover", "unchanged", "failed"}

LEMMA ReportType ==
  ASSUME result \in [Procs -> Results], NEW p \in Procs, NEW value \in Results,
         Report(p, value)
  PROVE  result' \in [Procs -> Results]
BY DEF Report

LEMMA FaultType ==
  ASSUME at \in [Procs -> Labels], faults \in [Procs -> 0 .. MaxFaults],
         NEW p \in Procs, NEW label \in Labels, Fault(p, label)
  PROVE  at' \in [Procs -> Labels] /\ faults' \in [Procs -> 0 .. MaxFaults]
<1>1. at' \in [Procs -> Labels]
  BY GotoType DEF Fault
<1>2. faults' \in [Procs -> 0 .. MaxFaults]
  BY MaxFaultsAssumption DEF Fault
<1> QED
  BY <1>1, <1>2

LEMMA FailType ==
  ASSUME at \in [Procs -> Labels], faults \in [Procs -> 0 .. MaxFaults],
         result \in [Procs -> Results],
         NEW p \in Procs, NEW label \in Labels, Fail(p, label)
  PROVE  /\ at' \in [Procs -> Labels]
         /\ faults' \in [Procs -> 0 .. MaxFaults]
         /\ result' \in [Procs -> Results]
BY FaultType, ReportType DEF Fail, Results

LEMMA FailGoneType ==
  ASSUME at \in [Procs -> Labels], faults \in [Procs -> 0 .. MaxFaults],
         result \in [Procs -> Results],
         NEW p \in Procs, NEW file, NEW label \in Labels, FailGone(p, file, label)
  PROVE  /\ at' \in [Procs -> Labels]
         /\ faults' \in [Procs -> 0 .. MaxFaults]
         /\ result' \in [Procs -> Results]
BY GotoType, ReportType DEF FailGone, Results

LEMMA RestoreType == \A moved : Restore(moved) \in Labels /\ FirstRename(moved) \in Labels
BY DEF Restore, FirstRename, Labels

LEMMA AgentTypeStep ==
  ASSUME AgentTypeOK, [Next]_vars
  PROVE  AgentTypeOK'
<1> USE ContentAssumption, MaxFaultsAssumption, RestoreType
    DEF AgentTypeOK, Documents, Records, Results, pair, backups, report
<1>0. \A label \in {"stage", "putTarget", "putRecord", "removeNew", "end", "dropBackups",
                    "backupRecord", "resolve", "backupTarget"} : label \in Labels
  BY DEF Labels
<1>1. ASSUME NEW p \in Procs, Start(p) \/ AcquireStep(p) PROVE AgentTypeOK'
  BY <1>1 DEF Start, AcquireStep, agentVars
<1>2. ASSUME NEW p \in Procs, NEW kind \in Kinds, Classify(p, kind)
      PROVE  AgentTypeOK'
  BY <1>2 DEF Classify, Present, Goto, Report, Labels
<1>3. ASSUME NEW p \in Procs, Resolve(p) PROVE AgentTypeOK'
  <2>1. at' \in [Procs -> Labels]
    BY <1>3, <1>0, GotoType DEF Resolve
  <2>2. result' \in [Procs -> Results]
    BY <1>3, ReportType DEF Resolve
  <2>3. goal' \in [Procs -> Versions \cup {Absent}]
    BY <1>3 DEF Resolve
  <2> QED
    BY <1>3, <2>1, <2>2, <2>3 DEF Resolve
<1>4. ASSUME NEW p \in Procs, Stage(p) PROVE AgentTypeOK'
  <2>1. /\ at' \in [Procs -> Labels]
        /\ faults' \in [Procs -> 0 .. MaxFaults]
        /\ result' \in [Procs -> Results]
    BY <1>4, <1>0, GotoType, FailType DEF Stage
  <2>2. had' \in [Procs -> SUBSET {"target", "record"}]
    BY <1>4 DEF Stage, Present
  <2> QED
    BY <1>4, <2>1, <2>2 DEF Stage
<1>5. ASSUME NEW p \in Procs, BackupTarget(p) PROVE AgentTypeOK'
  <2>1. /\ at' \in [Procs -> Labels]
        /\ faults' \in [Procs -> 0 .. MaxFaults]
        /\ result' \in [Procs -> Results]
    BY <1>5, <1>0, GotoType, FailType, FailGoneType DEF BackupTarget
  <2>2. target' \in Documents /\ targetBackup' \in [Procs -> Documents]
    BY <1>5 DEF BackupTarget
  <2> QED
    BY <1>5, <2>1, <2>2 DEF BackupTarget
<1>6. ASSUME NEW p \in Procs, BackupRecord(p) PROVE AgentTypeOK'
  <2>1. /\ at' \in [Procs -> Labels]
        /\ faults' \in [Procs -> 0 .. MaxFaults]
        /\ result' \in [Procs -> Results]
    BY <1>6, <1>0, GotoType, ReportType, FailType DEF BackupRecord
  <2>2. record' \in Records /\ recordBackup' \in [Procs -> Records]
    BY <1>6 DEF BackupRecord
  <2> QED
    BY <1>6, <2>1, <2>2 DEF BackupRecord
<1>7. ASSUME NEW p \in Procs, PutTarget(p) PROVE AgentTypeOK'
  <2>1. /\ at' \in [Procs -> Labels]
        /\ faults' \in [Procs -> 0 .. MaxFaults]
        /\ result' \in [Procs -> Results]
    BY <1>7, <1>0, GotoType, FailType DEF PutTarget
  <2>2. target' \in Documents
    BY <1>7 DEF PutTarget
  <2> QED
    BY <1>7, <2>1, <2>2 DEF PutTarget
<1>8. ASSUME NEW p \in Procs, PutRecord(p) PROVE AgentTypeOK'
  <2>1. /\ at' \in [Procs -> Labels]
        /\ faults' \in [Procs -> 0 .. MaxFaults]
        /\ result' \in [Procs -> Results]
    BY <1>8, <1>0, GotoType, ReportType, FailType DEF PutRecord
  <2>2. record' \in Records
    BY <1>8 DEF PutRecord
  <2> QED
    BY <1>8, <2>1, <2>2 DEF PutRecord
<1>9. ASSUME NEW p \in Procs, RemoveNew(p) PROVE AgentTypeOK'
  <2>1. at' \in [Procs -> Labels] /\ faults' \in [Procs -> 0 .. MaxFaults]
    BY <1>9, GotoType, FaultType DEF RemoveNew
  <2> QED
    BY <1>9, <2>1 DEF RemoveNew
<1>10. ASSUME NEW p \in Procs, RestoreRecord(p) PROVE AgentTypeOK'
  <2>1. at' \in [Procs -> Labels] /\ faults' \in [Procs -> 0 .. MaxFaults]
    BY <1>10, GotoType, FaultType DEF RestoreRecord
  <2>2. record' \in Records /\ recordBackup' \in [Procs -> Records]
    BY <1>10 DEF RestoreRecord
  <2> QED
    BY <1>10, <2>1, <2>2 DEF RestoreRecord
<1>11. ASSUME NEW p \in Procs, RestoreTarget(p) PROVE AgentTypeOK'
  <2>1. at' \in [Procs -> Labels] /\ faults' \in [Procs -> 0 .. MaxFaults]
    BY <1>11, <1>0, GotoType, FaultType DEF RestoreTarget
  <2>2. target' \in Documents /\ targetBackup' \in [Procs -> Documents]
    BY <1>11 DEF RestoreTarget
  <2> QED
    BY <1>11, <2>1, <2>2 DEF RestoreTarget
<1>12. ASSUME NEW p \in Procs, DropBackups(p) PROVE AgentTypeOK'
  <2>1. at' \in [Procs -> Labels] /\ faults' \in [Procs -> 0 .. MaxFaults]
    BY <1>12, <1>0, GotoType, FaultType DEF DropBackups, Leave
  <2>2. targetBackup' \in [Procs -> Documents]
    BY <1>12 DEF DropBackups, Leave, Report
  <2>3. recordBackup' \in [Procs -> Records]
    BY <1>12 DEF DropBackups, Leave, Report
  <2>4. result' \in [Procs -> Results]
    BY <1>12, ReportType DEF DropBackups, Leave, Results
  <2> QED
    BY <1>12, <2>1, <2>2, <2>3, <2>4 DEF DropBackups, Results
<1>13. ASSUME NEW p \in Procs, Finish(p) PROVE AgentTypeOK'
  BY <1>13 DEF Finish, Forget, Goto, Report, Labels
<1>14. ASSUME NEW p \in Procs, Crash(p) PROVE AgentTypeOK'
  BY <1>14 DEF Crash, Forget, Goto, Report, Labels
<1>15. CASE UserChanges
  BY <1>15 DEF UserChanges
<1>16. CASE Tick
  BY <1>16 DEF Tick, agentVars
<1>17. CASE UNCHANGED vars
  BY <1>17 DEF vars, agentVars
<1> QED
  BY <1>1, <1>2, <1>3, <1>4, <1>5, <1>6, <1>7, <1>8, <1>9, <1>10, <1>11, <1>12,
     <1>13, <1>14, <1>15, <1>16, <1>17
  DEF Next, RunStep, WorkStep

LEMMA LockTypeStep ==
  ASSUME Lock!TypeOK, [Next]_vars
  PROVE  Lock!TypeOK'
BY LockStep, LP!TypeStep, LockAssumption
DEF LP!TypeOK, Lock!TypeOK, LP!Next, Lock!Next, LP!lockVars, Lock!lockVars, lockVars,
    LP!Attempts, Lock!Attempts, LP!Step, Lock!Step, LP!Acquire, Lock!Acquire,
    LP!Begin, Lock!Begin, LP!CreateNew, Lock!CreateNew, LP!FindTaken, Lock!FindTaken,
    LP!CreateFails, Lock!CreateFails, LP!WritePid, Lock!WritePid,
    LP!JudgeStale, Lock!JudgeStale, LP!IsStale, Lock!IsStale, LP!Refuse, Lock!Refuse,
    LP!Unlink, Lock!Unlink, LP!UnlinkFails, Lock!UnlinkFails,
    LP!NextAttempt, Lock!NextAttempt, LP!Release, Lock!Release,
    LP!Crash, Lock!Crash, LP!Tick, Lock!Tick, LP!Goto, Lock!Goto

LEMMA TypeInit == Init => TypeOK
BY AgentTypeInit, LP!TypeInit, LockAssumption
DEF TypeOK, Init, LP!TypeOK, Lock!TypeOK, LP!Init, Lock!Init, LP!Attempts, Lock!Attempts

LEMMA TypeStep ==
  ASSUME TypeOK, [Next]_vars
  PROVE  TypeOK'
BY LockTypeStep, AgentTypeStep DEF TypeOK

\* Every variable keeps its type: the lock's, the two files, and what each run
\* knows, whatever fails, crashes or is edited.
THEOREM TypeCorrect == Spec => []TypeOK
<1>1. TypeOK /\ [Next]_vars => TypeOK'
  BY TypeStep
<1> QED
  BY TypeInit, <1>1, PTL DEF Spec

-----------------------------------------------------------------------------
(***************************************************************************)
(* The old pair stays on disk until the new one is complete                *)
(***************************************************************************)

\* a run has steps to take only while it holds the lock
AtHome == \A p \in Procs : pc[p] # "holding" => at[p] = "classify"

\* Where the old document and the old record are, step by step.
OldPair(p) ==
  /\ at[p] \in {"resolve", "stage", "backupTarget"} => before[p] = pair
  /\ at[p] = "backupTarget" /\ "record" \notin had[p] => record = Absent
  /\ at[p] = "backupRecord" =>
       before[p][1] \in {Absent, targetBackup[p]} /\ before[p][2] = record
  /\ at[p] \in {"putTarget", "putRecord", "removeNew", "restoreRecord"} =>
       /\ before[p][1] \in {Absent, targetBackup[p]}
       /\ before[p][2] \in {Absent, recordBackup[p]}
  /\ at[p] = "restoreTarget" =>
       /\ before[p][1] \in {Absent, targetBackup[p]}
       /\ before[p][2] \in {Absent, record, recordBackup[p]}
  /\ at[p] = "end" /\ ~Changed(p) =>
       /\ before[p][1] \in {Absent, target, targetBackup[p]}
       /\ before[p][2] \in {Absent, record, recordBackup[p]}
  /\ at[p] = "dropBackups" => Changed(p)

PriorInv == \A p \in Procs : Working(p) => OldPair(p)

LEMMA AtHomeStep ==
  ASSUME TypeOK, AtHome, [Next]_vars
  PROVE  AtHome'
<1> USE DEF AtHome, AgentTypeOK, TypeOK, Lock!TypeOK
<1>1. ASSUME NEW p \in Procs, Start(p) PROVE AtHome'
  BY <1>1 DEF Start, Lock!Begin, Lock!Goto, agentVars
<1>2. ASSUME NEW p \in Procs, AcquireStep(p) PROVE AtHome'
  BY <1>2 DEF AcquireStep, agentVars, Lock!Acquire, Lock!CreateNew, Lock!FindTaken,
     Lock!CreateFails, Lock!WritePid, Lock!JudgeStale, Lock!Refuse, Lock!Unlink,
     Lock!UnlinkFails, Lock!NextAttempt, Lock!Goto
<1>3. ASSUME NEW p \in Procs, WorkStep(p) PROVE AtHome'
  <2>1. pc' = pc
    BY <1>3, WorkLeavesLock DEF lockVars
  <2>2. pc[p] = "holding" /\ \E label : Goto(p, label)
    BY <1>3 DEF WorkStep, Classify, Resolve, Stage, BackupTarget, BackupRecord, PutTarget,
       PutRecord, RemoveNew, RestoreRecord, RestoreTarget, DropBackups, Leave,
       At, Fail, FailGone, Fault
  <2> QED
    BY <2>1, <2>2 DEF Goto
<1>4. ASSUME NEW p \in Procs, Finish(p) \/ Crash(p) PROVE AtHome'
  BY <1>4 DEF Finish, Crash, Forget, Goto, Lock!Release, Lock!Crash, Lock!Goto
<1>5. CASE Tick \/ UserChanges \/ UNCHANGED vars
  BY <1>5 DEF Tick, Lock!Tick, UserChanges, vars, lockVars, agentVars
<1> QED
  BY <1>1, <1>2, <1>3, <1>4, <1>5 DEF Next, RunStep

\* the steps of the run that holds the lock
LEMMA OldPairStep ==
  ASSUME TypeOK, NEW p \in Procs, WorkStep(p), Working(p) => OldPair(p)
  PROVE  OldPair(p)'
<1> USE ContentAssumption
    DEF OldPair, Changed, Working, AgentTypeOK, TypeOK, At, Goto, Fail, FailGone, Fault, pair,
        report, backups
<1>1. ASSUME NEW kind \in Kinds, Classify(p, kind) PROVE OldPair(p)'
  BY <1>1 DEF Classify, Present, Report, Ownership, Proceeds
<1>2. CASE Resolve(p)
  BY <1>2 DEF Resolve, Report
<1>3. CASE Stage(p)
  BY <1>3 DEF Stage, Present, FirstRename, Report
<1>4. CASE BackupTarget(p)
  BY <1>4 DEF BackupTarget, Report
<1>5. CASE BackupRecord(p)
  BY <1>5 DEF BackupRecord, Restore, Report
<1>6. CASE PutTarget(p)
  BY <1>6 DEF PutTarget, Restore, Report
<1>7. CASE PutRecord(p)
  BY <1>7 DEF PutRecord, Report
<1>8. CASE RemoveNew(p)
  BY <1>8 DEF RemoveNew, Restore
<1>9. CASE RestoreRecord(p)
  BY <1>9 DEF RestoreRecord, Restore
<1>10. CASE RestoreTarget(p)
  BY <1>10 DEF RestoreTarget
<1>11. CASE DropBackups(p)
  BY <1>11 DEF DropBackups, Leave, Report
<1> QED
  BY <1>1, <1>2, <1>3, <1>4, <1>5, <1>6, <1>7, <1>8, <1>9, <1>10, <1>11 DEF WorkStep

LEMMA PriorStep ==
  ASSUME TypeOK, AtHome, Lock!MutualExclusion, PriorInv, [QuietNext]_vars
  PROVE  PriorInv'
<1> USE DEF PriorInv, Working
<1>1. ASSUME NEW p \in Procs, Start(p) PROVE PriorInv'
  <2>1. ASSUME NEW q \in Procs, Working(q)' PROVE Working(q) /\ UNCHANGED agentVars
    BY <1>1, <2>1 DEF Start, Lock!Begin, Lock!Goto, agentVars, TypeOK, Lock!TypeOK
  <2> QED
    BY <1>1, <2>1 DEF OldPair, Changed, agentVars, pair, backups, report
<1>2. ASSUME NEW p \in Procs, AcquireStep(p) PROVE PriorInv'
  <2>1. ASSUME NEW q \in Procs, Working(q)' PROVE Working(q) /\ UNCHANGED agentVars
    BY <1>2, <2>1 DEF AcquireStep, agentVars, AtHome, TypeOK, Lock!TypeOK,
       Lock!Acquire, Lock!CreateNew, Lock!FindTaken, Lock!CreateFails, Lock!WritePid,
       Lock!JudgeStale, Lock!Refuse, Lock!Unlink, Lock!UnlinkFails, Lock!NextAttempt,
       Lock!Goto
  <2> QED
    BY <2>1 DEF OldPair, Changed, agentVars, pair, backups, report
<1>3. ASSUME NEW p \in Procs, WorkStep(p) PROVE PriorInv'
  <2>1. pc' = pc /\ pc[p] = "holding"
    BY <1>3, WorkLeavesLock
    DEF lockVars, WorkStep, Classify, Resolve, Stage, BackupTarget, BackupRecord,
        PutTarget, PutRecord, RemoveNew, RestoreRecord, RestoreTarget, DropBackups, Leave, At
  <2>2. \A q \in Procs : Working(q)' => q = p
    BY <2>1 DEF Lock!MutualExclusion, Lock!Held
  <2>3. OldPair(p)'
    BY <1>3, OldPairStep
  <2> QED
    BY <2>2, <2>3
<1>4. ASSUME NEW p \in Procs, Finish(p) \/ Crash(p) PROVE PriorInv'
  <2>1. ASSUME NEW q \in Procs, Working(q)'
        PROVE  /\ q # p /\ Working(q)
               /\ UNCHANGED <<pair, at[q], had[q], targetBackup[q], recordBackup[q],
                              result[q], before[q]>>
    BY <1>4, <2>1
    DEF Finish, Crash, Forget, Goto, Report, Lock!Release, Lock!Crash, Lock!Goto,
        TypeOK, Lock!TypeOK, AgentTypeOK, pair
  <2> QED
    BY <2>1 DEF OldPair, Changed, pair
<1>5. CASE Idle /\ UserChanges
  BY <1>5 DEF Idle, UserChanges, lockVars
<1>6. CASE Tick \/ UNCHANGED vars
  BY <1>6 DEF Tick, Lock!Tick, vars, lockVars, agentVars, OldPair, Changed, pair, backups, report
<1> QED
  BY <1>1, <1>2, <1>3, <1>4, <1>5, <1>6 DEF QuietNext, RunStep

\* there is only one process that runs the command
OneAtATime == \A p, q \in Procs : p = q

LEMMA PriorInit == Init => AtHome /\ PriorInv
BY DEF Init, All, Lock!Init, AtHome, PriorInv, Working

LEMMA PriorPair == TypeOK /\ PriorInv => PriorPairOnDisk
<1> SUFFICES ASSUME TypeOK, PriorInv, NEW p \in Undecided
             PROVE  /\ before[p][1] \in {Absent, target, targetBackup[p]}
                    /\ before[p][2] \in {Absent, record, recordBackup[p]}
  BY DEF PriorPairOnDisk
<1>1. p \in Procs /\ OldPair(p) /\ ~Changed(p) /\ Working(p)
  BY DEF PriorInv, Undecided
<1>2. at[p] \in Labels \ {"classify", "dropBackups"}
  BY <1>1 DEF OldPair, Working, TypeOK, AgentTypeOK
<1>3. CASE at[p] \in {"resolve", "stage", "backupTarget"}
  BY <1>1, <1>3 DEF OldPair, Changed, pair
<1>4. CASE at[p] \notin {"resolve", "stage", "backupTarget"}
  BY <1>1, <1>2, <1>4 DEF OldPair, Labels
<1> QED
  BY <1>3, <1>4

\* One command at a time: whatever fails, wherever it is killed and however
\* stale its lock, the pair it found is still on disk until it has put the
\* complete new one in its place.
THEOREM PriorPairKept == OneAtATime /\ QuietSpec => []PriorPairOnDisk
<1>1. /\ OneAtATime /\ TypeOK /\ AtHome /\ PriorInv /\ [QuietNext]_vars
      => OneAtATime' /\ TypeOK' /\ AtHome' /\ PriorInv'
  BY TypeStep, AtHomeStep, PriorStep, QuietIsNext DEF OneAtATime, Lock!MutualExclusion
<1> QED
  BY TypeInit, PriorInit, PriorPair, <1>1, PTL DEF QuietSpec

LEMMA TimelyLockInv ==
  ASSUME LP!TimelyInv, [TimelyNext]_vars
  PROVE  LP!TimelyInv'
BY TimelyLockStep, LP!TimelyStep, LockAssumption
DEF LP!TimelyInv, LP!IInv, LP!HoldersOwn, LP!FreshLock, LP!Held, Lock!Held,
    LP!InTime, Lock!InTime,
    LP!TypeOK, Lock!TypeOK, LP!TimelyNext, Lock!TimelyNext, LP!lockVars, Lock!lockVars,
    lockVars,
    LP!Attempts, Lock!Attempts, LP!Step, Lock!Step, LP!Acquire, Lock!Acquire,
    LP!Begin, Lock!Begin, LP!CreateNew, Lock!CreateNew, LP!FindTaken, Lock!FindTaken,
    LP!CreateFails, Lock!CreateFails, LP!WritePid, Lock!WritePid,
    LP!JudgeStale, Lock!JudgeStale, LP!IsStale, Lock!IsStale, LP!Refuse, Lock!Refuse,
    LP!Unlink, Lock!Unlink, LP!UnlinkFails, Lock!UnlinkFails,
    LP!NextAttempt, Lock!NextAttempt, LP!Release, Lock!Release,
    LP!Crash, Lock!Crash, LP!Tick, Lock!Tick, LP!Goto, Lock!Goto

LEMMA TimelyLockInit == Init => LP!TimelyInv
BY LP!TimelyInit, LockAssumption
DEF Init, LP!Init, Lock!Init, LP!TimelyInv, LP!IInv, LP!HoldersOwn, LP!FreshLock, LP!Held,
    LP!TypeOK, LP!Attempts

LEMMA TimelyExcludes == LP!TimelyInv => Lock!MutualExclusion
BY LockAssumption
DEF LP!TimelyInv, LP!IInv, LP!FreshLock, LP!HoldersOwn, LP!Held, Lock!Held,
    Lock!MutualExclusion

\* Any number of commands that finish while their lock is fresh: none of them
\* loses the pair another one is replacing.
THEOREM PriorPairKeptByAll == TimelySpec => []PriorPairOnDisk
<1>1. TypeOK /\ AtHome /\ PriorInv /\ LP!TimelyInv /\ [TimelyNext]_vars
        => TypeOK' /\ AtHome' /\ PriorInv' /\ LP!TimelyInv'
  BY TypeStep, AtHomeStep, PriorStep, TimelyLockInv, TimelyExcludes, TimelyIsNext,
     QuietIsNext
<1> QED
  BY TypeInit, PriorInit, PriorPair, TimelyLockInit, <1>1, PTL DEF TimelySpec

LEMMA TimelyAbstractStep ==
  ASSUME LP!TimelyInv, [TimelyNext]_vars
  PROVE  [Lock!Lock!Next]_(Lock!Holders)
<1> [Lock!TimelyNext]_lockVars
  BY TimelyLockStep
<1> QED
  BY LP!AbstractStep, LockAssumption
  DEF LP!TimelyInv, LP!IInv, LP!HoldersOwn, LP!FreshLock, LP!Held, Lock!Held,
      LP!InTime, Lock!InTime, LP!Holders, Lock!Holders,
      LP!TypeOK, Lock!TypeOK, LP!TimelyNext, Lock!TimelyNext, LP!lockVars, Lock!lockVars,
      lockVars, LP!Attempts, LP!Step, Lock!Step, LP!Acquire, Lock!Acquire,
      LP!Begin, Lock!Begin, LP!CreateNew, Lock!CreateNew, LP!FindTaken, Lock!FindTaken,
      LP!CreateFails, Lock!CreateFails, LP!WritePid, Lock!WritePid,
      LP!JudgeStale, Lock!JudgeStale, LP!IsStale, Lock!IsStale, LP!Refuse, Lock!Refuse,
      LP!Unlink, Lock!Unlink, LP!UnlinkFails, Lock!UnlinkFails,
      LP!NextAttempt, Lock!NextAttempt, LP!Release, Lock!Release,
      LP!Crash, Lock!Crash, LP!Tick, Lock!Tick, LP!Goto, Lock!Goto,
      LP!Lock!Next, Lock!Lock!Next, LP!Lock!Acquire, Lock!Lock!Acquire,
      LP!Lock!Release, Lock!Lock!Release

\* Commands that finish while their lock is fresh use it as an exclusive lock.
THEOREM LockExclusive == TimelySpec => LockIsExclusive
<1>1. Init => Lock!Lock!Init
  BY DEF Init, Lock!Init, Lock!Lock!Init, Lock!Holders, Lock!Held
<1>2. LP!TimelyInv /\ [TimelyNext]_vars => LP!TimelyInv'
  BY TimelyLockInv
<1>3. LP!TimelyInv /\ [TimelyNext]_vars => [Lock!Lock!Next]_(Lock!Holders)
  BY TimelyAbstractStep
<1> QED
  BY TimelyLockInit, <1>1, <1>2, <1>3, PTL
  DEF TimelySpec, LockIsExclusive, Lock!ImplementsExclusiveLock, Lock!Lock!Spec

-----------------------------------------------------------------------------
(***************************************************************************)
(* The user's document                                                     *)
(***************************************************************************)

\* a run that has something to do has not found a document of the user's
NoUserDoc ==
  \A p \in Procs : /\ Working(p) /\ at[p] # "end" => target # UserDoc
                   /\ targetBackup[p] # UserDoc

LEMMA NoUserDocStep ==
  ASSUME TypeOK, AtHome, Lock!MutualExclusion, NoUserDoc, [QuietNext]_vars
  PROVE  NoUserDoc'
<1> USE ContentAssumption DEF NoUserDoc, Working, AgentTypeOK, TypeOK, pair, backups
<1>1. ASSUME NEW p \in Procs, Start(p) PROVE NoUserDoc'
  BY <1>1 DEF Start, Lock!Begin, Lock!Goto, agentVars, Lock!TypeOK
<1>2. ASSUME NEW p \in Procs, AcquireStep(p) PROVE NoUserDoc'
  BY <1>2 DEF AcquireStep, agentVars, AtHome, Lock!TypeOK,
     Lock!Acquire, Lock!CreateNew, Lock!FindTaken, Lock!CreateFails, Lock!WritePid,
     Lock!JudgeStale, Lock!Refuse, Lock!Unlink, Lock!UnlinkFails, Lock!NextAttempt,
     Lock!Goto
<1>3. ASSUME NEW p \in Procs, WorkStep(p) PROVE NoUserDoc'
  <2>1. pc' = pc /\ pc[p] = "holding"
    BY <1>3, WorkLeavesLock
    DEF lockVars, WorkStep, Classify, Resolve, Stage, BackupTarget, BackupRecord,
        PutTarget, PutRecord, RemoveNew, RestoreRecord, RestoreTarget, DropBackups, Leave, At
  <2>2. \A q \in Procs : Working(q)' => q = p
    BY <2>1 DEF Lock!MutualExclusion, Lock!Held
  <2>3. /\ at'[p] \notin {"classify", "end"} => target' # UserDoc
        /\ targetBackup'[p] # UserDoc
    <3> USE <2>1 DEF At, Goto, Fail, FailGone, Fault
    <3>1. ASSUME NEW kind \in Kinds, Classify(p, kind)
          PROVE  /\ at'[p] # "end" => target' # UserDoc
                 /\ targetBackup' = targetBackup
      BY <3>1 DEF Classify, Ownership, Proceeds
    <3>2. ASSUME Resolve(p) \/ Stage(p) \/ PutRecord(p) \/ BackupRecord(p) \/ RestoreRecord(p)
          PROVE  /\ target' = target /\ at[p] \notin {"classify", "end"}
                 /\ targetBackup' = targetBackup
      BY <3>2 DEF Resolve, Stage, PutRecord, BackupRecord, RestoreRecord
    <3>3. CASE BackupTarget(p)
      BY <3>3 DEF BackupTarget
    <3>4. CASE PutTarget(p)
      BY <3>4 DEF PutTarget
    <3>5. CASE RemoveNew(p)
      BY <3>5 DEF RemoveNew
    <3>6. CASE RestoreTarget(p)
      BY <3>6 DEF RestoreTarget
    <3>7. CASE DropBackups(p)
      BY <3>7 DEF DropBackups, Leave, Report
    <3> QED
      BY <1>3, <3>1, <3>2, <3>3, <3>4, <3>5, <3>6, <3>7 DEF WorkStep
  <2>4. \A q \in Procs \ {p} : targetBackup'[q] = targetBackup[q]
    BY <1>3
    DEF WorkStep, Classify, Resolve, Stage, BackupTarget, BackupRecord,
        PutTarget, PutRecord, RemoveNew, RestoreRecord, RestoreTarget, DropBackups, Leave
  <2> QED
    BY <2>2, <2>3, <2>4
<1>4. ASSUME NEW p \in Procs, Finish(p) \/ Crash(p) PROVE NoUserDoc'
  BY <1>4
  DEF Finish, Crash, Forget, Goto, Report, Lock!Release, Lock!Crash, Lock!Goto, Lock!TypeOK
<1>5. CASE Idle /\ UserChanges
  BY <1>5 DEF Idle, UserChanges, lockVars
<1>6. CASE Tick \/ UNCHANGED vars
  BY <1>6 DEF Tick, Lock!Tick, vars, lockVars, agentVars
<1> QED
  BY <1>1, <1>2, <1>3, <1>4, <1>5, <1>6 DEF QuietNext, RunStep

LEMMA UserDocStep ==
  ASSUME TypeOK, NoUserDoc, [QuietNext]_vars, target = UserDoc
  PROVE  target' = UserDoc \/ UserChanges
<1>1. ASSUME NEW p \in Procs, WorkStep(p) PROVE target' = target
  <2>1. Working(p) => at[p] = "end"
    BY DEF NoUserDoc
  <2>2. PICK kind \in Kinds : Classify(p, kind)
    BY <1>1, <2>1
    DEF Working, At, WorkStep, Resolve, Stage, BackupTarget, BackupRecord, PutTarget,
        PutRecord, RemoveNew, RestoreRecord, RestoreTarget, DropBackups, Leave
  <2> QED
    BY <2>2 DEF Classify, pair
<1> QED
  BY <1>1
  DEF QuietNext, RunStep, Start, AcquireStep, Finish, Crash, Tick, vars, agentVars, pair

LEMMA NoUserDocInit == Init => NoUserDoc
BY ContentAssumption DEF Init, All, Lock!Init, NoUserDoc, Working

\* One command at a time, and a user who does not write the document under its
\* hands: no step of bl replaces, moves or removes a document that is not bl's.
THEOREM UserDocSafe == OneAtATime /\ QuietSpec => UserDocKept
<1>1. /\ OneAtATime /\ TypeOK /\ AtHome /\ NoUserDoc /\ [QuietNext]_vars
      => OneAtATime' /\ TypeOK' /\ AtHome' /\ NoUserDoc'
  BY TypeStep, AtHomeStep, NoUserDocStep, QuietIsNext DEF OneAtATime, Lock!MutualExclusion
<1>2. TypeOK /\ NoUserDoc /\ [QuietNext]_vars
        => [target = UserDoc => target' = UserDoc \/ UserChanges]_vars
  BY UserDocStep
<1> QED
  BY TypeInit, PriorInit, NoUserDocInit, <1>1, <1>2, PTL DEF QuietSpec, UserDocKept

\* The same for any number of commands that finish while their lock is fresh.
THEOREM UserDocSafeFromAll == TimelySpec => UserDocKept
<1>1. TypeOK /\ AtHome /\ NoUserDoc /\ LP!TimelyInv /\ [TimelyNext]_vars
        => TypeOK' /\ AtHome' /\ NoUserDoc' /\ LP!TimelyInv'
  BY TypeStep, AtHomeStep, NoUserDocStep, TimelyLockInv, TimelyExcludes, TimelyIsNext,
     QuietIsNext
<1>2. TypeOK /\ NoUserDoc /\ [TimelyNext]_vars
        => [target = UserDoc => target' = UserDoc \/ UserChanges]_vars
  BY UserDocStep, TimelyIsNext
<1> QED
  BY TypeInit, PriorInit, NoUserDocInit, TimelyLockInit, <1>1, <1>2, PTL
  DEF TimelySpec, UserDocKept

-----------------------------------------------------------------------------
(***************************************************************************)
(* All or nothing, with at most one failing file operation                 *)
(***************************************************************************)

\* a run that has not begun knows nothing and has met no failure
Fresh ==
  \A p \in Procs : at[p] = "classify" =>
    /\ faults[p] = 0 /\ result[p] = "running"
    /\ targetBackup[p] = Absent /\ recordBackup[p] = Absent

\* the run knows which of the two files it found
Matches(p) ==
  /\ "target" \in had[p] <=> before[p][1] # Absent
  /\ "record" \in had[p] <=> before[p][2] # Absent

\* Both files are where the run put them, step by step; `had' says which of
\* them restore_pair has to put back.
Exact(p) ==
  /\ at[p] \in {"resolve", "stage", "backupTarget", "backupRecord", "putTarget", "putRecord",
                "dropBackups"} => faults[p] = 0
  /\ at[p] \in {"removeNew", "restoreRecord", "restoreTarget"} => faults[p] > 0
  /\ at[p] \notin {"dropBackups", "end"} => ~Changed(p)
  /\ at[p] \in {"resolve", "stage", "backupTarget"} =>
       /\ pair = before[p]
       /\ targetBackup[p] = Absent /\ recordBackup[p] = Absent
  /\ at[p] \in {"backupTarget", "backupRecord", "putTarget", "putRecord", "removeNew",
                "restoreRecord", "restoreTarget"} => Matches(p)
  /\ at[p] = "backupTarget" => target # Absent
  /\ at[p] = "backupRecord" =>
       /\ target = Absent /\ record = before[p][2] /\ record # Absent
       /\ targetBackup[p] = before[p][1] /\ recordBackup[p] = Absent
  /\ at[p] \in {"putTarget", "restoreRecord"} => target = Absent
  /\ at[p] \in {"putRecord", "removeNew"} => target = goal[p]
  /\ at[p] \in {"putTarget", "putRecord", "removeNew", "restoreRecord"} =>
       /\ record = Absent
       /\ targetBackup[p] = before[p][1] /\ recordBackup[p] = before[p][2]
  /\ at[p] = "restoreTarget" =>
       /\ target = Absent /\ record = before[p][2]
       /\ targetBackup[p] = before[p][1] /\ recordBackup[p] = Absent
  /\ at[p] = "dropBackups" => result[p] = "done" /\ pair = <<goal[p], goal[p]>>
  /\ at[p] = "end" =>
       /\ pair = IF Changed(p) THEN <<goal[p], goal[p]>> ELSE before[p]
       /\ result[p] = "leftover" <=> targetBackup[p] # Absent \/ recordBackup[p] # Absent

Atomic == \A p \in Procs : Working(p) /\ faults[p] <= 1 => Exact(p)

LEMMA WorkGoesOn ==
  ASSUME NEW p \in Procs, WorkStep(p)
  PROVE  \E label \in Labels \ {"classify"} : Goto(p, label)
BY Zenon DEF WorkStep, Classify, Resolve, Stage, BackupTarget, BackupRecord, PutTarget,
       PutRecord, RemoveNew, RestoreRecord, RestoreTarget, DropBackups, Leave,
       At, Fail, FailGone, Fault, Restore, FirstRename, Labels

LEMMA FreshStep ==
  ASSUME TypeOK, Fresh, [Next]_vars
  PROVE  Fresh'
<1> USE DEF Fresh, AgentTypeOK, TypeOK
<1>1. ASSUME NEW p \in Procs, WorkStep(p) PROVE Fresh'
  <2>1. \E label \in Labels \ {"classify"} : Goto(p, label)
    BY <1>1, WorkGoesOn
  <2>2. \A q \in Procs \ {p} : /\ faults'[q] = faults[q] /\ result'[q] = result[q]
                               /\ targetBackup'[q] = targetBackup[q]
                               /\ recordBackup'[q] = recordBackup[q]
    BY <1>1 DEF WorkStep, Classify, Resolve, Stage, BackupTarget, BackupRecord, PutTarget,
       PutRecord, RemoveNew, RestoreRecord, RestoreTarget, DropBackups, Leave,
       Fail, FailGone, Fault, backups, report, Report
  <2> QED
    BY <2>1, <2>2 DEF Goto
<1>2. ASSUME NEW p \in Procs, Finish(p) \/ Crash(p) PROVE Fresh'
  BY <1>2 DEF Finish, Crash, Forget, Goto, Report
<1>3. CASE \/ \E p \in Procs : Start(p) \/ AcquireStep(p)
           \/ Tick \/ UserChanges \/ UNCHANGED vars
  BY <1>3 DEF Start, AcquireStep, Tick, UserChanges, vars, agentVars, backups, report
<1> QED
  BY <1>1, <1>2, <1>3 DEF Next, RunStep

\* the steps of the run that holds the lock
LEMMA ExactStep ==
  ASSUME TypeOK, Fresh, NEW p \in Procs, WorkStep(p),
         Working(p) /\ faults[p] <= 1 => Exact(p), faults'[p] <= 1
  PROVE  Exact(p)'
<1> USE ContentAssumption
    DEF Exact, Matches, Changed, Working, AgentTypeOK, TypeOK, At, Goto, Fail, FailGone, Fault,
        pair, report, backups
<1>1. ASSUME NEW kind \in Kinds, Classify(p, kind) PROVE Exact(p)'
  BY <1>1 DEF Classify, Present, Report, Ownership, Proceeds, Fresh
<1>2. CASE Resolve(p)
  BY <1>2 DEF Resolve, Report
<1>3. CASE Stage(p)
  BY <1>3 DEF Stage, Present, FirstRename, Report
<1>4. CASE BackupTarget(p)
  BY <1>4 DEF BackupTarget, Report
<1>5. CASE BackupRecord(p)
  BY <1>5 DEF BackupRecord, Restore, Report
<1>6. CASE PutTarget(p)
  BY <1>6 DEF PutTarget, Restore, Report
<1>7. CASE PutRecord(p)
  BY <1>7 DEF PutRecord, Report
<1>8. CASE RemoveNew(p)
  BY <1>8 DEF RemoveNew, Restore
<1>9. CASE RestoreRecord(p)
  BY <1>9 DEF RestoreRecord, Restore
<1>10. CASE RestoreTarget(p)
  BY <1>10 DEF RestoreTarget
<1>11. CASE DropBackups(p)
  BY <1>11 DEF DropBackups, Leave, Report
<1> QED
  BY <1>1, <1>2, <1>3, <1>4, <1>5, <1>6, <1>7, <1>8, <1>9, <1>10, <1>11 DEF WorkStep

\* what a run knows, and the pair
View(p) == <<pair, at[p], goal[p], had[p], targetBackup[p], recordBackup[p], faults[p],
             result[p], before[p]>>

\* A run at work goes on with a step of its own, or nothing happens to it.
LEMMA OwnStep ==
  ASSUME TypeOK, AtHome, Lock!MutualExclusion, [QuietNext]_vars,
         NEW p \in Procs, Working(p)'
  PROVE  WorkStep(p) \/ (Working(p) /\ UNCHANGED View(p))
<1> USE DEF Working, View
<1>1. ASSUME NEW q \in Procs, Start(q)
      PROVE  Working(p) /\ UNCHANGED View(p)
  BY <1>1 DEF Start, Lock!Begin, Lock!Goto, agentVars, TypeOK, Lock!TypeOK, backups, report
<1>2. ASSUME NEW q \in Procs, AcquireStep(q)
      PROVE  Working(p) /\ UNCHANGED View(p)
  BY <1>2
  DEF AcquireStep, agentVars, AtHome, TypeOK, Lock!TypeOK, backups, report,
      Lock!Acquire, Lock!CreateNew, Lock!FindTaken, Lock!CreateFails, Lock!WritePid,
      Lock!JudgeStale, Lock!Refuse, Lock!Unlink, Lock!UnlinkFails, Lock!NextAttempt,
      Lock!Goto
<1>3. ASSUME NEW q \in Procs, WorkStep(q) PROVE q = p
  <2>1. pc' = pc /\ pc[q] = "holding"
    BY <1>3, WorkLeavesLock
    DEF lockVars, WorkStep, Classify, Resolve, Stage, BackupTarget, BackupRecord,
        PutTarget, PutRecord, RemoveNew, RestoreRecord, RestoreTarget, DropBackups, Leave, At
  <2> QED
    BY <2>1 DEF Lock!MutualExclusion, Lock!Held
<1>4. ASSUME NEW q \in Procs, Finish(q) \/ Crash(q)
      PROVE  Working(p) /\ UNCHANGED View(p)
  BY <1>4
  DEF Finish, Crash, Forget, Goto, Report, Lock!Release, Lock!Crash, Lock!Goto,
      TypeOK, Lock!TypeOK, AgentTypeOK, pair
<1>5. CASE Idle /\ UserChanges
  BY <1>5 DEF Idle, UserChanges, lockVars
<1>6. CASE Tick \/ UNCHANGED vars
  BY <1>6 DEF Tick, Lock!Tick, vars, lockVars, agentVars, pair, backups, report
<1> QED
  BY <1>1, <1>2, <1>3, <1>4, <1>5, <1>6 DEF QuietNext, RunStep

LEMMA AtomicStep ==
  ASSUME TypeOK, AtHome, Lock!MutualExclusion, Fresh, Atomic, [QuietNext]_vars
  PROVE  Atomic'
<1> SUFFICES ASSUME NEW p \in Procs, Working(p)', faults'[p] <= 1
             PROVE  Exact(p)'
  BY DEF Atomic
<1>1. CASE WorkStep(p)
  BY <1>1, ExactStep DEF Atomic
<1>2. CASE Working(p) /\ UNCHANGED View(p)
  <2>1. Exact(p)
    BY <1>2 DEF Atomic, View
  <2> QED
    BY <1>2, <2>1 DEF View, Exact, Changed, Matches, pair
<1> QED
  BY <1>1, <1>2, OwnStep

LEMMA AtomicInit == Init => Fresh /\ Atomic
BY DEF Init, All, Lock!Init, Fresh, Atomic, Working

LEMMA ExactEnd == Atomic => FailureIsAtomic
BY DEF Atomic, Exact, FailureIsAtomic, Changed, At, Working

\* One command at a time, which may be killed anywhere: a command that met at
\* most one failing file operation has changed document and record as asked, or
\* has put back both, and its report tells which; of the errors, only one, that a
\* backup is left, comes with the new pair.
THEOREM AllOrNothing == OneAtATime /\ QuietSpec => []FailureIsAtomic
<1>1. /\ OneAtATime /\ TypeOK /\ AtHome /\ Fresh /\ Atomic /\ [QuietNext]_vars
      => OneAtATime' /\ TypeOK' /\ AtHome' /\ Fresh' /\ Atomic'
  BY TypeStep, AtHomeStep, FreshStep, AtomicStep, QuietIsNext
  DEF OneAtATime, Lock!MutualExclusion
<1> QED
  BY TypeInit, PriorInit, AtomicInit, ExactEnd, <1>1, PTL DEF QuietSpec

\* The same for any number of commands that finish while their lock is fresh.
THEOREM AllOrNothingOfAll == TimelySpec => []FailureIsAtomic
<1>1. TypeOK /\ AtHome /\ Fresh /\ Atomic /\ LP!TimelyInv /\ [TimelyNext]_vars
        => TypeOK' /\ AtHome' /\ Fresh' /\ Atomic' /\ LP!TimelyInv'
  BY TypeStep, AtHomeStep, FreshStep, AtomicStep, TimelyLockInv, TimelyExcludes,
     TimelyIsNext, QuietIsNext
<1> QED
  BY TypeInit, PriorInit, AtomicInit, ExactEnd, TimelyLockInit, <1>1, PTL DEF TimelySpec

-----------------------------------------------------------------------------
(***************************************************************************)
(* A record vouches for the document beside it, unless a run was torn      *)
(***************************************************************************)

\* a document of the marketplace's has its own record beside it, or a foreign one
Whole(q) == q[1] \in Versions => q[2] \in {q[1], Foreign}

WholeInv ==
  ~torn => /\ Idle => Whole(pair)
           /\ \A p \in Procs : Working(p) => Whole(before[p])

\* where a run that met at most one failure may stop and leave a whole pair
LEMMA ExactIsWhole ==
  ASSUME TypeOK, NEW p \in Procs, Working(p), Exact(p), Whole(before[p])
  PROVE  at[p] \notin {"putRecord", "removeNew"} => Whole(pair)
<1>1. at[p] \in Labels \ {"classify"} /\ goal[p] \in Versions \cup {Absent}
  BY DEF TypeOK, AgentTypeOK, Working
<1>2. pair = before[p] \/ target = Absent \/ pair = <<goal[p], goal[p]>>
        \/ at[p] \in {"putRecord", "removeNew"}
  BY <1>1 DEF Exact, Labels
<1> QED
  BY <1>1, <1>2, ContentAssumption DEF Whole, pair

LEMMA WholeStep ==
  ASSUME TypeOK, AtHome, Lock!MutualExclusion, Fresh, Atomic, WholeInv, [QuietNext]_vars
  PROVE  WholeInv'
<1> SUFFICES ASSUME ~torn' PROVE (/\ Idle => Whole(pair)
                                  /\ \A p \in Procs : Working(p) => Whole(before[p]))'
  BY DEF WholeInv
<1>1. ~torn
  BY DEF QuietNext, RunStep, Start, AcquireStep, WorkStep, Classify, Resolve, Stage,
     BackupTarget, BackupRecord, PutTarget, PutRecord, RemoveNew, RestoreRecord,
     RestoreTarget, DropBackups, Leave, Finish, Crash, UserChanges, Tick, vars, agentVars
<1>2. ASSUME NEW p \in Procs, Working(p)' PROVE Whole(before[p])'
  <2>1. CASE Working(p) /\ UNCHANGED View(p)
    BY <1>1, <2>1 DEF WholeInv, View, Whole
  <2>2. CASE WorkStep(p) /\ Working(p)
    BY <1>1, <2>2
    DEF WholeInv, Whole, Working, WorkStep, Classify, Resolve, Stage, BackupTarget,
        BackupRecord, PutTarget, PutRecord, RemoveNew, RestoreRecord, RestoreTarget,
        DropBackups, At
  <2>3. CASE WorkStep(p) /\ ~Working(p)
    <3>1. PICK kind \in Kinds : Classify(p, kind)
      BY <2>3
      DEF Working, At, WorkStep, Resolve, Stage, BackupTarget, BackupRecord, PutTarget,
          PutRecord, RemoveNew, RestoreRecord, RestoreTarget, DropBackups, Leave
    <3>2. Idle
      BY <3>1 DEF Idle, Classify, At, Working, Lock!MutualExclusion, Lock!Held
    <3> QED
      BY <1>1, <3>1, <3>2 DEF WholeInv, Whole, Classify, TypeOK, AgentTypeOK
  <2> QED
    BY <1>2, <2>1, <2>2, <2>3, OwnStep
<1>3. ASSUME Idle' PROVE Whole(pair)'
  <2> USE DEF Idle, Working, TypeOK, Lock!TypeOK, AgentTypeOK
  <2>1. ASSUME NEW p \in Procs, Start(p) PROVE Idle /\ pair' = pair
    BY <1>3, <2>1 DEF Start, Lock!Begin, Lock!Goto, agentVars
  <2>2. ASSUME NEW p \in Procs, AcquireStep(p) PROVE Idle /\ pair' = pair
    BY <1>3, <2>2
    DEF AcquireStep, agentVars, AtHome, Lock!Acquire, Lock!CreateNew, Lock!FindTaken,
        Lock!CreateFails, Lock!WritePid, Lock!JudgeStale, Lock!Refuse, Lock!Unlink,
        Lock!UnlinkFails, Lock!NextAttempt, Lock!Goto
  <2>3. ASSUME NEW p \in Procs, WorkStep(p) PROVE FALSE
    <3>1. \E label \in Labels \ {"classify"} : Goto(p, label)
      BY <2>3, WorkGoesOn
    <3>2. pc' = pc /\ pc[p] = "holding"
      BY <2>3, WorkLeavesLock
      DEF lockVars, WorkStep, Classify, Resolve, Stage, BackupTarget, BackupRecord,
          PutTarget, PutRecord, RemoveNew, RestoreRecord, RestoreTarget, DropBackups, Leave, At
    <3> QED
      BY <1>3, <3>1, <3>2 DEF Goto
  <2>4. ASSUME NEW p \in Procs, Finish(p) \/ Crash(p) PROVE Whole(pair)'
    <3>1. pair' = pair
      BY <2>4 DEF Finish, Crash
    <3>2. CASE Working(p)
      <4>1. faults[p] <= 1 /\ at[p] \notin {"putRecord", "removeNew"}
        <5>1. faults[p] \in Int
          BY MaxFaultsAssumption
        <5>2. ~(faults[p] > 1) /\ at[p] \notin {"putRecord", "removeNew"}
          BY <2>4 DEF Finish, Crash
        <5> QED
          BY <5>1, <5>2
      <4>2. Whole(pair)
        BY <1>1, <3>2, <4>1, ExactIsWhole DEF Atomic, WholeInv
      <4> QED
        BY <3>1, <4>2 DEF Whole
    <3>3. CASE ~Working(p)
      <4>1. Idle
        BY <1>3, <2>4, <3>3
        DEF Finish, Crash, Forget, Goto, Lock!Release, Lock!Crash, Lock!Goto
      <4> QED
        BY <1>1, <3>1, <4>1 DEF WholeInv, Whole
    <3> QED
      BY <3>2, <3>3
  <2>5. CASE UserChanges
    BY <2>5, ContentAssumption DEF UserChanges, Whole, pair
  <2>6. CASE Tick \/ UNCHANGED vars
    <3>1. Idle /\ pair' = pair
      BY <1>3, <2>6 DEF Tick, Lock!Tick, vars, lockVars, agentVars
    <3> QED
      BY <1>1, <3>1 DEF WholeInv, Whole
  <2> QED
    BY <1>1, <2>1, <2>2, <2>3, <2>4, <2>5, <2>6 DEF QuietNext, RunStep, WholeInv, Whole
<1> QED
  BY <1>2, <1>3

LEMMA WholeInit == Init => WholeInv
BY ContentAssumption
DEF Init, All, Lock!Init, WholeInv, Working, Whole, pair, Lifecycle!InitialPairs

LEMMA WholeVouches == TypeOK /\ Atomic /\ WholeInv => RecordVouches
<1> SUFFICES ASSUME TypeOK, Atomic, WholeInv, \A p \in Procs : faults[p] <= 1, ~torn,
                    record \in Versions, target \in Versions
             PROVE  target = record
  BY DEF RecordVouches
<1>1. ASSUME NEW p \in Procs, Working(p) PROVE Whole(pair)
  <2>1. Exact(p) /\ Whole(before[p])
    BY <1>1 DEF Atomic, WholeInv
  <2>2. at[p] \notin {"putRecord", "removeNew"}
    BY <2>1, ContentAssumption DEF Exact
  <2> QED
    BY <1>1, <2>1, <2>2, ExactIsWhole
<1>2. Whole(pair)
  BY <1>1 DEF WholeInv, Idle
<1> QED
  BY <1>2, ContentAssumption DEF Whole, pair

LEMMA WholeIsResumable == TypeOK /\ WholeInv => ResumableUnlessTorn
BY ContentAssumption
DEF TypeOK, AgentTypeOK, Documents, Records, WholeInv, Whole, pair, ResumableUnlessTorn,
    Ownership

WholeIInv == TypeOK /\ AtHome /\ Fresh /\ Atomic /\ WholeInv

LEMMA WholeIInit == Init => WholeIInv
BY TypeInit, PriorInit, AtomicInit, WholeInit DEF WholeIInv

LEMMA WholeIStep == WholeIInv /\ Lock!MutualExclusion /\ [QuietNext]_vars => WholeIInv'
BY TypeStep, AtHomeStep, FreshStep, AtomicStep, WholeStep, QuietIsNext DEF WholeIInv

\* One command at a time: wherever it is killed, the record on disk does not
\* vouch for another version's bytes, unless the command died between the last
\* two renames or met a second failure while it undid its work.
THEOREM RecordIsTrue == OneAtATime /\ QuietSpec => []RecordVouches
<1>1. OneAtATime /\ WholeIInv /\ [QuietNext]_vars => OneAtATime' /\ WholeIInv'
  BY WholeIStep DEF OneAtATime, Lock!MutualExclusion
<1>2. WholeIInv => RecordVouches
  BY WholeVouches DEF WholeIInv
<1> QED
  BY WholeIInit, <1>1, <1>2, PTL DEF QuietSpec

\* With the same exceptions, what a command leaves behind is never a conflict that
\* bl itself has made: the next command can work on it.
THEOREM Resumable == OneAtATime /\ QuietSpec => []ResumableUnlessTorn
<1>1. OneAtATime /\ WholeIInv /\ [QuietNext]_vars => OneAtATime' /\ WholeIInv'
  BY WholeIStep DEF OneAtATime, Lock!MutualExclusion
<1>2. WholeIInv => ResumableUnlessTorn
  BY WholeIsResumable DEF WholeIInv
<1> QED
  BY WholeIInit, <1>1, <1>2, PTL DEF QuietSpec

\* Both hold of any number of commands that finish while their lock is fresh.
THEOREM RecordIsTrueForAll == TimelySpec => [](RecordVouches /\ ResumableUnlessTorn)
<1>1. WholeIInv /\ LP!TimelyInv /\ [TimelyNext]_vars => WholeIInv' /\ LP!TimelyInv'
  BY WholeIStep, TimelyLockInv, TimelyExcludes, TimelyIsNext
<1>2. WholeIInv => RecordVouches /\ ResumableUnlessTorn
  BY WholeVouches, WholeIsResumable DEF WholeIInv
<1> QED
  BY WholeIInit, TimelyLockInit, <1>1, <1>2, PTL DEF TimelySpec

-----------------------------------------------------------------------------
(***************************************************************************)
(* What contending commands make of the pair                               *)
(***************************************************************************)

\* A run that is about to replace or remove the pair has found one it may
\* replace, and one that installs a document knows which.
Intent(p) ==
  /\ at[p] \notin {"dropBackups", "end"} => Lifecycle!Replaceable(before[p])
  /\ at[p] \in {"stage", "putTarget", "putRecord"} => goal[p] \in Versions

IntentInv == \A p \in Procs : Working(p) => Intent(p)

AtMostOneFault == \A p \in Procs : faults[p] <= 1

LEMMA IntentOwnStep ==
  ASSUME TypeOK, NEW p \in Procs, WorkStep(p), Working(p) => Exact(p) /\ Intent(p)
  PROVE  Intent(p)'
<1> USE ContentAssumption
    DEF Intent, Working, AgentTypeOK, TypeOK, At, Goto, Fail, FailGone, Fault, pair,
        report, backups
<1>1. ASSUME NEW kind \in Kinds, Classify(p, kind) PROVE Intent(p)'
  <2>1. before'[p] = pair /\ at'[p] \notin {"stage", "putTarget", "putRecord"}
    BY <1>1 DEF Classify
  <2>2. at'[p] # "end" => Ownership(target, record) # "ProtectedConflict"
    BY <1>1 DEF Classify, Proceeds
  <2>3. Ownership(target, record) # "ProtectedConflict" => Lifecycle!Replaceable(pair)
    BY DEF Ownership, Lifecycle!Replaceable, Documents, Records
  <2> QED
    BY <2>1, <2>2, <2>3 DEF Lifecycle!Replaceable
<1>2. ASSUME Working(p), before' = before, at[p] \notin {"dropBackups", "end"},
             at'[p] \in {"stage", "putTarget", "putRecord"} => goal'[p] \in Versions
      PROVE  Intent(p)'
  BY <1>2 DEF Lifecycle!Replaceable
<1>3. CASE Resolve(p)
  BY <1>2, <1>3 DEF Resolve
<1>4. CASE Stage(p)
  BY <1>2, <1>4 DEF Stage
<1>5. CASE BackupTarget(p)
  <2>1. "record" \in had[p]
    BY <1>5 DEF BackupTarget, Exact, Matches, Lifecycle!Replaceable
  <2>2. at'[p] \notin {"stage", "putTarget", "putRecord"}
    BY <1>5, <2>1 DEF BackupTarget
  <2> QED
    BY <1>2, <1>5, <2>2 DEF BackupTarget
<1>6. CASE BackupRecord(p)
  BY <1>2, <1>6 DEF BackupRecord, Restore
<1>7. CASE PutTarget(p)
  BY <1>2, <1>7 DEF PutTarget, Restore
<1>8. CASE PutRecord(p)
  BY <1>2, <1>8 DEF PutRecord
<1>9. CASE RemoveNew(p)
  BY <1>2, <1>9 DEF RemoveNew, Restore
<1>10. CASE RestoreRecord(p)
  BY <1>2, <1>10 DEF RestoreRecord, Restore
<1>11. CASE RestoreTarget(p)
  BY <1>2, <1>11 DEF RestoreTarget
<1>12. CASE DropBackups(p)
  BY <1>12 DEF DropBackups, Leave, Report
<1> QED
  BY <1>1, <1>3, <1>4, <1>5, <1>6, <1>7, <1>8, <1>9, <1>10, <1>11, <1>12 DEF WorkStep

LEMMA IntentStep ==
  ASSUME TypeOK, AtHome, Lock!MutualExclusion, Atomic, AtMostOneFault, IntentInv,
         [QuietNext]_vars
  PROVE  IntentInv'
<1> SUFFICES ASSUME NEW p \in Procs, Working(p)' PROVE Intent(p)'
  BY DEF IntentInv
<1>1. CASE WorkStep(p)
  BY <1>1, IntentOwnStep DEF Atomic, AtMostOneFault, IntentInv
<1>2. CASE Working(p) /\ UNCHANGED View(p)
  BY <1>2 DEF IntentInv, Intent, View, Lifecycle!Replaceable
<1> QED
  BY <1>1, <1>2, OwnStep

\* the two cases of SettledPair
Settles ==
  /\ Undecided = {} => SettledPair = pair
  /\ \A p \in Undecided : SettledPair = before[p]

LEMMA SettledCases == Lock!MutualExclusion => Settles
<1> SUFFICES ASSUME Lock!MutualExclusion PROVE Settles
  OBVIOUS
<1>1. \A p, q \in Undecided : p = q
  BY DEF Undecided, Working, Lock!MutualExclusion, Lock!Held
<1>2. Undecided # {} => (CHOOSE p \in Undecided : TRUE) \in Undecided
  OBVIOUS
<1> QED
  BY <1>1, <1>2, Zenon DEF Settles, SettledPair

LEMMA SettledStep ==
  ASSUME TypeOK, AtHome, Lock!MutualExclusion, Fresh, Atomic, AtMostOneFault, IntentInv,
         Settles, Settles', [TimelyNext]_vars
  PROVE  [Lifecycle!Next]_SettledPair
<1> USE DEF Working, Undecided, Settles, Changed
<1>1. ASSUME NEW p \in Procs, WorkStep(p) PROVE [Lifecycle!Next]_SettledPair
  <2>1. pc' = pc /\ pc[p] = "holding"
    BY <1>1, WorkLeavesLock
    DEF lockVars, WorkStep, Classify, Resolve, Stage, BackupTarget, BackupRecord,
        PutTarget, PutRecord, RemoveNew, RestoreRecord, RestoreTarget, DropBackups, Leave, At
  <2>2. \A q \in Procs : Working(q) \/ Working(q)' => q = p
    BY <2>1 DEF Lock!MutualExclusion, Lock!Held
  <2>3. ASSUME NEW kind \in Kinds, Classify(p, kind) PROVE UNCHANGED SettledPair
    <3>1. Undecided = {}
      BY <2>2, <2>3 DEF Classify, At
    <3>2. p \in Undecided' /\ before'[p] = pair
      BY <2>1, <2>3
      DEF Classify, At, Goto, Report, Fresh, TypeOK, AgentTypeOK
    <3> QED
      BY <3>1, <3>2
  <2>4. ASSUME p \in Undecided, p \in Undecided', before' = before
        PROVE  UNCHANGED SettledPair
    BY <2>4
  <2>5. CASE Resolve(p) \/ Stage(p) \/ BackupTarget(p) \/ PutTarget(p)
    BY <2>1, <2>4, <2>5
    DEF Resolve, Stage, BackupTarget, PutTarget, At, Goto, Report, Fail, FailGone, Fault,
        FirstRename, Restore, TypeOK, AgentTypeOK, Atomic, AtMostOneFault, Exact, report
  <2>6. CASE RemoveNew(p) \/ RestoreRecord(p) \/ RestoreTarget(p)
    BY <2>1, <2>4, <2>6
    DEF RemoveNew, RestoreRecord, RestoreTarget, At, Goto, Fault,
        Restore, TypeOK, AgentTypeOK, Atomic, AtMostOneFault, Exact, report
  <2>7. CASE BackupRecord(p)
    <3>1. p \in Undecided /\ Lifecycle!Replaceable(before[p]) /\ target = Absent
      BY <2>1, <2>7 DEF BackupRecord, At, Atomic, AtMostOneFault, Exact, IntentInv, Intent
    <3>2. CASE result'[p] \in {"done", "leftover"}
      <4>1. Undecided' = {}
        BY <2>2, <3>2
      <4>2. pair' = <<Absent, Absent>>
        BY <2>7, <3>1, <3>2 DEF BackupRecord, pair, Fail, Report, TypeOK, AgentTypeOK
      <4> QED
        BY <3>1, <4>1, <4>2 DEF Lifecycle!Next, Lifecycle!Remove
    <3>3. CASE result'[p] \notin {"done", "leftover"}
      <4>1. p \in Undecided' /\ before' = before
        BY <2>1, <2>7, <3>3
        DEF BackupRecord, At, Goto, Fail, Fault, Restore, TypeOK, AgentTypeOK, Report
      <4> QED
        BY <2>4, <3>1, <4>1
    <3> QED
      BY <3>2, <3>3
  <2>8. CASE PutRecord(p)
    <3>1. /\ p \in Undecided /\ Lifecycle!Replaceable(before[p])
          /\ target = goal[p] /\ goal[p] \in Versions
      BY <2>1, <2>8 DEF PutRecord, At, Atomic, AtMostOneFault, Exact, IntentInv, Intent
    <3>2. CASE result'[p] \in {"done", "leftover"}
      <4>1. Undecided' = {}
        BY <2>2, <3>2
      <4>2. pair' = <<goal[p], goal[p]>>
        BY <2>8, <3>1, <3>2 DEF PutRecord, pair, Fail, Report, TypeOK, AgentTypeOK
      <4> QED
        BY <3>1, <4>1, <4>2 DEF Lifecycle!Next, Lifecycle!Install
    <3>3. CASE result'[p] \notin {"done", "leftover"}
      <4>1. p \in Undecided' /\ before' = before
        BY <2>1, <2>8, <3>3
        DEF PutRecord, At, Goto, Fail, Fault, TypeOK, AgentTypeOK, Report
      <4> QED
        BY <2>4, <3>1, <4>1
    <3> QED
      BY <3>2, <3>3
  <2>9. CASE DropBackups(p)
    <3>1. result[p] = "done" /\ pair' = pair
      BY <2>1, <2>9 DEF DropBackups, At, Atomic, AtMostOneFault, Exact, pair
    <3>2. result'[p] \in {"done", "leftover"}
      BY <2>9, <3>1 DEF DropBackups, Leave, Report, TypeOK, AgentTypeOK, report
    <3>3. Undecided = {} /\ Undecided' = {}
      BY <2>2, <3>1, <3>2
    <3> QED
      BY <3>1, <3>3
  <2> QED
    BY <1>1, <2>3, <2>5, <2>6, <2>7, <2>8, <2>9 DEF WorkStep
<1>2. ASSUME NEW p \in Procs, Finish(p) PROVE UNCHANGED SettledPair
  <2>1. pc[p] = "holding" /\ Working(p)
    BY <1>2 DEF Finish, Lock!Release
  <2>2. \A q \in Procs : ~Working(q)'
    BY <1>2, <2>1
    DEF Finish, Lock!Release, Lock!Goto, Lock!MutualExclusion, Lock!Held, Forget, Goto,
        TypeOK, Lock!TypeOK
  <2>3. Undecided' = {} /\ pair' = pair
    BY <1>2, <2>2 DEF Finish
  <2>4. ~Changed(p) => before[p] = pair
    BY <1>2, <2>1 DEF Finish, Atomic, AtMostOneFault, Exact
  <2>5. Undecided \subseteq {p}
    BY <2>1 DEF Lock!MutualExclusion, Lock!Held
  <2> QED
    BY <2>1, <2>3, <2>4, <2>5
<1>3. ASSUME Undecided' = Undecided, UNCHANGED <<pair, before>>
      PROVE  UNCHANGED SettledPair
  BY <1>3
<1>4. ASSUME NEW p \in Procs, Start(p) PROVE UNCHANGED SettledPair
  BY <1>3, <1>4 DEF Start, Lock!Begin, Lock!Goto, agentVars, TypeOK, Lock!TypeOK, report
<1>5. ASSUME NEW p \in Procs, AcquireStep(p) PROVE UNCHANGED SettledPair
  BY <1>3, <1>5
  DEF AcquireStep, agentVars, AtHome, TypeOK, Lock!TypeOK, report,
      Lock!Acquire, Lock!CreateNew, Lock!FindTaken, Lock!CreateFails, Lock!WritePid,
      Lock!JudgeStale, Lock!Refuse, Lock!Unlink, Lock!UnlinkFails, Lock!NextAttempt,
      Lock!Goto
<1>6. ASSUME NEW p \in Procs, ~Lock!Held(p), Crash(p) PROVE UNCHANGED SettledPair
  <2>1. \A q \in Procs : Working(q)' <=> Working(q)
    BY <1>6
    DEF Crash, Lock!Held, Lock!Crash, Lock!Goto, Forget, Goto, TypeOK, Lock!TypeOK,
        AgentTypeOK
  <2>2. \A q \in Procs : Working(q) => result'[q] = result[q] /\ before'[q] = before[q]
    BY <1>6 DEF Crash, Lock!Held, Forget, Report
  <2>3. Undecided' = Undecided
    BY <2>1, <2>2
  <2>4. pair' = pair
    BY <1>6 DEF Crash
  <2> QED
    BY <2>2, <2>3, <2>4
<1>7. CASE Idle /\ UserChanges
  <2>1. Undecided = {} /\ Undecided' = {}
    BY <1>7 DEF Idle, UserChanges, lockVars
  <2>2. pair' = <<UserDoc, pair[2]>> \/ pair' = <<Absent, pair[2]>>
    BY <1>7 DEF UserChanges, pair
  <2> QED
    BY <2>1, <2>2 DEF Lifecycle!Next, Lifecycle!UserWrites, Lifecycle!UserDeletes
<1>8. CASE Tick \/ UNCHANGED vars
  BY <1>3, <1>8 DEF Tick, Lock!Tick, vars, lockVars, agentVars, report
<1> QED
  BY <1>1, <1>2, <1>4, <1>5, <1>6, <1>7, <1>8 DEF TimelyNext, RunStep

ContendedIInv ==
  /\ TypeOK /\ AtHome /\ Fresh /\ Atomic /\ AtMostOneFault /\ IntentInv
  /\ LP!TimelyInv

ContendedNext == TimelyNext /\ AtMostOneFault'

LEMMA ContendedInit == Init => ContendedIInv /\ Lifecycle!Init
<1> SUFFICES ASSUME Init PROVE ContendedIInv /\ Lifecycle!Init
  OBVIOUS
<1>1. AtMostOneFault /\ IntentInv /\ Undecided = {}
  BY DEF Init, All, Lock!Init, AtMostOneFault, IntentInv, Undecided, Working
<1>2. SettledPair \in Lifecycle!InitialPairs
  BY <1>1 DEF Init, SettledPair, pair, Lifecycle!InitialPairs
<1> QED
  BY <1>1, <1>2, TypeInit, PriorInit, AtomicInit, TimelyLockInit
  DEF ContendedIInv, Lifecycle!Init, Lifecycle!InitialPairs

LEMMA ContendedStep == ContendedIInv /\ [ContendedNext]_vars => ContendedIInv'
<1> SUFFICES ASSUME ContendedIInv, [ContendedNext]_vars PROVE ContendedIInv'
  OBVIOUS
<1>1. [TimelyNext]_vars /\ [QuietNext]_vars /\ [Next]_vars /\ Lock!MutualExclusion
  BY TimelyIsNext, QuietIsNext, TimelyExcludes DEF ContendedNext, ContendedIInv
<1>2. AtMostOneFault'
  BY DEF ContendedNext, ContendedIInv, AtMostOneFault, vars, agentVars, report
<1> QED
  BY <1>1, <1>2, TypeStep, AtHomeStep, FreshStep, AtomicStep, IntentStep, TimelyLockInv
  DEF ContendedIInv

LEMMA ContendedSettled ==
  ContendedIInv /\ ContendedIInv' /\ [ContendedNext]_vars => [Lifecycle!Next]_SettledPair
<1>1. ContendedIInv => Lock!MutualExclusion
  BY TimelyExcludes DEF ContendedIInv
<1>2. ContendedIInv => Settles
  BY <1>1, SettledCases
<1>3. ContendedIInv' => Settles'
  BY <1>2, PTL
<1> QED
  BY <1>1, <1>2, <1>3, SettledStep DEF ContendedIInv, ContendedNext

\* Commands that finish while their lock is fresh, and meet at most one failing
\* file operation each, implement the abstract life cycle: as the next command
\* would find it, the pair is installed or removed as a whole.
THEOREM PairIsAtomic == Init /\ [][ContendedNext]_vars => Lifecycle!Spec
BY ContendedInit, ContendedStep, ContendedSettled, PTL DEF Lifecycle!Spec

\* The same of the instance that the runs check.
THEOREM ContendedCommands == AgentsSpec => CommandsAreAtomic
<1> DEFINE Inv == world = "contention" => ContendedIInv
<1>1. AgentsInit => Inv /\ Contended!Init
  <2>1. Contended!Init <=> ContendedPair \in Lifecycle!InitialPairs
    BY DEF Contended!Init, Contended!InitialPairs, Lifecycle!InitialPairs
  <2> QED
    BY <2>1, ContendedInit
    DEF AgentsInit, ContendedPair, Lifecycle!Init, Lifecycle!InitialPairs
<1>2. Inv /\ [AgentsNext]_allVars => Inv'
  BY ContendedStep
  DEF AgentsNext, ContendedNext, AtMostOneFault, allVars
<1>3. Inv /\ Inv' /\ [AgentsNext]_allVars => [Contended!Next]_ContendedPair
  <2> SUFFICES ASSUME Inv, Inv', [AgentsNext]_allVars
               PROVE  [Contended!Next]_ContendedPair
    OBVIOUS
  <2>1. world' = world
    BY DEF AgentsNext, allVars
  <2>2. CASE world = "contention"
    <3>1. [ContendedNext]_vars
      BY <2>2 DEF AgentsNext, ContendedNext, AtMostOneFault, allVars
    <3>2. [Lifecycle!Next]_SettledPair
      BY <2>1, <2>2, <3>1, ContendedSettled
    <3> QED
      BY <2>1, <2>2, <3>2
      DEF ContendedPair, Lifecycle!Next, Contended!Next, Lifecycle!Install,
          Contended!Install, Lifecycle!Remove, Contended!Remove, Lifecycle!UserWrites,
          Contended!UserWrites, Lifecycle!UserDeletes, Contended!UserDeletes,
          Lifecycle!Replaceable, Contended!Replaceable
  <2>3. CASE world # "contention"
    BY <2>1, <2>3 DEF ContendedPair
  <2> QED
    BY <2>2, <2>3
<1> HIDE DEF Inv
<1> QED
  BY <1>1, <1>2, <1>3, PTL DEF AgentsSpec, CommandsAreAtomic, Contended!Spec
=============================================================================
