-------------------------- MODULE InstallLockProofs --------------------------
(***************************************************************************)
(* What InstallLock guarantees for every set of processes and every        *)
(* staleness bound.                                                        *)
(***************************************************************************)
EXTENDS InstallLock, TLAPS

\* Until a lock has been judged stale nobody is about to unlink it, and
\* whoever holds the lock owns the file at the path.
HoldersOwn ==
  ~staleSeen => \A p \in Procs : /\ pc[p] # "unlink"
                                 /\ Held(p) => owner = p

\* With timely holders no lock is ever judged stale: the file is there only
\* while its owner is alive and younger than MaxHold.
FreshLock ==
  /\ ~staleSeen
  /\ owner # None => Held(owner) /\ age <= MaxHold

IInv == TypeOK /\ HoldersOwn

TimelyInv == IInv /\ FreshLock

-----------------------------------------------------------------------------

LEMMA TypeInit == Init => TypeOK
<1> SUFFICES ASSUME Init PROVE TypeOK
  OBVIOUS
<1>1. age \in 0 .. StaleAfter + 1 /\ 1 \in 1 .. Attempts
  BY StaleAfterAssumption DEF Init, Attempts
<1> QED
  BY <1>1, Zenon DEF Init, TypeOK

LEMMA TypeStep == TypeOK /\ [Next]_lockVars => TypeOK'
<1> SUFFICES ASSUME TypeOK, [Next]_lockVars
             PROVE  TypeOK'
  OBVIOUS
<1> USE StaleAfterAssumption DEF TypeOK, Attempts, Goto
<1>1. ASSUME NEW p \in Procs, Begin(p) PROVE TypeOK'
  BY <1>1 DEF Begin
<1>2. ASSUME NEW p \in Procs, CreateNew(p) PROVE TypeOK'
  BY <1>2 DEF CreateNew
<1>3. ASSUME NEW p \in Procs, FindTaken(p) \/ CreateFails(p) PROVE TypeOK'
  BY <1>3 DEF FindTaken, CreateFails
<1>4. ASSUME NEW p \in Procs, WritePid(p) PROVE TypeOK'
  BY <1>4 DEF WritePid
<1>5. ASSUME NEW p \in Procs, JudgeStale(p) \/ Refuse(p) PROVE TypeOK'
  BY <1>5 DEF JudgeStale, Refuse
<1>6. ASSUME NEW p \in Procs, NextAttempt(p) 
      PROVE  /\ pc' \in [Procs -> {"idle", "create", "inspect", "unlink", "stamp", "holding"}]
             /\ attempt' \in [Procs -> 1 .. Attempts]
  BY <1>6 DEF NextAttempt
<1>7. ASSUME NEW p \in Procs, Unlink(p) \/ UnlinkFails(p) PROVE TypeOK'
  BY <1>6, <1>7 DEF Unlink, UnlinkFails
<1>8. ASSUME NEW p \in Procs, Release(p) \/ Crash(p) PROVE TypeOK'
  BY <1>8 DEF Release, Crash
<1>9. CASE Tick
  BY <1>9 DEF Tick
<1>10. CASE UNCHANGED lockVars
  BY <1>10 DEF lockVars
<1> QED
  BY <1>1, <1>2, <1>3, <1>4, <1>5, <1>7, <1>8, <1>9, <1>10 DEF Next, Step, Acquire

\* Every variable of the lock keeps its type, whatever crashes or ages.
THEOREM TypeCorrect == Spec => []TypeOK
<1>1. Init => TypeOK
  BY TypeInit
<1>2. TypeOK /\ [Next]_lockVars => TypeOK'
  BY TypeStep
<1> QED
  BY <1>1, <1>2, PTL DEF Spec

-----------------------------------------------------------------------------

LEMMA HoldersOwnStep ==
  ASSUME TypeOK, HoldersOwn, [Next]_lockVars
  PROVE  HoldersOwn'
<1> USE NoneAssumption DEF TypeOK, HoldersOwn, Held, Goto
<1>1. ASSUME NEW p \in Procs, Begin(p) PROVE HoldersOwn'
  BY <1>1 DEF Begin
<1>2. ASSUME NEW p \in Procs, CreateNew(p) PROVE HoldersOwn'
  BY <1>2 DEF CreateNew
<1>3. ASSUME NEW p \in Procs, FindTaken(p) \/ CreateFails(p) PROVE HoldersOwn'
  BY <1>3 DEF FindTaken, CreateFails
<1>4. ASSUME NEW p \in Procs, WritePid(p) PROVE HoldersOwn'
  BY <1>4 DEF WritePid
<1>5. ASSUME NEW p \in Procs, JudgeStale(p) \/ Refuse(p) PROVE HoldersOwn'
  BY <1>5 DEF JudgeStale, Refuse
<1>6. ASSUME NEW p \in Procs, Unlink(p) \/ UnlinkFails(p) PROVE HoldersOwn'
  BY <1>6 DEF Unlink, UnlinkFails
<1>7. ASSUME NEW p \in Procs, Release(p) \/ Crash(p) PROVE HoldersOwn'
  BY <1>7 DEF Release, Crash
<1>8. CASE Tick \/ UNCHANGED lockVars
  BY <1>8 DEF Tick, lockVars
<1> QED
  BY <1>1, <1>2, <1>3, <1>4, <1>5, <1>6, <1>7, <1>8 DEF Next, Step, Acquire

LEMMA HoldersOwnExcludes == HoldersOwn => ExclusiveUntilStale
BY DEF HoldersOwn, ExclusiveUntilStale, MutualExclusion

\* For any number of commands, crashing anywhere: two of them hold the lock
\* together only after some lock outlived LOCK_STALE_SECS.
THEOREM ExclusionUntilStale == Spec => []ExclusiveUntilStale
<1>1. Init => IInv
  BY TypeInit DEF IInv, Init, HoldersOwn, Held
<1>2. IInv /\ [Next]_lockVars => IInv'
  BY TypeStep, HoldersOwnStep DEF IInv
<1>3. IInv => ExclusiveUntilStale
  BY HoldersOwnExcludes DEF IInv
<1> QED
  BY <1>1, <1>2, <1>3, PTL DEF Spec

-----------------------------------------------------------------------------

LEMMA TimelyIsNext == [TimelyNext]_lockVars => [Next]_lockVars
BY DEF TimelyNext, Next

LEMMA TimelyStep ==
  ASSUME TimelyInv, [TimelyNext]_lockVars
  PROVE  TimelyInv'
<1>1. IInv'
  BY TypeStep, HoldersOwnStep, TimelyIsNext DEF IInv, TimelyInv
<1>2. FreshLock'
  <2> USE NoneAssumption, StaleAfterAssumption, MaxHoldAssumption
      DEF TimelyInv, IInv, TypeOK, HoldersOwn, FreshLock, Held, Goto
  <2>1. ASSUME NEW p \in Procs, Begin(p) PROVE FreshLock'
    BY <2>1 DEF Begin
  <2>2. ASSUME NEW p \in Procs, CreateNew(p) PROVE FreshLock'
    BY <2>2 DEF CreateNew
  <2>3. ASSUME NEW p \in Procs, FindTaken(p) \/ CreateFails(p) PROVE FreshLock'
    BY <2>3 DEF FindTaken, CreateFails
  <2>4. ASSUME NEW p \in Procs, WritePid(p) PROVE FreshLock'
    BY <2>4 DEF WritePid
  <2>5. ASSUME NEW p \in Procs, JudgeStale(p) PROVE FreshLock'
    BY <2>5 DEF JudgeStale, IsStale
  <2>6. ASSUME NEW p \in Procs, Refuse(p) PROVE FreshLock'
    BY <2>6 DEF Refuse
  <2>7. ASSUME NEW p \in Procs, Unlink(p) \/ UnlinkFails(p) PROVE FreshLock'
    BY <2>7 DEF Unlink, UnlinkFails
  <2>8. ASSUME NEW p \in Procs, Release(p) PROVE FreshLock'
    BY <2>8 DEF Release
  <2>9. ASSUME NEW p \in Procs, ~Held(p), Crash(p) PROVE FreshLock'
    BY <2>9 DEF Crash
  <2>10. CASE InTime /\ Tick
    BY <2>10 DEF InTime, Tick
  <2>11. CASE UNCHANGED lockVars
    BY <2>11 DEF lockVars
  <2> QED
    BY <2>1, <2>2, <2>3, <2>4, <2>5, <2>6, <2>7, <2>8, <2>9, <2>10, <2>11
    DEF TimelyNext, Step, Acquire
<1> QED
  BY <1>1, <1>2 DEF TimelyInv

LEMMA TimelyInit == Init => TimelyInv
BY TypeInit DEF Init, TimelyInv, IInv, HoldersOwn, FreshLock, Held

\* With holders that finish in time and do not crash, mutual exclusion holds
\* outright.
THEOREM TimelyExclusion == TimelySpec => []MutualExclusion
<1>1. TimelyInv => MutualExclusion
  BY DEF TimelyInv, IInv, FreshLock, HoldersOwn, MutualExclusion
<1>2. TimelyInv /\ [TimelyNext]_lockVars => TimelyInv'
  BY TimelyStep
<1> QED
  BY TimelyInit, <1>1, <1>2, PTL DEF TimelySpec

-----------------------------------------------------------------------------

LEMMA AbstractStep ==
  ASSUME TimelyInv, [TimelyNext]_lockVars
  PROVE  [Lock!Next]_Holders
<1> USE NoneAssumption DEF TimelyInv, IInv, TypeOK, HoldersOwn, FreshLock,
                           Holders, Held, Goto
<1>1. ASSUME NEW p \in Procs, CreateNew(p) PROVE Lock!Acquire(p)
  <2>1. Holders = {}
    BY <1>1 DEF CreateNew
  <2>2. Holders' = {p}
    BY <1>1, <2>1 DEF CreateNew
  <2> QED
    BY <2>1, <2>2 DEF Lock!Acquire
<1>2. ASSUME NEW p \in Procs, Release(p) PROVE Lock!Release(p)
  BY <1>2 DEF Release, Lock!Release
<1>3. ASSUME NEW p \in Procs, Begin(p) PROVE Holders' = Holders
  BY <1>3 DEF Begin
<1>4. ASSUME NEW p \in Procs, FindTaken(p) \/ CreateFails(p) PROVE Holders' = Holders
  BY <1>4 DEF FindTaken, CreateFails
<1>5. ASSUME NEW p \in Procs, WritePid(p) PROVE Holders' = Holders
  BY <1>5 DEF WritePid
<1>6. ASSUME NEW p \in Procs, JudgeStale(p) \/ Refuse(p) PROVE Holders' = Holders
  BY <1>6 DEF JudgeStale, Refuse
<1>7. ASSUME NEW p \in Procs, Unlink(p) \/ UnlinkFails(p) PROVE Holders' = Holders
  BY <1>7 DEF Unlink, UnlinkFails
<1>8. ASSUME NEW p \in Procs, ~Held(p), Crash(p) PROVE Holders' = Holders
  BY <1>8 DEF Crash
<1>9. CASE Tick \/ UNCHANGED lockVars
  BY <1>9 DEF Tick, lockVars
<1> QED
  BY <1>1, <1>2, <1>3, <1>4, <1>5, <1>6, <1>7, <1>8, <1>9
  DEF TimelyNext, Step, Acquire, Lock!Next

\* The lock file, used in time, implements the exclusive lock.
THEOREM Refinement == TimelySpec => ImplementsExclusiveLock
<1>1. Init => Lock!Init
  BY DEF Init, Lock!Init, Holders, Held
<1>2. TimelyInv /\ [TimelyNext]_lockVars => TimelyInv'
  BY TimelyStep
<1>3. TimelyInv /\ [TimelyNext]_lockVars => [Lock!Next]_Holders
  BY AbstractStep
<1> QED
  BY TimelyInit, <1>1, <1>2, <1>3, PTL DEF TimelySpec, ImplementsExclusiveLock, Lock!Spec
=============================================================================
