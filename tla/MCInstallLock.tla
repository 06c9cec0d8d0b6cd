---------------------------- MODULE MCInstallLock ----------------------------
(***************************************************************************)
(* Small instances of InstallLock for TLC.  MaxHold equals StaleAfter, the *)
(* boundary case: a lock is used up to the last instant at which it is not *)
(* stale yet.  In the environment of this run a command that holds the     *)
(* lock either crashes or finishes in time: what it shows is not the fault *)
(* of a slow command.                                                      *)
(***************************************************************************)
EXTENDS InstallLock

PromptNext == (\E p \in Procs : Step(p) \/ Crash(p)) \/ (InTime /\ Tick)

PromptSpec == Init /\ [][PromptNext]_lockVars
=============================================================================
