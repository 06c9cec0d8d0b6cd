--------------------------- MODULE MCAgentInstall ---------------------------
(***************************************************************************)
(* Small instances of AgentInstall for TLC: two versions, so that a run    *)
(* may replace a version by another or by itself.  In one world a command  *)
(* runs at a time, may crash anywhere and meets up to MaxFaults failing    *)
(* file operations; in the other one two commands contend for the lock,    *)
(* keep it no longer than they may, and meet one failing operation each.   *)
(***************************************************************************)
EXTENDS AgentInstall, TLC

CONSTANT First   \* the command that runs alone

VARIABLE world

allVars == <<vars, world>>

Alone == \A p \in Procs \ {First} : pc'[p] = "idle"

AgentsInit == Init /\ world \in {"faults", "contention"}

AgentsNext ==
  /\ UNCHANGED world
  /\ \/ world = "faults" /\ QuietNext /\ Alone
     \/ world = "contention" /\ TimelyNext /\ \A p \in Procs : faults'[p] <= 1

AgentsSpec == AgentsInit /\ [][AgentsNext]_allVars

-----------------------------------------------------------------------------

ContendedPair == IF world = "contention" THEN SettledPair ELSE <<Absent, Absent>>

Contended == INSTANCE AgentLifecycle WITH pair <- ContendedPair

\* Commands that contend for the lock, and see at most one failing file operation
\* each, change the document and its record as a whole, one after the other: they
\* implement what `bl agents' promises.
CommandsAreAtomic == Contended!Spec
=============================================================================
