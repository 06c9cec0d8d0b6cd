--------------------------- MODULE MCSkillInstall ---------------------------
(***************************************************************************)
(* Small instances of SkillInstall and SharedTarget for TLC.  In one world *)
(* the commands run alone, with all versions and up to MaxFaults failing   *)
(* file operations; in those named by a version the doctor and the user    *)
(* are about as well, with this version and one failing operation; in the  *)
(* last one the doctor and an install are at the path of one target.       *)
(***************************************************************************)
EXTENDS SkillInstall, SharedTarget, TLC

CONSTANT Overlap   \* the name of the last world

ASSUME OverlapAssumption == Overlap \notin Versions \cup {Absent}

VARIABLE world

Doctored(v) == INSTANCE SkillInstall WITH Versions <- {v}, MaxFaults <- 1

WorldsInit ==
  /\ world \in Versions \cup {Absent, Overlap}
  /\ Init
  /\ SharedInit
  /\ IF world = Overlap THEN pkg = Absent /\ links = NoLinks ELSE path = "nothing"

WorldsNext ==
  /\ UNCHANGED world
  /\ \/ world = Absent /\ Next /\ UNCHANGED sharedVars
     \/ \E v \in Versions : world = v /\ Doctored(v)!DoctoredNext /\ UNCHANGED sharedVars
     \/ world = Overlap /\ SharedNext /\ UNCHANGED vars

WorldsSpec == WorldsInit /\ [][WorldsNext]_<<vars, sharedVars, world>>

Symmetry == Permutations(Targets) \cup Permutations(Versions)

-----------------------------------------------------------------------------

\* Where no doctor is about, an install that meets one failing file operation is
\* all undone or all done.
InstallIsAtomic == world = Absent => FailureIsAtomic

\* Where no doctor is about, an installed skill is on disk in full, whatever
\* fails and wherever a run crashes.
SkillKept == world = Absent => SkillOnDisk

\* Where no doctor is about, package and placements change as a whole: what a
\* command that meets a failure or is killed may leave, and no more than that, is
\* what the life cycle of a skill says.
Promised == INSTANCE SkillLifecycle
  WITH package <- IF world = Absent THEN SettledPackage ELSE Absent,
       places <- IF world = Absent THEN SettledLinks ELSE NoLinks,
       phase <- IF world = Absent THEN CommandPhase ELSE "idle",
       failures <- IF world = Absent THEN faults ELSE 0

InstallsAreWhole == Promised!Spec
=============================================================================
