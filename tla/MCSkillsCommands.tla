-------------------------- MODULE MCSkillsCommands --------------------------
(***************************************************************************)
(* Small instances of SkillsCommands for TLC: b depends on a.              *)
(***************************************************************************)
EXTENDS SkillsCommands

CONSTANTS a, b, t1, t2

MCSkills == {a, b}
MCNeeds == [s \in MCSkills |-> IF s = b THEN {a, b} ELSE {a}]
MCPreferred == {t1}
MCGiven == {t2}
=============================================================================
