---------------------------- MODULE SharedTarget ----------------------------
(***************************************************************************)
(* The path of one skill in one target, while an install or update links   *)
(* it and `bl skills doctor --fix', which takes no lock, repairs it:       *)
(* link_into_target and restore_target_path (skills_targets.rs), step by   *)
(* step, for each of the two (skills_install.rs, skills_doctor.rs).        *)
(*                                                                         *)
(* What is moved away goes to a name that nobody else uses.  A rename that *)
(* moves something away is one step with the look at what it is.  Symlinks *)
(* of the user's are left out.                                             *)
(***************************************************************************)

VARIABLES
  path,     \* what is at the path: nothing, a directory of the user's, the link to the
            \* package, a copy of it, a part of a copy, or a mixture of a copy with
            \* what the user had
  source,   \* whether the package is whole
  stage,    \* the next step of each of the two
  moved,    \* what each has moved away from the path, and may put back
  kept,     \* the user's directory is under .backups for good, or there was none
  crossed   \* history: both were at the path after they had cleared it

sharedVars == <<path, source, stage, moved, kept, crossed>>

Linkers == {"install", "doctor"}
PathContents == {"nothing", "user's", "link", "copy", "part", "mixture"}
Stages == {"idle", "inspect", "check", "prepare", "symlink", "copy", "linked", "remove",
           "put back"}

SharedTypeOK ==
  /\ path \in PathContents
  /\ source \in {"whole", "emptied"}
  /\ stage \in [Linkers -> Stages]
  /\ moved \in [Linkers -> PathContents]
  /\ kept \in BOOLEAN
  /\ crossed \in BOOLEAN

SharedInit ==
  /\ path \in {"nothing", "user's", "link", "copy"}
  /\ source = "whole"
  /\ stage = [p \in Linkers |-> "idle"]
  /\ moved = [p \in Linkers |-> "nothing"]
  /\ kept = (path # "user's")
  /\ crossed = FALSE

Advance(p, next) == stage' = [stage EXCEPT ![p] = next]

\* it is over for p: what it has moved away stays where it is, or is a copy
\* that goes
Leave(p) ==
  /\ Advance(p, "idle")
  /\ moved' = [moved EXCEPT ![p] = "nothing"]
  /\ kept' = (kept \/ moved[p] = "user's")

Enter(p) ==
  /\ stage[p] = "idle"
  /\ Advance(p, IF p = "doctor" THEN "inspect" ELSE "check")
  /\ UNCHANGED <<path, source, moved, kept>>

\* the doctor goes on where nothing is
Inspect ==
  /\ stage["doctor"] = "inspect"
  /\ Advance("doctor", IF path = "nothing" THEN "check" ELSE "idle")
  /\ UNCHANGED <<path, source, moved, kept>>

\* a link to the package stays, and is nothing to undo
CheckExisting(p) ==
  /\ stage[p] = "check"
  /\ Advance(p, IF path = "link" THEN "idle" ELSE "prepare")
  /\ UNCHANGED <<path, source, moved, kept>>

\* the doctor has seen that nothing is in the way
SeenBefore(p) == p = "install" /\ path # "nothing"

InTheWay(p) == path # "nothing"

\* prepare_target_path; on an error everything stays
Prepare(p) ==
  /\ stage[p] = "prepare"
  /\ \/ Advance(p, "idle") /\ UNCHANGED <<path, moved>>
     \/ /\ Advance(p, "symlink")
        /\ IF InTheWay(p)
             THEN /\ moved' = [moved EXCEPT ![p] = IF path = "link" THEN "nothing" ELSE path]
                  /\ path' = "nothing"
             ELSE UNCHANGED <<path, moved>>
  /\ UNCHANGED <<source, kept>>

\* the symlink; a copy where there is something meanwhile, or where symlinks are
\* not wanted or not to be had
Symlink(p) ==
  /\ stage[p] = "symlink"
  /\ \/ path = "nothing" /\ path' = "link" /\ Advance(p, "linked")
     \/ Advance(p, "copy") /\ UNCHANGED path
  /\ UNCHANGED <<source, moved, kept>>

\* what the path holds when the package has been copied there
WithCopy(content) ==
  CASE content \in {"nothing", "copy", "part"} -> "copy"
    [] content \in {"user's", "mixture"} -> "mixture"
    [] content = "link" -> "link"

\* copy_dir_recursive, into what is there, which is all or in part when it fails;
\* a file that is copied to itself, by way of the link, is empty then
CopyPackage(p) ==
  /\ stage[p] = "copy"
  /\ \/ path' = WithCopy(path) /\ Advance(p, "linked")
     \/ /\ path' \in {path, WithCopy(path)} \cup (IF path = "nothing" THEN {"part"} ELSE {})
        /\ Advance(p, "remove")
  /\ source' = IF path = "link" THEN "emptied" ELSE source
  /\ UNCHANGED <<moved, kept>>

Done(p) ==
  /\ stage[p] = "linked"
  /\ Leave(p)
  /\ UNCHANGED <<path, source>>

\* another target of the install cannot be linked
RollBack ==
  /\ stage["install"] = "linked"
  /\ Advance("install", "remove")
  /\ UNCHANGED <<path, source, moved, kept>>

\* restore_target_path, first half
RemoveAny(p) ==
  /\ stage[p] = "remove"
  /\ \/ path' = "nothing" /\ Advance(p, "put back") /\ UNCHANGED <<moved, kept>>
     \/ Leave(p) /\ UNCHANGED path
  /\ UNCHANGED source

\* second half: a rename, which fails where there is something
PutMovedBack(p) ==
  /\ stage[p] = "put back"
  /\ \/ /\ path = "nothing"
        /\ path' = moved[p]
        /\ moved' = [moved EXCEPT ![p] = "nothing"]
        /\ Advance(p, "idle")
        /\ UNCHANGED kept
     \/ Leave(p) /\ UNCHANGED path
  /\ UNCHANGED source

Kill(p) ==
  /\ stage[p] # "idle"
  /\ Leave(p)
  /\ UNCHANGED <<path, source>>

\* p has cleared the path, and may change it still
Working(p) == stage[p] \in {"symlink", "copy", "linked", "remove", "put back"}

SharedNext ==
  /\ \/ \E p \in Linkers :
          \/ Enter(p) \/ CheckExisting(p) \/ Prepare(p) \/ Symlink(p) \/ CopyPackage(p)
          \/ Done(p) \/ RemoveAny(p) \/ PutMovedBack(p) \/ Kill(p)
     \/ Inspect
     \/ RollBack
  /\ crossed' = (crossed \/ \A p \in Linkers : Working(p)')

SharedSpec == SharedInit /\ [][SharedNext]_sharedVars

-----------------------------------------------------------------------------

\* The user's directory is at the path, or moved away, as it was.
UserDirIntact == path = "user's" \/ kept \/ \E p \in Linkers : moved[p] = "user's"

\* An install and a doctor at one path destroy neither the user's directory nor the
\* package, whatever the doctor has seen before and whatever fails, unless both
\* were between clearing the path and the end of their work there at once, from
\* which no lock keeps the doctor.
OnlyCrossingHarms == crossed \/ (source = "whole" /\ UserDirIntact)
=============================================================================
