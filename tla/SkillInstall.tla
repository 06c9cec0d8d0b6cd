---------------------------- MODULE SkillInstall ----------------------------
(***************************************************************************)
(* One skill of one skills home: the package directory, its links in the   *)
(* target directories, and the work directories that install, update and   *)
(* remove (skills_install.rs, skills_targets.rs) go through, and `bl       *)
(* skills doctor --fix' (skills_doctor.rs).  The doctor takes no lock.     *)
(* Here it may sweep the work directories at any time, but it repairs      *)
(* links between the commands only: SharedTarget has the two at one path.  *)
(*                                                                         *)
(* The install lock admits one command at a time (InstallLock), so there   *)
(* is one run.  What is at a path is a package of bl's, which carries its  *)
(* metadata (version and targets), a directory of the user's, or nothing;  *)
(* at a target's path it may also be a symlink to the package directory, a *)
(* copy of the package, named by its version, or a symlink of the user's.  *)
(* The target whose directory is the packages directory itself needs no    *)
(* link and is left out.                                                   *)
(*                                                                         *)
(* Each operation that changes one of these paths is a step.  It may fail, *)
(* at most MaxFaults times in one run, and the run may crash.  One that    *)
(* fails changes nothing, but a copy to a target that fails, or is cut off *)
(* by a crash, may be there in part.                                       *)
(***************************************************************************)
EXTENDS Integers, Sequences

CONSTANTS
  Targets,    \* the targets other than the packages directory
  Versions,   \* versions of the skill
  Absent,     \* nothing at the path
  UserDir,    \* a directory without bl's metadata
  UserLink,   \* a symlink to somewhere else
  Link,       \* a symlink to the package directory
  Partial,    \* a work directory, or a copy, that has no metadata yet
  Leftover,   \* a work directory with a package in it that no run owns any more
  Root,       \* the place of the package, among the backups
  MaxFaults   \* bound on the file operations that fail in one run

ASSUME PathAssumption ==
  /\ Absent \notin Versions \cup {UserDir, UserLink, Link, Partial, Leftover}
  /\ UserDir \notin Versions \cup {UserLink, Link, Partial}
  /\ UserLink \notin Versions \cup {Link, Partial}
  /\ Link \notin Versions \cup {Partial}
  /\ Partial \notin Versions
  /\ Root \notin Targets

ASSUME MaxFaultsAssumption == MaxFaults \in Nat

Packages == [version : Versions, targets : SUBSET Targets]

ASSUME PackageAssumption == {Absent, UserDir, Partial, Leftover} \cap Packages = {}

VARIABLES
  pkg,        \* what is at the package directory
  links,      \* what is at the skill's path in each target
  saved,      \* the places whose user directory is under .backups now
  orphans,    \* whether there is a Leftover
  at,         \* the next step of the run
  mode,       \* which command it is
  forced,     \* remove --include-unmanaged --force
  goal,       \* the package to install, or the metadata to write
  todo,       \* targets it has still to visit
  linked,     \* targets it has linked, in order
  prior,      \* what it moved away from each target
  staging,    \* its staging directory
  previous,   \* the package it moved away
  aside,      \* where `restore' will look for what was replaced
  faults,     \* how many of its file operations have failed
  result,     \* what it reports
  before,     \* history: the package and the links an install found
  doctor,     \* what the doctor is about: its step, the targets it has still to
              \* repair, the one whose link it makes, and what it moved away there
  installed,  \* history: an install got to its end, and no removal since
  clean       \* history: so far nothing failed or crashed, nor did the doctor run

disk == <<pkg, links, saved, orphans>>
work == <<staging, previous, aside>>
linking == <<todo, linked, prior>>
command == <<mode, forced, goal, before>>
vars == <<disk, work, linking, command, at, faults, result, doctor, installed, clean>>

Places == Targets \cup {Root}
Contents == Versions \cup {UserDir, UserLink, Link, Partial, Absent}
Labels == {"idle", "stage", "metadata", "moveAside", "put", "link", "putLink", "unlink",
           "relink", "discard", "restore", "finish", "removeLinks", "removePackage",
           "writeMetadata", "end"}
Visits == [step : {"away", "look", "link", "remove", "putBack"}, todo : SUBSET Targets,
           target : Places, was : Contents]

Managed(content) == content \in Packages

TypeOK ==
  /\ pkg \in Packages \cup {UserDir, Absent}
  /\ links \in [Targets -> Contents]
  /\ saved \subseteq Places
  /\ orphans \subseteq {Leftover}
  /\ at \in Labels
  /\ mode \in {"none", "install", "remove", "removeSome"}
  /\ forced \in BOOLEAN
  /\ goal \in Packages \cup {Absent}
  /\ todo \subseteq Targets
  /\ linked \in Seq(Targets)
  /\ prior \in [Targets -> Contents]
  /\ staging \in Packages \cup {Partial, Absent}
  /\ previous \in Packages \cup {Absent}
  /\ aside \in {"nothing", "previous", "backup"}
  /\ faults \in 0 .. MaxFaults
  /\ result \in {"running", "done", "failed"}
  /\ before \in (Packages \cup {UserDir, Absent}) \X [Targets -> Contents]
  /\ doctor \in Visits
  /\ installed \in BOOLEAN
  /\ clean \in BOOLEAN

NoLinks == [t \in Targets |-> Absent]

Visit(step, targets, t, content) ==
  [step |-> step, todo |-> targets, target |-> t, was |-> content]

Away == Visit("away", {}, Root, Absent)

Looking(targets) == Visit("look", targets, Root, Absent)

Init ==
  /\ pkg \in {UserDir, Absent}
  /\ links \in [Targets -> {UserDir, UserLink, Absent}]
  /\ saved = {}
  /\ orphans = {}
  /\ at = "idle" /\ mode = "none" /\ forced = FALSE /\ goal = Absent
  /\ todo = {} /\ linked = <<>> /\ prior = NoLinks
  /\ staging = Absent /\ previous = Absent /\ aside = "nothing"
  /\ faults = 0 /\ result = "running" /\ before = <<Absent, NoLinks>>
  /\ doctor = Away
  /\ installed = FALSE
  /\ clean = TRUE

-----------------------------------------------------------------------------

Goto(label) == at' = label

\* a file operation fails, within the bound; the run goes on from label
Fault(label) ==
  /\ faults < MaxFaults
  /\ faults' = faults + 1
  /\ Goto(label)

\* the run is over
End(value) == Goto("end") /\ result' = value

Fail == Fault("end") /\ result' = "failed"

\* the same, when it fails of itself
FailGone == End("failed") /\ UNCHANGED faults

Go(label) == Goto(label) /\ UNCHANGED <<faults, result>>

(***************************************************************************)
(* install and update of the skill, from the lock to the return            *)
(***************************************************************************)

BeginInstall(version, targets) ==
  /\ at = "idle"
  /\ mode' = "install"
  /\ goal' = [version |-> version, targets |-> targets]
  /\ todo' = targets
  /\ before' = <<pkg, links>>
  /\ Goto("stage")
  /\ UNCHANGED <<disk, work, linked, prior, forced, faults, result, doctor, installed>>

\* write_package: the staging directory and the files in it
Stage ==
  /\ at = "stage"
  /\ \/ staging' = Partial /\ Go("metadata")
     \/ staging' = Absent /\ Fail
  /\ UNCHANGED <<disk, previous, aside, linking, command, doctor, installed>>

\* on an error the staging directory is removed, if that works
WriteMetadata ==
  /\ at = "metadata"
  /\ \/ staging # Absent /\ staging' = goal /\ Go("moveAside")
     \/ Fail /\ staging' = Absent
     \/ staging = Absent /\ FailGone /\ UNCHANGED staging
  /\ UNCHANGED <<disk, previous, aside, linking, command, doctor, installed>>

BlOwned == Managed(pkg)

\* replace_managed_dir: what is at the package directory makes room, a package
\* of bl's for the length of the run, anything else for good
MoveAside ==
  /\ at = "moveAside"
  /\ \/ /\ BlOwned
        /\ previous' = pkg
        /\ pkg' = Absent
        /\ UNCHANGED <<saved, staging, aside>>
        /\ Go("put")
     \/ /\ pkg # Absent /\ ~BlOwned
        /\ saved' = saved \cup {Root}
        /\ aside' = "backup"
        /\ pkg' = Absent
        /\ UNCHANGED <<staging, previous>>
        /\ Go("put")
     \/ /\ pkg = Absent
        /\ UNCHANGED <<pkg, saved, work>>
        /\ Go("put")
     \/ /\ pkg # Absent
        /\ Fail
        /\ staging' = Absent
        /\ UNCHANGED <<pkg, saved, previous, aside>>
  /\ UNCHANGED <<links, orphans, linking, command, doctor, installed>>

\* what was moved aside is removed
DropAside == previous' = Absent /\ UNCHANGED <<pkg, saved>>

\* what was moved aside goes back, if that works, and the staging directory
\* is removed
PutBack ==
  \/ /\ previous # Absent
     /\ pkg' = previous
     /\ previous' = Absent
     /\ UNCHANGED saved
  \/ /\ aside = "backup"
     /\ pkg' = UserDir
     /\ saved' = saved \ {Root}
     /\ UNCHANGED previous
  \/ /\ previous = Absent /\ aside # "backup"
     /\ UNCHANGED <<pkg, saved, previous>>

Put ==
  /\ at = "put"
  /\ \/ /\ staging # Absent
        /\ pkg' = staging
        /\ staging' = Absent
        /\ aside' = IF previous # Absent THEN "previous" ELSE aside
        /\ Go("link")
        /\ UNCHANGED <<saved, previous>>
     \/ /\ Fail \/ (staging = Absent /\ FailGone)
        /\ staging' = Absent
        /\ PutBack
        /\ UNCHANGED aside
     \/ /\ faults + 2 <= MaxFaults /\ (previous # Absent \/ aside = "backup")
        /\ faults' = faults + 2
        /\ End("failed")
        /\ staging' = Absent
        /\ UNCHANGED <<pkg, saved, previous, aside>>
  /\ UNCHANGED <<links, orphans, linking, command, doctor, installed>>

-----------------------------------------------------------------------------
(***************************************************************************)
(* link_targets                                                            *)
(***************************************************************************)

\* the path has bl's metadata
HasMetadata(t) == links[t] \in Versions \cup {Link} /\ pkg # Absent

\* whether the path leads to the package directory already
Resolves(t) == links[t] = Link /\ pkg # Absent

\* the links stay
KeepLinks(made) == "discard"

\* the error of a link: those made so far are undone, the last one first
Undo(made) == IF made = <<>> THEN "discard" ELSE "unlink"

\* prepare_target_path moves away what is there: a copy of bl's to a name
\* beside it, anything else to .backups
PrepareLink(t) ==
  /\ at = "link"
  /\ t \in todo
  /\ ~Resolves(t)
  /\ \/ /\ prior' = [prior EXCEPT ![t] = links[t]]
        /\ saved' = IF links[t] = UserDir THEN saved \cup {t} ELSE saved
        /\ links' = [links EXCEPT ![t] = Absent]
        /\ linked' = Append(linked, t)
        /\ Go("putLink")
     \/ /\ Fault(Undo(linked))
        /\ UNCHANGED <<prior, saved, links, linked, result>>
  /\ UNCHANGED <<pkg, orphans, work, todo, command, doctor, installed>>

\* a target that leads to the package needs nothing
KeepLink(t) ==
  /\ at = "link"
  /\ t \in todo
  /\ Resolves(t)
  /\ todo' = todo \ {t}
  /\ UNCHANGED <<disk, work, linked, prior, command, at, faults, result, doctor, installed>>

\* the symlink, or a copy where symlinks are not wanted or not to be had, of
\* which a part may be there when it fails; that goes by the same
\* restore_target_path as in the rollback
PutLink ==
  /\ at = "putLink"
  /\ LET t == linked[Len(linked)]
     IN \/ /\ \E content \in {Link, goal.version} : links' = [links EXCEPT ![t] = content]
           /\ todo' = todo \ {t}
           /\ Go("link")
        \/ /\ Fault("unlink")
           /\ \E content \in {Absent, Partial, goal.version} :
                links' = [links EXCEPT ![t] = content]
           /\ UNCHANGED <<todo, result>>
  /\ UNCHANGED <<pkg, saved, orphans, work, linked, prior, command, doctor, installed>>

\* every target has its link; the copies that were moved away go, if that works
LinksDone ==
  /\ at = "link"
  /\ todo = {}
  /\ prior' = NoLinks
  /\ Go("finish")
  /\ UNCHANGED <<disk, work, todo, linked, command, doctor, installed>>

\* a link that cannot be undone ends the undoing, unless it is the one that failed
GiveUp(t, made) == IF t \in todo THEN Undo(made) ELSE "discard"

\* restore_target_path of the last link that is not undone, first half: what is
\* at the path goes
Unlink ==
  /\ at = "unlink"
  /\ LET t == linked[Len(linked)]
         rest == SubSeq(linked, 1, Len(linked) - 1)
     IN \/ /\ links' = [links EXCEPT ![t] = Absent]
           /\ Go("relink")
           /\ UNCHANGED linked
        \/ /\ links[t] # Absent
           /\ Fault(GiveUp(t, rest))
           /\ linked' = rest
           /\ UNCHANGED <<links, result>>
  /\ UNCHANGED <<pkg, saved, orphans, work, todo, prior, command, doctor, installed>>

\* second half: what was there comes back
Relink ==
  /\ at = "relink"
  /\ LET t == linked[Len(linked)]
         rest == SubSeq(linked, 1, Len(linked) - 1)
     IN /\ linked' = rest
        /\ \/ /\ links' = [links EXCEPT ![t] = prior[t]]
              /\ saved' = IF prior[t] = UserDir THEN saved \ {t} ELSE saved
              /\ Go(Undo(rest))
           \/ /\ prior[t] # Absent
              /\ Fault(GiveUp(t, rest))
              /\ UNCHANGED <<links, saved, result>>
  /\ UNCHANGED <<pkg, orphans, work, todo, prior, command, doctor, installed>>

-----------------------------------------------------------------------------
(***************************************************************************)
(* PackageReplacement                                                      *)
(***************************************************************************)

\* restore, first half: the new package goes, if there is something to put in
\* its place
Discard ==
  /\ at = "discard"
  /\ \/ /\ aside = "nothing"
        /\ End("failed")
        /\ UNCHANGED <<pkg, faults>>
     \/ /\ aside # "nothing"
        /\ pkg' = Absent
        /\ Go("restore")
     \/ aside # "nothing" /\ Fail /\ UNCHANGED pkg
  /\ UNCHANGED <<links, saved, orphans, work, linking, command, doctor, installed>>

\* restore, second half
Restore ==
  /\ at = "restore"
  /\ \/ /\ aside = "previous" /\ previous # Absent
        /\ pkg' = previous
        /\ previous' = Absent
        /\ End("failed")
        /\ UNCHANGED <<saved, faults>>
     \/ /\ aside = "backup"
        /\ pkg' = UserDir
        /\ saved' = saved \ {Root}
        /\ End("failed")
        /\ UNCHANGED <<previous, faults>>
     \/ /\ Fail \/ (aside = "previous" /\ previous = Absent /\ FailGone)
        /\ UNCHANGED <<pkg, saved, previous>>
  /\ UNCHANGED <<links, orphans, staging, aside, linking, command, doctor, installed>>

\* finish: what was moved aside is removed; failing that, the command fails,
\* after the fact
Finish ==
  /\ at = "finish"
  /\ \/ /\ previous' = Absent
        /\ End("done")
        /\ UNCHANGED faults
     \/ previous # Absent /\ Fail /\ UNCHANGED previous
  /\ installed' = TRUE
  /\ UNCHANGED <<disk, staging, aside, linking, command, doctor>>

-----------------------------------------------------------------------------
(***************************************************************************)
(* remove                                                                  *)
(***************************************************************************)

\* remove without --target: the targets of the metadata, unless the registry
\* does not know one of them any more, or every target when there is none
BeginRemove(force) ==
  /\ at = "idle"
  /\ Managed(pkg) \/ force
  /\ mode' = "remove"
  /\ forced' = force
  /\ todo' \in {{}, IF Managed(pkg) THEN pkg.targets ELSE Targets}
  /\ Goto("removeLinks")
  /\ UNCHANGED <<disk, work, linked, prior, goal, before, faults, result, doctor, installed>>

\* remove --target: the metadata read now is what is written at the end
BeginRemoveFrom(targets, force) ==
  /\ at = "idle"
  /\ Managed(pkg) \/ force
  /\ mode' = "removeSome"
  /\ forced' = force
  /\ goal' = IF Managed(pkg) THEN [pkg EXCEPT !.targets = @ \ targets] ELSE Absent
  /\ todo' = targets
  /\ Goto("removeLinks")
  /\ UNCHANGED <<disk, work, linked, prior, before, faults, result, doctor, installed>>

AnyLink(content) == TRUE

\* symlinks, whosesoever, and copies of bl's: not directories of the user's
Removable(content) == content \notin {UserDir, Partial}

RemoveLink(t) ==
  /\ at = "removeLinks"
  /\ t \in todo
  /\ \/ /\ links' = IF Removable(links[t]) \/ forced THEN [links EXCEPT ![t] = Absent]
                    ELSE links
        /\ todo' = todo \ {t}
        /\ UNCHANGED <<at, faults, result>>
     \/ /\ links[t] # Absent /\ (Removable(links[t]) \/ forced)
        /\ Fail
        /\ UNCHANGED <<links, todo>>
  /\ UNCHANGED <<pkg, saved, orphans, work, linked, prior, command, doctor, installed>>

RemoveLinksDone ==
  /\ at = "removeLinks"
  /\ todo = {}
  /\ Go(IF mode = "remove" THEN "removePackage" ELSE "writeMetadata")
  /\ UNCHANGED <<disk, work, linking, command, doctor, installed>>

RemovePackage ==
  /\ at = "removePackage"
  /\ \/ pkg' = Absent /\ installed' = FALSE /\ End("done") /\ UNCHANGED faults
     \/ pkg # Absent /\ Fail /\ UNCHANGED <<pkg, installed>>
  /\ UNCHANGED <<links, saved, orphans, work, linking, command, doctor>>

RewriteMetadata ==
  /\ at = "writeMetadata"
  /\ \/ /\ pkg' = IF goal = Absent THEN pkg ELSE goal
        /\ End("done")
        /\ UNCHANGED faults
     \/ goal # Absent /\ Fail /\ UNCHANGED pkg
  /\ UNCHANGED <<links, saved, orphans, work, linking, command, doctor, installed>>

-----------------------------------------------------------------------------

\* What the run knows goes with it.  What it leaves of its work directories
\* stays; those without metadata nobody reads.
Forget ==
  /\ orphans' = IF {staging, previous} \cap Packages # {} THEN {Leftover} ELSE orphans
  /\ at' = "idle" /\ mode' = "none" /\ forced' = FALSE /\ goal' = Absent
  /\ todo' = {} /\ linked' = <<>> /\ prior' = NoLinks
  /\ staging' = Absent /\ previous' = Absent /\ aside' = "nothing"
  /\ faults' = 0 /\ result' = "running" /\ before' = <<Absent, NoLinks>>

Return ==
  /\ at = "end"
  /\ Forget
  /\ UNCHANGED <<pkg, links, saved, doctor, installed>>

\* a copy that is being made may be there in part
Crash ==
  /\ at # "idle"
  /\ Forget
  /\ \/ UNCHANGED links
     \/ /\ at = "putLink"
        /\ \E content \in {Partial, goal.version} :
             links' = [links EXCEPT ![linked[Len(linked)]] = content]
  /\ UNCHANGED <<pkg, saved, doctor, installed>>

\* a tool replaces a symlink by the directory it leads to
ToolCopies(t) ==
  /\ links[t] = Link
  /\ Managed(pkg)
  /\ links' = [links EXCEPT ![t] = pkg.version]
  /\ UNCHANGED <<pkg, saved, orphans, work, linking, command, at, faults, result, doctor,
                 installed>>

(***************************************************************************)
(* doctor --fix                                                            *)
(***************************************************************************)

\* read_installed looks at every directory that has metadata, whatever its name
Listed == {p \in {pkg, staging, previous} : Managed(p)} \cup orphans

\* The targets that it will find in need of repair are among those listed; a
\* leftover may name any.  The others it passes by.
DoctorStart ==
  /\ doctor = Away
  /\ \E targets \in SUBSET ((IF Leftover \in orphans THEN Targets ELSE {})
                             \cup UNION {p.targets : p \in Listed \ {Leftover}}) :
       doctor' = Looking(targets)
  /\ UNCHANGED <<disk, work, linking, command, at, faults, result, installed>>

\* A link that is missing, or does not lead to the package, is to be made anew;
\* what is there goes to .backups.  One that is in order, a copy, a directory of
\* the user's, and one that cannot be repaired, stays.
DoctorLook(t) ==
  /\ doctor.step = "look"
  /\ t \in doctor.todo
  /\ \/ /\ links[t] \in {Absent, UserLink, Link} /\ ~Resolves(t)
        /\ links' = [links EXCEPT ![t] = Absent]
        /\ doctor' = Visit("link", doctor.todo \ {t}, t, links[t])
     \/ doctor' = Looking(doctor.todo \ {t}) /\ UNCHANGED links
  /\ UNCHANGED <<pkg, saved, orphans, work, linking, command, at, faults, result, installed>>

\* what a copy of the package directory is
Copies == IF Managed(pkg) THEN {pkg.version} ELSE {pkg} \ {Absent}

\* the symlink, or the copy, or what a copy that fails leaves
DoctorLink ==
  /\ doctor.step = "link"
  /\ \/ /\ \E content \in {Link} \cup Copies :
             links' = [links EXCEPT ![doctor.target] = content]
        /\ doctor' = Looking(doctor.todo)
     \/ /\ \E content \in {Absent, Partial} \cup (Copies \ {UserDir}) :
             links' = [links EXCEPT ![doctor.target] = content]
        /\ doctor' = Visit("remove", doctor.todo, doctor.target, doctor.was)
  /\ UNCHANGED <<pkg, saved, orphans, work, linking, command, at, faults, result, installed>>

\* restore_target_path after it, in its two halves
DoctorRemove ==
  /\ doctor.step = "remove"
  /\ \/ /\ links' = [links EXCEPT ![doctor.target] = Absent]
        /\ doctor' = Visit("putBack", doctor.todo, doctor.target, doctor.was)
     \/ doctor' = Looking(doctor.todo) /\ UNCHANGED links
  /\ UNCHANGED <<pkg, saved, orphans, work, linking, command, at, faults, result, installed>>

DoctorPutBack ==
  /\ doctor.step = "putBack"
  /\ \/ links' = [links EXCEPT ![doctor.target] = doctor.was]
     \/ UNCHANGED links
  /\ doctor' = Looking(doctor.todo)
  /\ UNCHANGED <<pkg, saved, orphans, work, linking, command, at, faults, result, installed>>

\* every work directory in the packages directory goes
DoctorSweep ==
  /\ doctor = Looking({})
  /\ doctor' = Away
  /\ orphans' = {}
  /\ staging' = Absent
  /\ previous' = Absent
  /\ UNCHANGED <<pkg, links, saved, aside, linking, command, at, faults, result, installed>>

DoctorKilled ==
  /\ doctor # Away
  /\ doctor' = Away
  /\ UNCHANGED <<disk, work, linking, command, at, faults, result, installed>>

Doctor ==
  \/ DoctorStart
  \/ \E t \in Targets : DoctorLook(t)
  \/ DoctorLink
  \/ DoctorRemove
  \/ DoctorPutBack
  \/ DoctorSweep
  \/ DoctorKilled

-----------------------------------------------------------------------------

InstallStep ==
  \/ \E v \in Versions, ts \in SUBSET Targets : BeginInstall(v, ts)
  \/ Stage
  \/ WriteMetadata
  \/ MoveAside
  \/ Put
  \/ \E t \in Targets : PrepareLink(t) \/ KeepLink(t)
  \/ PutLink
  \/ LinksDone
  \/ Unlink
  \/ Relink
  \/ Discard
  \/ Restore
  \/ Finish

RemoveStep ==
  \/ \E f \in BOOLEAN : BeginRemove(f)
  \/ \E f \in BOOLEAN, ts \in (SUBSET Targets) \ {{}} : BeginRemoveFrom(ts, f)
  \/ \E t \in Targets : RemoveLink(t)
  \/ RemoveLinksDone
  \/ RemovePackage
  \/ RewriteMetadata

RunStep == InstallStep \/ RemoveStep \/ Return

ToolStep == at = "idle" /\ \E t \in Targets : ToolCopies(t)

\* the history variable that goes with every step
Stays(calm) == clean' = (clean /\ calm)

(***************************************************************************)
(* The environments: runs may crash; moreover the doctor is called, which  *)
(* does nothing but sweep while a command is at work; or is called between *)
(* the commands only.                                                      *)
(***************************************************************************)
Next ==
  \/ (RunStep \/ ToolStep) /\ Stays(faults' = 0)
  \/ Crash /\ Stays(FALSE)

DoctorStep == Doctor /\ Stays(FALSE)

\* the doctor has no link to repair
Quiet == doctor \in {Away, Looking({})}

DoctoredNext == (Quiet /\ Next) \/ (DoctorStep /\ (at = "idle" \/ Quiet'))

RepairNext == (Quiet /\ Next) \/ (DoctorStep /\ at = "idle")

Spec == Init /\ [][Next]_vars

RepairSpec == Init /\ [][RepairNext]_vars

-----------------------------------------------------------------------------
(***************************************************************************)
(* The skill as it counts: while an install is at work, what it found      *)
(***************************************************************************)

Installing == mode = "install" /\ at # "end"

SettledPackage == IF Installing THEN before[1] ELSE pkg

SettledLinks == IF Installing THEN before[2] ELSE links

CommandPhase ==
  CASE at = "idle" -> "idle"
    [] at = "end" -> "over"
    [] OTHER -> IF mode = "install" THEN "install" ELSE "remove"

Lifecycle == INSTANCE SkillLifecycle
  WITH package <- SettledPackage, places <- SettledLinks, phase <- CommandPhase,
       failures <- faults

-----------------------------------------------------------------------------
(***************************************************************************)
(* Properties                                                              *)
(***************************************************************************)

\* An install or update that fails because of one file operation is all
\* undone or all done: every target has what it had, and so has the package
\* directory unless it was empty; or, when only the cleaning up failed,
\* package and links are as asked for.
FailureIsAtomic ==
  at = "end" /\ mode = "install" /\ faults <= 1 /\ result # "done" =>
    \/ /\ links = before[2]
       /\ before[1] # Absent => pkg = before[1]
    \/ /\ pkg = goal
       /\ \A t \in goal.targets : links[t] \in {Link, goal.version}

\* A directory that is not bl's, at the package's place or a target's, is still
\* there or under .backups after every step, unless a forced removal is what the
\* user asked for; after the doctor's steps too, as long as it repairs no link
\* while a command is at work.
UserDirs == saved \cup {t \in Targets : links[t] = UserDir}
                  \cup (IF pkg = UserDir THEN {Root} ELSE {})

UserDirsKept == [][forced \/ UserDirs \subseteq UserDirs']_vars

\* Once installed, the skill is on disk in full, under its name or a work
\* name, until it is removed: wherever a run crashes, and whatever fails.
SkillOnDisk == installed => Listed # {}

\* After commands that meet no error, every target the metadata names leads to
\* the installed version, by a link or by a copy that is not out of date.
PlacementsCurrent ==
  clean /\ at = "idle" /\ Managed(pkg)
    => \A t \in pkg.targets : links[t] \in {Link, pkg.version}

\* What the help of `remove' says: no target keeps a link or a copy, at least
\* when nothing has failed since the first install.
RemovedEverywhere ==
  clean /\ at = "end" /\ mode = "remove"
    => \A t \in Targets : links[t] \notin Versions \cup {Link}
=============================================================================
