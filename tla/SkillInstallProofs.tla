------------------------- MODULE SkillInstallProofs -------------------------
(***************************************************************************)
(* What SkillInstall guarantees for any targets, versions and number of    *)
(* failing file operations, and that without a doctor it implements the    *)
(* life cycle of a skill.                                                  *)
(***************************************************************************)
EXTENDS MCSkillInstall, SequenceTheorems, TLAPS

\* a step where the doctor is about, or where it is not
AnyNext == DoctoredNext \/ Next

DoctoredSpec == Init /\ [][DoctoredNext]_vars

\* how a step of the run, of the doctor or of a tool begins
LEMMA Steps ==
  ASSUME [AnyNext]_vars
  PROVE  \/ InstallStep \/ RemoveStep \/ Return \/ Crash \/ ToolStep
         \/ Doctor /\ (at = "idle" \/ Quiet')
         \/ UNCHANGED vars
BY DEF AnyNext, DoctoredNext, Next, RunStep, DoctorStep

-----------------------------------------------------------------------------
(***************************************************************************)
(* Types, and what the package directory holds at each step                *)
(***************************************************************************)

Phase ==
  /\ at \in {"stage", "metadata", "moveAside", "put", "link", "putLink", "unlink",
             "relink", "discard", "restore", "finish"} => goal \in Packages
  /\ at \in {"moveAside", "put"} => staging \in {goal, Absent}
  /\ at \in {"put", "restore"} => pkg = Absent
  /\ at \in {"link", "putLink", "unlink", "relink", "discard", "finish"} => pkg = goal
  /\ at \in {"removeLinks", "removePackage", "writeMetadata"} /\ ~forced => Managed(pkg)

LEMMA GoalType ==
  ASSUME NEW v \in Versions, NEW ts \in SUBSET Targets
  PROVE  [version |-> v, targets |-> ts] \in Packages
BY DEF Packages

LEMMA LinkedType ==
  ASSUME linked \in Seq(Targets)
  PROVE  SubSeq(linked, 1, Len(linked) - 1) \in Seq(Targets)
BY SMT

\* a sequence without its last element
LEMMA RestOf ==
  ASSUME NEW s \in Seq(Targets), Len(s) # 0
  PROVE  LET rest == SubSeq(s, 1, Len(s) - 1)
         IN /\ Len(rest) = Len(s) - 1
            /\ \A i \in 1 .. Len(s) - 1 : rest[i] = s[i]
<1> DEFINE n == Len(s) - 1
<1>1. n \in Nat /\ n \in Int /\ 1 \in Int /\ \A i \in 1 .. n : s[i] \in Targets
  OBVIOUS
<1> HIDE DEF n
<1>2. /\ Len(SubSeq(s, 1, n)) = IF 1 <= n THEN n - 1 + 1 ELSE 0
      /\ \A i \in 1 .. n - 1 + 1 : SubSeq(s, 1, n)[i] = s[1 + i - 1]
  BY <1>1, SubSeqProperties
<1>3. Len(SubSeq(s, 1, n)) = n
  BY <1>1, <1>2
<1>4. \A i \in 1 .. n : SubSeq(s, 1, n)[i] = s[i]
  <2> SUFFICES ASSUME NEW i \in 1 .. n PROVE SubSeq(s, 1, n)[i] = s[i]
    OBVIOUS
  <2>1. i \in 1 .. n - 1 + 1 /\ 1 + i - 1 = i
    BY <1>1
  <2> QED
    BY <1>2, <2>1
<1> QED
  BY <1>3, <1>4 DEF n

LEMMA NoLinksType == NoLinks \in [Targets -> Contents]
BY DEF NoLinks, Contents

LEMMA TypeInit == Init => TypeOK /\ Phase
<1> SUFFICES ASSUME Init PROVE TypeOK /\ Phase
  OBVIOUS
<1>1. /\ links \in [Targets -> Contents] /\ linked \in Seq(Targets)
      /\ prior \in [Targets -> Contents]
  BY NoLinksType DEF Init, Contents
<1>2. before \in (Packages \cup {UserDir, Absent}) \X [Targets -> Contents]
  BY NoLinksType DEF Init
<1>3. Phase
  BY DEF Init, Phase
<1>4. /\ pkg \in {UserDir, Absent} /\ saved = {} /\ orphans = {}
      /\ at = "idle" /\ mode = "none" /\ forced = FALSE /\ goal = Absent /\ todo = {}
      /\ staging = Absent /\ previous = Absent /\ aside = "nothing"
      /\ faults \in 0 .. MaxFaults /\ result = "running"
      /\ doctor \in Visits /\ installed = FALSE /\ clean = TRUE
  BY MaxFaultsAssumption DEF Init, Visits, Away, Visit, Places, Contents
<1> QED
  BY <1>1, <1>2, <1>3, <1>4 DEF TypeOK, Labels

LEMMA TypeStep ==
  ASSUME TypeOK, Phase, [AnyNext]_vars
  PROVE  TypeOK' /\ Phase'
<1>a. linked \in Seq(Targets)
  BY DEF TypeOK
<1>b. \A t \in Targets : Append(linked, t) \in Seq(Targets)
  BY <1>a
<1>c. SubSeq(linked, 1, Len(linked) - 1) \in Seq(Targets)
  BY <1>a, LinkedType
<1> USE PathAssumption, PackageAssumption, MaxFaultsAssumption
    DEF TypeOK, Phase, disk, work, linking, command, Goto, Fault, End, Fail, FailGone, Go,
        Managed
<1>0. clean' \in BOOLEAN
  BY DEF AnyNext, DoctoredNext, Next, DoctorStep, Stays, vars
<1>1. ASSUME NEW v \in Versions, NEW ts \in SUBSET Targets, BeginInstall(v, ts)
      PROVE  TypeOK' /\ Phase'
  BY <1>0, <1>1, GoalType DEF BeginInstall, Labels
<1>2. CASE Stage
  BY <1>0, <1>2 DEF Stage, Labels
<1>3. CASE WriteMetadata
  BY <1>0, <1>3 DEF WriteMetadata, Labels
<1>4. CASE MoveAside
  BY <1>0, <1>4 DEF MoveAside, BlOwned, Labels, Places
<1>5. CASE Put
  BY <1>0, <1>5 DEF Put, PutBack, Labels, Places
<1>6. ASSUME NEW t \in Targets, PrepareLink(t) PROVE TypeOK' /\ Phase'
  <2>1. linked' \in Seq(Targets)
    <3>1. linked' = linked \/ linked' = Append(linked, t)
      BY <1>6 DEF PrepareLink
    <3>2. Append(linked, t) \in Seq(Targets)
      BY <1>b
    <3> QED
      BY <3>1, <3>2, <1>a
  <2>2. /\ links' \in {links, [links EXCEPT ![t] = Absent]}
        /\ prior' \in {prior, [prior EXCEPT ![t] = links[t]]}
        /\ saved' \in {saved, saved \cup {t}}
    BY <1>6 DEF PrepareLink
  <2>3. links' \in [Targets -> Contents] /\ prior' \in [Targets -> Contents]
    BY <2>2 DEF Contents
  <2>4. saved' \subseteq Places
    BY <2>2 DEF Places
  <2>5. at = "link" /\ at' \in {"putLink", "discard", "unlink"}
    BY <1>6 DEF PrepareLink, Undo
  <2>6. faults' \in 0 .. MaxFaults /\ result' = result
    BY <1>6 DEF PrepareLink
  <2>7. UNCHANGED <<pkg, orphans, work, todo, command, doctor, installed>>
    BY <1>6 DEF PrepareLink
  <2> QED
    BY <1>0, <2>1, <2>3, <2>4, <2>5, <2>6, <2>7 DEF Labels
<1>7. ASSUME NEW t \in Targets, KeepLink(t) PROVE TypeOK' /\ Phase'
  BY <1>0, <1>7 DEF KeepLink
<1>8. CASE PutLink
  <2>1. goal.version \in Versions
    BY <1>8 DEF PutLink, Packages
  <2>2. links' \in [Targets -> Contents]
    BY <1>8, <2>1 DEF PutLink, Contents
  <2>3. /\ at = "putLink" /\ at' \in {"link", "unlink"} /\ todo' \subseteq todo
        /\ faults' \in 0 .. MaxFaults /\ result' = result
        /\ UNCHANGED <<pkg, saved, orphans, work, linked, prior, command, doctor, installed>>
    BY <1>8 DEF PutLink
  <2> QED
    BY <1>0, <2>2, <2>3 DEF Labels
<1>9. CASE LinksDone
  BY <1>0, <1>9 DEF LinksDone, Labels, NoLinks, Contents
<1>10. CASE Unlink \/ Relink
  <2>1. linked' \in Seq(Targets)
    BY <1>10, <1>a, <1>c DEF Unlink, Relink
  <2>2. links' \in [Targets -> Contents]
    BY <1>10 DEF Unlink, Relink, Contents
  <2>3. saved' \subseteq Places
    BY <1>10 DEF Unlink, Relink
  <2>4. /\ at' \in {"discard", "unlink", "relink"} /\ faults' \in 0 .. MaxFaults
        /\ result' = result
    BY <1>10 DEF Unlink, Relink, Undo, GiveUp
  <2>5. /\ at \in {"unlink", "relink"}
        /\ UNCHANGED <<pkg, orphans, work, todo, prior, command, doctor, installed>>
    BY <1>10 DEF Unlink, Relink
  <2> QED
    BY <1>0, <2>1, <2>2, <2>3, <2>4, <2>5 DEF Labels
<1>11. CASE Discard \/ Restore
  BY <1>0, <1>11 DEF Discard, Restore, Labels
<1>12. CASE Finish
  BY <1>0, <1>12 DEF Finish, Labels
<1>13. ASSUME NEW f \in BOOLEAN, BeginRemove(f) PROVE TypeOK' /\ Phase'
  <2>1. todo' \subseteq Targets
    BY <1>13 DEF BeginRemove, Packages
  <2> QED
    BY <1>0, <1>13, <2>1 DEF BeginRemove, Labels
<1>14. ASSUME NEW f \in BOOLEAN, NEW ts \in SUBSET Targets, BeginRemoveFrom(ts, f)
       PROVE  TypeOK' /\ Phase'
  <2>1. goal' \in Packages \cup {Absent}
    BY <1>14 DEF BeginRemoveFrom, Packages
  <2> QED
    BY <1>0, <1>14, <2>1 DEF BeginRemoveFrom, Labels
<1>15. ASSUME NEW t \in Targets, RemoveLink(t) PROVE TypeOK' /\ Phase'
  BY <1>0, <1>15 DEF RemoveLink, Labels, Contents
<1>16. CASE RemoveLinksDone
  BY <1>0, <1>16 DEF RemoveLinksDone, Labels
<1>17. CASE RemovePackage \/ RewriteMetadata
  <2>1. pkg' \in {pkg, Absent, goal} /\ (pkg' = goal => goal # Absent \/ pkg' = Absent)
    BY <1>17 DEF RemovePackage, RewriteMetadata
  <2>2. at' = "end" /\ result' \in {"running", "done", "failed"}
    BY <1>17 DEF RemovePackage, RewriteMetadata
  <2>3. faults' \in 0 .. MaxFaults
    <3>1. CASE RemovePackage
      BY <3>1 DEF RemovePackage
    <3>2. CASE RewriteMetadata
      BY <3>2 DEF RewriteMetadata
    <3> QED
      BY <1>17, <3>1, <3>2
  <2>4. installed' \in BOOLEAN
    BY <1>17, Zenon DEF RemovePackage, RewriteMetadata
  <2>5. UNCHANGED <<links, saved, orphans, work, linking, command, doctor>>
    BY <1>17 DEF RemovePackage, RewriteMetadata
  <2> QED
    BY <1>0, <2>1, <2>2, <2>3, <2>4, <2>5 DEF Labels
<1>18. CASE Return \/ Crash
  <2>0. links' \in [Targets -> Contents]
    BY <1>18 DEF Return, Crash, Contents, Packages
  <2>1. /\ UNCHANGED <<pkg, saved, doctor, installed>>
        /\ at' = "idle" /\ mode' = "none" /\ forced' = FALSE /\ goal' = Absent
        /\ todo' = {} /\ linked' = <<>> /\ prior' = NoLinks
        /\ staging' = Absent /\ previous' = Absent /\ aside' = "nothing"
        /\ faults' = 0 /\ result' = "running" /\ before' = <<Absent, NoLinks>>
    BY <1>18 DEF Return, Crash, Forget
  <2>2. orphans' \subseteq {Leftover}
    BY <1>18 DEF Return, Crash, Forget
  <2>3. linked' \in Seq(Targets) /\ prior' \in [Targets -> Contents]
        /\ before' \in (Packages \cup {UserDir, Absent}) \X [Targets -> Contents]
    BY <2>1, NoLinksType
  <2>4. Phase'
    BY <2>1
  <2>5. at' \in Labels /\ faults' \in 0 .. MaxFaults
    BY <2>1 DEF Labels
  <2> QED
    BY <1>0, <2>0, <2>1, <2>2, <2>3, <2>4, <2>5
<1>19. ASSUME NEW t \in Targets, ToolCopies(t) PROVE TypeOK' /\ Phase'
  <2>1. pkg.version \in Versions
    BY <1>19 DEF ToolCopies, Packages
  <2> QED
    BY <1>0, <1>19, <2>1 DEF ToolCopies, Contents
<1>20. CASE Doctor
  <2> USE DEF Visits, Visit
  <2>1. CASE DoctorStart
    <3>1. \A p \in Listed \ {Leftover} : p.targets \subseteq Targets
      BY DEF Listed, Packages
    <3>2. doctor' \in Visits
      BY <2>1, <3>1 DEF DoctorStart, Looking, Places, Contents
    <3> QED
      BY <1>0, <2>1, <3>2 DEF DoctorStart
  <2>2. ASSUME NEW t \in Targets, DoctorLook(t) PROVE TypeOK' /\ Phase'
    <3>1. doctor' \in Visits /\ links' \in [Targets -> Contents]
      BY <2>2 DEF DoctorLook, Looking, Places, Contents
    <3> QED
      BY <1>0, <2>2, <3>1 DEF DoctorLook
  <2>3. CASE DoctorLink
    <3>1. Copies \subseteq Contents
      BY DEF Copies, Contents, Packages
    <3>2. links' \in [Targets -> Contents]
      BY <2>3, <3>1 DEF DoctorLink, Contents
    <3>3. doctor' \in Visits
      BY <2>3 DEF DoctorLink, Looking, Places, Contents
    <3> QED
      BY <1>0, <2>3, <3>2, <3>3 DEF DoctorLink
  <2>4. CASE DoctorRemove \/ DoctorPutBack
    <3>1. doctor' \in Visits /\ links' \in [Targets -> Contents]
      BY <2>4 DEF DoctorRemove, DoctorPutBack, Looking, Places, Contents
    <3> QED
      BY <1>0, <2>4, <3>1 DEF DoctorRemove, DoctorPutBack
  <2>5. CASE DoctorSweep
    <3>1. /\ orphans' = {} /\ staging' = Absent /\ previous' = Absent
          /\ UNCHANGED <<pkg, links, saved, aside, linking, command, at, faults, result, installed>>
      BY <2>5 DEF DoctorSweep
    <3>2. doctor' \in Visits
      BY <2>5 DEF DoctorSweep, Away, Places, Contents
    <3> QED
      BY <1>0, <3>1, <3>2
  <2>6. CASE DoctorKilled
    <3>1. doctor' \in Visits
      BY <2>6 DEF DoctorKilled, Away, Places, Contents
    <3> QED
      BY <1>0, <2>6, <3>1 DEF DoctorKilled
  <2> QED
    BY <1>20, <2>1, <2>2, <2>3, <2>4, <2>5, <2>6 DEF Doctor
<1>21. CASE UNCHANGED vars
  BY <1>0, <1>21 DEF vars
<1> QED
  BY Steps, <1>1, <1>2, <1>3, <1>4, <1>5, <1>6, <1>7, <1>8, <1>9, <1>10, <1>11, <1>12,
     <1>13, <1>14, <1>15, <1>16, <1>17, <1>18, <1>19, <1>20, <1>21
  DEF InstallStep, RemoveStep, ToolStep

\* Whatever fails, crashes or is repaired, packages, links and metadata are among
\* the things the code puts there.
THEOREM TypeCorrect == DoctoredSpec => []TypeOK
<1>1. Init => TypeOK /\ Phase
  BY TypeInit
<1>2. (TypeOK /\ Phase) /\ [DoctoredNext]_vars => (TypeOK /\ Phase)'
  BY TypeStep DEF AnyNext
<1> QED
  BY <1>1, <1>2, PTL DEF DoctoredSpec

-----------------------------------------------------------------------------
(***************************************************************************)
(* Directories of the user's                                               *)
(***************************************************************************)

\* Between its two looks the doctor has taken what was at the path away, and no
\* command is at work.
Mending ==
  /\ Quiet \/ at = "idle"
  /\ doctor.step \in {"link", "remove", "putBack"} =>
       doctor.target \in Targets /\ links[doctor.target] # UserDir

LEMMA QuietMends == Quiet => Mending
BY DEF Quiet, Mending, Away, Looking, Visit

\* no command and no tool has to do with the doctor
LEMMA QuietStays ==
  ASSUME Quiet, [Next]_vars
  PROVE  Quiet'
<1>1. CASE InstallStep
  BY <1>1 DEF InstallStep, BeginInstall, Stage, WriteMetadata, MoveAside, Put, PrepareLink,
              KeepLink, PutLink, LinksDone, Unlink, Relink, Discard, Restore, Finish, Quiet
<1>2. CASE RemoveStep
  BY <1>2 DEF RemoveStep, BeginRemove, BeginRemoveFrom, RemoveLink, RemoveLinksDone,
              RemovePackage, RewriteMetadata, Quiet
<1>3. CASE Return \/ Crash \/ ToolStep \/ UNCHANGED vars
  BY <1>3 DEF Return, Crash, ToolStep, ToolCopies, vars, Quiet
<1> QED
  BY <1>1, <1>2, <1>3 DEF Next, RunStep

\* a doctor that has no link to repair repairs none
LEMMA QuietDoctor ==
  ASSUME Quiet, Doctor
  PROVE  UNCHANGED <<pkg, links, saved, linked, prior, todo, at>>
<1>1. doctor.step \in {"away", "look"} /\ (doctor.step = "look" => doctor.todo = {})
  BY DEF Quiet, Away, Looking, Visit
<1> QED
  BY <1>1 DEF Doctor, DoctorStart, DoctorLook, DoctorLink, DoctorRemove, DoctorPutBack,
              DoctorSweep, DoctorKilled, disk, linking

LEMMA MendingStep ==
  ASSUME TypeOK, Mending, [DoctoredNext]_vars
  PROVE  Mending'
<1> USE PathAssumption, PackageAssumption
<1>1. CASE Quiet /\ [Next]_vars
  <2>1. Quiet'
    BY <1>1, QuietStays
  <2> QED
    BY <2>1 DEF Quiet, Mending, Away, Looking, Visit
<1>2. CASE Doctor /\ (at = "idle" \/ Quiet')
  <2>1. at' = at /\ links \in [Targets -> Contents]
    BY <1>2 DEF TypeOK, Doctor, DoctorStart, DoctorLook, DoctorLink, DoctorRemove,
                DoctorPutBack, DoctorSweep, DoctorKilled
  <2>2. Quiet' \/ at' = "idle"
    BY <1>2, <2>1
  <2>3. ASSUME NEW t \in Targets, DoctorLook(t)
        PROVE  doctor'.step \in {"link", "remove", "putBack"} =>
                 doctor'.target \in Targets /\ links'[doctor'.target] # UserDir
    BY <2>1, <2>3 DEF DoctorLook, Visit, Looking
  <2>4. CASE DoctorLink \/ DoctorRemove
    <3>1. doctor.target \in Targets /\ links[doctor.target] # UserDir
      BY <2>4 DEF Mending, DoctorLink, DoctorRemove
    <3>2. /\ doctor'.step \in {"link", "remove", "putBack"} =>
               /\ doctor'.target = doctor.target
               /\ \E content \in {Absent, Partial} \cup (Copies \ {UserDir}) :
                    links' = [links EXCEPT ![doctor.target] = content]
      BY <2>4 DEF DoctorLink, DoctorRemove, Looking, Visit
    <3> QED
      BY <2>1, <2>2, <3>1, <3>2 DEF Mending
  <2>5. CASE DoctorStart \/ DoctorPutBack \/ DoctorSweep \/ DoctorKilled
    <3>1. doctor'.step \in {"away", "look"}
      BY <2>5 DEF DoctorStart, DoctorPutBack, DoctorSweep, DoctorKilled, Looking, Away, Visit
    <3> QED
      BY <2>2, <3>1 DEF Mending
  <2> QED
    BY <1>2, <2>2, <2>3, <2>4, <2>5 DEF Doctor, Mending
<1>3. CASE UNCHANGED vars
  BY <1>3 DEF vars, disk, Mending, Quiet
<1> QED
  BY <1>1, <1>2, <1>3 DEF DoctoredNext, DoctorStep

\* What the undoing of links relies on: the run has linked a target once at
\* most, and no directory of the user's has come to one since.
Linking ==
  /\ at \in {"idle", "stage", "metadata", "moveAside", "put"} => linked = <<>>
  /\ at \in {"putLink", "unlink", "relink"} => linked # <<>>
  /\ at \in {"link", "putLink", "unlink", "relink"} =>
       \A i \in 1 .. Len(linked) :
         /\ links[linked[i]] # UserDir
         /\ \A j \in 1 .. Len(linked) : linked[i] = linked[j] => i = j
  /\ at = "link" => \A i \in 1 .. Len(linked) : linked[i] \notin todo
  /\ at = "putLink" => \A i \in 1 .. Len(linked) - 1 : linked[i] \notin todo

LEMMA LinkingStep ==
  ASSUME TypeOK, Phase, Mending, Linking, [AnyNext]_vars
  PROVE  Linking'
<1> USE PathAssumption
    DEF Linking, disk, work, linking, command, Goto, Fault, End, Fail, FailGone, Go
<1>0. linked \in Seq(Targets) /\ links \in [Targets -> Contents]
  BY DEF TypeOK
<1>1. ASSUME NEW v \in Versions, NEW ts \in SUBSET Targets, BeginInstall(v, ts)
      PROVE  Linking'
  BY <1>1 DEF BeginInstall
<1>2. CASE Stage \/ WriteMetadata \/ MoveAside
  BY <1>2 DEF Stage, WriteMetadata, MoveAside
<1>3. CASE Put
  BY <1>3 DEF Put
<1>4. ASSUME NEW t \in Targets, PrepareLink(t) PROVE Linking'
  <2>1. CASE UNCHANGED <<linked, links, todo>> /\ at' = Undo(linked)
    BY <1>4, <2>1 DEF PrepareLink, Undo
  <2>2. CASE /\ links' = [links EXCEPT ![t] = Absent] /\ linked' = Append(linked, t)
             /\ at' = "putLink" /\ todo' = todo
    <3>1. Len(linked') = Len(linked) + 1 /\ Len(linked) \in Nat /\ linked' # <<>>
      BY <1>0, <2>2
    <3>2. /\ linked'[Len(linked) + 1] = t
          /\ \A i \in 1 .. Len(linked) : linked'[i] = linked[i] /\ linked[i] \in Targets
      BY <1>0, <2>2
    <3>3. /\ t \in todo /\ links'[t] = Absent
          /\ \A i \in 1 .. Len(linked) :
               /\ linked[i] \notin todo
               /\ links'[linked[i]] # UserDir
               /\ \A j \in 1 .. Len(linked) : linked[i] = linked[j] => i = j
      BY <1>0, <1>4, <2>2, <3>2 DEF PrepareLink
    <3> QED
      BY <2>2, <3>1, <3>2, <3>3
  <2> QED
    BY <1>4, <2>1, <2>2 DEF PrepareLink
<1>5. ASSUME NEW t \in Targets, KeepLink(t) PROVE Linking'
  BY <1>5 DEF KeepLink
<1>6. CASE PutLink
  <2> DEFINE t == linked[Len(linked)]
  <2>1. Len(linked) \in Nat /\ linked # <<>> /\ linked' = linked /\ at = "putLink"
    BY <1>0, <1>6 DEF PutLink
  <2>2. /\ \E content \in {Link, Absent, Partial, goal.version} :
             links' = [links EXCEPT ![t] = content]
        /\ at' \in {"link", "unlink"} /\ todo' \subseteq todo
        /\ at' = "link" => todo' = todo \ {t}
    BY <1>6 DEF PutLink
  <2>3. goal.version # UserDir
    BY <1>6 DEF PutLink, Phase, Packages
  <2>4. \A u \in Targets : links[u] # UserDir => links'[u] # UserDir
    BY <1>0, <2>2, <2>3
  <2>5. \A i \in 1 .. Len(linked) : linked[i] \in Targets
    BY <1>0
  <2> QED
    BY <2>1, <2>2, <2>4, <2>5
<1>7. CASE LinksDone \/ Discard \/ Restore \/ Finish
  BY <1>7 DEF LinksDone, Discard, Restore, Finish
<1>8. CASE Unlink \/ Relink
  <2> DEFINE t == linked[Len(linked)]
  <2>1. Len(linked) \in Nat \ {0} /\ at \in {"unlink", "relink"}
    BY <1>0, <1>8 DEF Unlink, Relink
  <2>2. /\ \A i \in 1 .. Len(linked) : linked[i] \in Targets
        /\ \A i \in 1 .. Len(linked) :
             /\ links[linked[i]] # UserDir
             /\ \A j \in 1 .. Len(linked) : linked[i] = linked[j] => i = j
    BY <1>0, <2>1
  <2>3. CASE linked' = linked /\ links' = [links EXCEPT ![t] = Absent] /\ at' = "relink"
    <3>1. \A u \in Targets : links[u] # UserDir => links'[u] # UserDir
      BY <1>0, <2>3
    <3> QED
      BY <2>1, <2>2, <2>3, <3>1
  <2>4. CASE /\ linked' = SubSeq(linked, 1, Len(linked) - 1)
             /\ at' = "discard" \/ (at' = "unlink" /\ linked' # <<>>)
             /\ \A u \in Targets \ {t} : links'[u] = links[u]
    <3>1. /\ Len(linked') = Len(linked) - 1
          /\ \A i \in 1 .. Len(linked) - 1 : linked'[i] = linked[i]
      BY <1>0, <2>1, <2>4, RestOf
    <3>2. \A i \in 1 .. Len(linked) - 1 : linked[i] # t /\ i \in 1 .. Len(linked)
      BY <2>1, <2>2
    <3>3. \A i \in 1 .. Len(linked') :
            /\ links'[linked'[i]] # UserDir
            /\ \A j \in 1 .. Len(linked') : linked'[i] = linked'[j] => i = j
      <4> SUFFICES ASSUME NEW i \in 1 .. Len(linked')
                   PROVE  /\ links'[linked'[i]] # UserDir
                          /\ \A j \in 1 .. Len(linked') : linked'[i] = linked'[j] => i = j
        OBVIOUS
      <4>1. i \in 1 .. Len(linked) - 1 /\ linked'[i] = linked[i]
        BY <3>1
      <4>2. links'[linked'[i]] # UserDir
        BY <2>2, <2>4, <3>2, <4>1
      <4> QED
        BY <2>2, <3>1, <3>2, <4>1, <4>2
    <3> QED
      BY <2>4, <3>3
  <2> QED
    <3>1. CASE Unlink
      BY <1>0, <2>3, <2>4, <3>1 DEF Unlink, GiveUp, Undo
    <3>2. CASE Relink
      BY <1>0, <2>4, <3>2 DEF Relink, GiveUp, Undo
    <3> QED
      BY <1>8, <3>1, <3>2
<1>9. CASE RemoveStep
  BY <1>9 DEF RemoveStep, BeginRemove, BeginRemoveFrom, RemoveLink, RemoveLinksDone,
              RemovePackage, RewriteMetadata
<1>10. CASE Return \/ Crash
  BY <1>10 DEF Return, Crash, Forget
<1>11. CASE ToolStep
  BY <1>11 DEF ToolStep, ToolCopies
<1>12. CASE Doctor
  <2>1. CASE Quiet
    BY <1>12, <2>1, QuietDoctor
  <2>2. CASE at = "idle"
    <3>1. UNCHANGED <<linked, at>>
      BY <1>12 DEF Doctor, DoctorStart, DoctorLook, DoctorLink, DoctorRemove, DoctorPutBack,
                   DoctorSweep, DoctorKilled
    <3> QED
      BY <2>2, <3>1
  <2> QED
    BY <2>1, <2>2 DEF Mending
<1>13. CASE UNCHANGED vars
  BY <1>13 DEF vars
<1> QED
  BY Steps, <1>1, <1>2, <1>3, <1>4, <1>5, <1>6, <1>7, <1>8, <1>9, <1>10, <1>11, <1>12, <1>13
  DEF InstallStep

\* a step that keeps what is in the directories, or adds to .backups
LEMMA SameDirs ==
  ASSUME pkg' = pkg \/ pkg # UserDir, saved \subseteq saved',
         \A t \in Targets : links[t] = UserDir => links'[t] = UserDir \/ t \in saved'
  PROVE  UserDirs \subseteq UserDirs'
BY DEF UserDirs

LEMMA DirsStep ==
  ASSUME TypeOK, Phase, Mending, Linking, [AnyNext]_vars
  PROVE  forced \/ UserDirs \subseteq UserDirs'
<1> SUFFICES ASSUME ~forced PROVE UserDirs \subseteq UserDirs'
  OBVIOUS
<1> USE PathAssumption, PackageAssumption
    DEF disk, work, linking, command, Goto, Fault, End, Fail, FailGone, Go, Managed
<1>0. /\ linked \in Seq(Targets) /\ links \in [Targets -> Contents]
      /\ UserDir \notin Packages /\ Absent # UserDir /\ Root \notin Targets
  BY DEF TypeOK
<1>1. CASE UNCHANGED <<pkg, links, saved>>
  BY <1>1 DEF UserDirs
<1>2. ASSUME NEW v \in Versions, NEW ts \in SUBSET Targets, BeginInstall(v, ts)
      PROVE  UNCHANGED <<pkg, links, saved>>
  BY <1>2 DEF BeginInstall
<1>3. CASE Stage \/ WriteMetadata
  BY <1>1, <1>3 DEF Stage, WriteMetadata
<1>4. CASE MoveAside
  <2>1. links' = links
    BY <1>4 DEF MoveAside
  <2>2. CASE pkg' = Absent /\ saved' = saved \cup {Root}
    BY <2>1, <2>2 DEF UserDirs
  <2>3. CASE pkg' = Absent /\ Managed(pkg) /\ saved' = saved
    BY <1>0, <2>1, <2>3 DEF UserDirs
  <2> QED
    BY <1>1, <1>4, <2>1, <2>2, <2>3 DEF MoveAside, BlOwned
<1>5. CASE Put
  <2>1. pkg = Absent /\ links' = links
    BY <1>5 DEF Put, Phase
  <2>2. CASE saved' = saved
    BY <1>0, <2>1, <2>2, SameDirs
  <2>3. CASE pkg' = UserDir /\ saved' = saved \ {Root}
    BY <2>1, <2>3 DEF UserDirs
  <2> QED
    BY <1>5, <2>2, <2>3 DEF Put, PutBack
<1>6. ASSUME NEW t \in Targets, PrepareLink(t) PROVE UserDirs \subseteq UserDirs'
  <2>1. pkg' = pkg /\ saved \subseteq saved'
    BY <1>6 DEF PrepareLink
  <2>2. ASSUME NEW u \in Targets, links[u] = UserDir
        PROVE  links'[u] = UserDir \/ u \in saved'
    BY <1>0, <1>6, <2>2 DEF PrepareLink
  <2> QED
    BY <2>1, <2>2, SameDirs
<1>7. ASSUME NEW t \in Targets, KeepLink(t) PROVE UNCHANGED <<pkg, links, saved>>
  BY <1>7 DEF KeepLink
<1>8. CASE PutLink
  <2> DEFINE t == linked[Len(linked)]
  <2>1. links[t] # UserDir
    BY <1>0, <1>8 DEF PutLink, Linking
  <2>2. pkg' = pkg /\ saved' = saved /\ \A u \in Targets \ {t} : links'[u] = links[u]
    BY <1>0, <1>8 DEF PutLink
  <2> QED
    BY <2>1, <2>2, SameDirs
<1>9. CASE LinksDone \/ Finish
  BY <1>1, <1>9 DEF LinksDone, Finish
<1>10. CASE Unlink \/ Relink
  <2> DEFINE t == linked[Len(linked)]
  <2>1. links[t] # UserDir /\ t \in Targets
    BY <1>0, <1>10 DEF Unlink, Relink, Linking
  <2>2. pkg' = pkg /\ \A u \in Targets \ {t} : links'[u] = links[u]
    BY <1>0, <1>10 DEF Unlink, Relink
  <2>3. CASE saved' = saved
    BY <2>1, <2>2, <2>3, SameDirs
  <2>4. CASE links' = [links EXCEPT ![t] = UserDir] /\ saved' = saved \ {t}
    <3>1. links'[t] = UserDir
      BY <1>0, <2>1, <2>4
    <3> QED
      BY <2>1, <2>2, <2>4, <3>1 DEF UserDirs
  <2> QED
    BY <1>10, <2>3, <2>4 DEF Unlink, Relink
<1>11. CASE Discard
  <2>1. pkg \in Packages /\ links' = links /\ saved' = saved
    BY <1>11 DEF Discard, Phase
  <2> QED
    BY <1>0, <2>1, SameDirs
<1>12. CASE Restore
  <2>1. pkg = Absent /\ links' = links
    BY <1>12 DEF Restore, Phase
  <2>2. CASE saved' = saved
    BY <1>0, <2>1, <2>2, SameDirs
  <2>3. CASE pkg' = UserDir /\ saved' = saved \ {Root}
    BY <2>1, <2>3 DEF UserDirs
  <2> QED
    BY <1>12, <2>2, <2>3 DEF Restore
<1>13. ASSUME NEW t \in Targets, RemoveLink(t) PROVE UserDirs \subseteq UserDirs'
  <2>1. pkg' = pkg /\ saved' = saved
    BY <1>13 DEF RemoveLink
  <2>2. ASSUME NEW u \in Targets, links[u] = UserDir PROVE links'[u] = UserDir
    BY <1>0, <1>13, <2>2 DEF RemoveLink, Removable
  <2> QED
    BY <2>1, <2>2, SameDirs
<1>14. CASE RemovePackage \/ RewriteMetadata
  <2>1. pkg \in Packages /\ links' = links /\ saved' = saved
    BY <1>14 DEF RemovePackage, RewriteMetadata, Phase
  <2> QED
    BY <1>0, <2>1, SameDirs
<1>15. ASSUME RemoveStep PROVE UserDirs \subseteq UserDirs'
  BY <1>1, <1>13, <1>14, <1>15
  DEF RemoveStep, BeginRemove, BeginRemoveFrom, RemoveLinksDone
<1>16. CASE Return \/ Crash
  <2> DEFINE t == linked[Len(linked)]
  <2>1. CASE links' = links
    BY <1>1, <1>16, <2>1 DEF Return, Crash
  <2>2. CASE at = "putLink" /\ \A u \in Targets \ {t} : links'[u] = links[u]
    <3>1. links[t] # UserDir
      BY <1>0, <2>2 DEF Linking
    <3>2. pkg' = pkg /\ saved' = saved
      BY <1>16 DEF Return, Crash
    <3> QED
      BY <2>2, <3>1, <3>2, SameDirs
  <2> QED
    BY <1>0, <1>16, <2>1, <2>2 DEF Return, Crash
<1>17. CASE ToolStep
  <2>1. pkg' = pkg /\ saved' = saved
    BY <1>17 DEF ToolStep, ToolCopies
  <2>2. ASSUME NEW u \in Targets, links[u] = UserDir PROVE links'[u] = UserDir
    BY <1>0, <1>17, <2>2 DEF ToolStep, ToolCopies
  <2> QED
    BY <2>1, <2>2, SameDirs
<1>19. CASE Doctor
  <2>1. pkg' = pkg /\ saved' = saved
    BY <1>19 DEF Doctor, DoctorStart, DoctorLook, DoctorLink, DoctorRemove, DoctorPutBack,
                 DoctorSweep, DoctorKilled
  <2>2. ASSUME NEW u \in Targets, links[u] = UserDir PROVE links'[u] = UserDir
    <3>1. ASSUME NEW t \in Targets, DoctorLook(t) PROVE links'[u] = UserDir
      BY <1>0, <2>2, <3>1 DEF DoctorLook
    <3>2. CASE DoctorLink \/ DoctorRemove \/ DoctorPutBack
      <4>1. doctor.target # u /\ doctor.target \in Targets
        BY <2>2, <3>2 DEF Mending, DoctorLink, DoctorRemove, DoctorPutBack
      <4> QED
        BY <1>0, <2>2, <3>2, <4>1 DEF DoctorLink, DoctorRemove, DoctorPutBack
    <3>3. CASE DoctorStart \/ DoctorSweep \/ DoctorKilled
      BY <2>2, <3>3 DEF DoctorStart, DoctorSweep, DoctorKilled
    <3> QED
      BY <1>19, <3>1, <3>2, <3>3 DEF Doctor
  <2> QED
    BY <2>1, <2>2, SameDirs
<1>18. CASE UNCHANGED vars
  BY <1>1, <1>18 DEF vars
<1> QED
  BY Steps, <1>1, <1>2, <1>3, <1>4, <1>5, <1>6, <1>7, <1>8, <1>9, <1>10, <1>11, <1>12,
     <1>15, <1>16, <1>17, <1>18, <1>19
  DEF InstallStep

\* Whatever fails and wherever runs crash, with the doctor sweeping at any time
\* and repairing links between the commands: a directory of the user's stays, or
\* goes to .backups.  With the doctor repairing a link that a command is about
\* to undo that is not so: OnlyCrossingHarms.
THEOREM UserDirsSafe == DoctoredSpec => UserDirsKept
<1> DEFINE Inv == TypeOK /\ Phase /\ Mending /\ Linking
<1>1. Init => Inv
  BY TypeInit, QuietMends DEF Init, Linking, Quiet
<1>2. Inv /\ [DoctoredNext]_vars => Inv'
  BY TypeStep, MendingStep, LinkingStep DEF AnyNext
<1>3. Inv /\ [DoctoredNext]_vars => [forced \/ UserDirs \subseteq UserDirs']_vars
  BY DirsStep DEF AnyNext
<1> QED
  BY <1>1, <1>2, <1>3, PTL DEF DoctoredSpec, UserDirsKept

-----------------------------------------------------------------------------
(***************************************************************************)
(* An installed skill stays on disk, while no doctor is about              *)
(***************************************************************************)

LEMMA NextSteps ==
  ASSUME [Next]_vars
  PROVE  /\ [AnyNext]_vars
         /\ InstallStep \/ RemoveStep \/ Return \/ Crash \/ ToolStep \/ UNCHANGED vars
BY DEF AnyNext, Next, RunStep

\* Which of the two, the package moved aside or the backup, `restore' would
\* put back.
Aside ==
  /\ at = "idle" => faults = 0
  /\ at \in {"idle", "stage", "metadata", "moveAside"} => previous = Absent /\ aside = "nothing"
  /\ at = "put" => aside # "previous" /\ (aside = "backup" => previous = Absent)
  /\ at \in {"link", "putLink", "unlink", "relink", "discard", "restore"} =>
       (aside = "previous" <=> previous # Absent)

LEMMA AsideStep ==
  ASSUME TypeOK, Aside, [Next]_vars
  PROVE  Aside'
<1> USE PathAssumption
    DEF Aside, disk, work, linking, command, Goto, Fault, End, Fail, FailGone, Go
<1>1. ASSUME NEW v \in Versions, NEW ts \in SUBSET Targets, BeginInstall(v, ts) PROVE Aside'
  BY <1>1 DEF BeginInstall
<1>2. CASE Stage \/ WriteMetadata
  BY <1>2 DEF Stage, WriteMetadata
<1>3. CASE MoveAside
  BY <1>3 DEF MoveAside
<1>4. CASE Put
  BY <1>4 DEF Put
<1>5. ASSUME NEW t \in Targets, PrepareLink(t) \/ KeepLink(t) PROVE Aside'
  BY <1>5 DEF PrepareLink, KeepLink, Undo
<1>6. CASE PutLink \/ LinksDone \/ Unlink \/ Relink
  BY <1>6 DEF PutLink, LinksDone, Unlink, Relink, GiveUp, Undo
<1>7. CASE Discard \/ Restore \/ Finish
  BY <1>7 DEF Discard, Restore, Finish
<1>8. CASE RemoveStep
  BY <1>8 DEF RemoveStep, BeginRemove, BeginRemoveFrom, RemoveLink, RemoveLinksDone,
              RemovePackage, RewriteMetadata
<1>9. CASE Return \/ Crash
  BY <1>9 DEF Return, Crash, Forget
<1>10. CASE ToolStep \/ UNCHANGED vars
  BY <1>10 DEF ToolStep, ToolCopies, vars
<1> QED
  BY NextSteps, <1>1, <1>2, <1>3, <1>4, <1>5, <1>6, <1>7, <1>8, <1>9, <1>10 DEF InstallStep

\* Until the first leftover, the skill is at its name or moved aside, and no
\* run that has an installed package to replace holds a backup instead.
Safe ==
  installed /\ Leftover \notin orphans =>
    /\ Managed(pkg) \/ Managed(previous)
    /\ at # "end" => aside # "backup"

LEMMA SafeStep ==
  ASSUME TypeOK, Phase, Aside, Safe, [Next]_vars
  PROVE  Safe'
<1> USE PathAssumption, PackageAssumption
    DEF Safe, disk, work, linking, command, Goto, Fault, End, Fail, FailGone, Go, Managed
<1>1. Absent \notin Packages /\ UserDir \notin Packages
  OBVIOUS
<1>2. ASSUME NEW v \in Versions, NEW ts \in SUBSET Targets, BeginInstall(v, ts) PROVE Safe'
  BY <1>2 DEF BeginInstall
<1>3. CASE Stage \/ WriteMetadata
  BY <1>3 DEF Stage, WriteMetadata
<1>4. CASE MoveAside
  <2>1. previous = Absent /\ aside = "nothing"
    BY <1>4 DEF MoveAside, Aside
  <2> QED
    BY <1>1, <1>4, <2>1 DEF MoveAside, BlOwned
<1>5. CASE Put
  <2>1. pkg = Absent /\ staging \in Packages \cup {Absent}
    BY <1>5 DEF Put, Phase
  <2>2. UNCHANGED <<installed, orphans>>
    BY <1>5 DEF Put
  <2>3. CASE pkg' = staging /\ staging # Absent
    <3>1. aside' # "backup" \/ aside' = aside
      BY <1>5 DEF Put
    <3> QED
      BY <1>5, <2>1, <2>2, <2>3, <3>1 DEF Put
  <2>4. CASE PutBack /\ aside' = aside /\ at' = "end"
    BY <1>1, <2>1, <2>2, <2>4 DEF PutBack
  <2>5. CASE UNCHANGED <<pkg, previous, aside>>
    BY <1>5, <2>2, <2>5 DEF Put
  <2> QED
    BY <1>5, <2>3, <2>4, <2>5 DEF Put
<1>6. ASSUME NEW t \in Targets, PrepareLink(t) \/ KeepLink(t) PROVE Safe'
  BY <1>6 DEF PrepareLink, KeepLink, Undo
<1>7. CASE PutLink \/ LinksDone \/ Unlink \/ Relink
  BY <1>7 DEF PutLink, LinksDone, Unlink, Relink, GiveUp, Undo
<1>8. CASE Discard
  <2>1. aside = "previous" => Managed(previous)
    BY <1>8 DEF Discard, Aside, TypeOK
  <2> QED
    BY <1>1, <1>8, <2>1 DEF Discard, TypeOK
<1>9. CASE Restore
  <2>1. previous \in Packages \cup {Absent} /\ pkg = Absent
    BY <1>9 DEF Restore, Phase, TypeOK
  <2> QED
    BY <1>1, <1>9, <2>1 DEF Restore
<1>10. CASE Finish
  <2>1. Managed(pkg) /\ pkg' = pkg /\ at' = "end"
    BY <1>10 DEF Finish, Phase
  <2> QED
    BY <2>1
<1>11. CASE RemovePackage
  BY <1>11 DEF RemovePackage
<1>12. CASE RewriteMetadata
  <2>1. Managed(pkg) => Managed(pkg')
    BY <1>12 DEF RewriteMetadata, TypeOK
  <2> QED
    BY <1>12, <2>1 DEF RewriteMetadata
<1>13. CASE RemoveStep
  BY <1>11, <1>12, <1>13
  DEF RemoveStep, BeginRemove, BeginRemoveFrom, RemoveLink, RemoveLinksDone
<1>14. CASE Return \/ Crash
  <2>1. pkg' = pkg /\ installed' = installed /\ aside' = "nothing"
    BY <1>14 DEF Return, Crash, Forget
  <2>2. Leftover \in orphans \/ Managed(previous) => Leftover \in orphans'
    BY <1>1, <1>14 DEF Return, Crash, Forget
  <2> QED
    BY <2>1, <2>2
<1>15. CASE ToolStep \/ UNCHANGED vars
  BY <1>15 DEF ToolStep, ToolCopies, vars
<1> QED
  BY NextSteps, <1>2, <1>3, <1>4, <1>5, <1>6, <1>7, <1>8, <1>9, <1>10, <1>13, <1>14, <1>15
  DEF InstallStep

LEMMA AloneInit == Init => Linking /\ Aside /\ Safe
BY DEF Init, Linking, Aside, Safe

\* Wherever runs crash and whatever fails, while no doctor is called.
THEOREM SkillStaysOnDisk == Spec => []SkillOnDisk
<1> DEFINE Inv == TypeOK /\ Phase /\ Aside /\ Safe
<1>1. Init => Inv
  BY TypeInit, AloneInit
<1>2. Inv /\ [Next]_vars => Inv'
  BY NextSteps, TypeStep, AsideStep, SafeStep
<1>3. Inv => SkillOnDisk
  BY DEF Safe, SkillOnDisk, Listed, Managed
<1> QED
  BY <1>1, <1>2, <1>3, PTL DEF Spec

\* The same, among the worlds in which it is model-checked.
THEOREM SkillKeptWithoutDoctor == WorldsSpec => []SkillKept
<1> DEFINE Inv == world = Absent => TypeOK /\ Phase /\ Aside /\ Safe
<1>1. WorldsInit => Inv
  BY TypeInit, AloneInit DEF WorldsInit
<1>2. Inv /\ [WorldsNext]_<<vars, sharedVars, world>> => Inv'
  <2> SUFFICES ASSUME Inv, [WorldsNext]_<<vars, sharedVars, world>>, world' = Absent
               PROVE  (TypeOK /\ Phase /\ Aside /\ Safe)'
    OBVIOUS
  <2>1. world = Absent /\ [Next]_vars
    BY PathAssumption, OverlapAssumption DEF WorldsNext
  <2> QED
    BY <2>1, NextSteps, TypeStep, AsideStep, SafeStep
<1>3. Inv => SkillKept
  BY DEF Safe, SkillKept, SkillOnDisk, Listed, Managed
<1> QED
  BY <1>1, <1>2, <1>3, PTL DEF WorldsSpec

-----------------------------------------------------------------------------
(***************************************************************************)
(* A failing install is undone, while no doctor is about                   *)
(***************************************************************************)

\* the one error an install has met is behind it only where it undoes
Counted ==
  /\ at \notin {"idle", "removeLinks", "removePackage", "writeMetadata"}
  /\ at \in {"stage", "metadata", "moveAside", "put", "link", "putLink", "finish"} => faults = 0
  /\ at \in {"unlink", "relink", "discard", "restore"} => faults = 1

\* where the package that was there is meanwhile
PackageKept ==
  /\ at \in {"stage", "metadata", "moveAside"} => pkg = before[1]
  /\ at \in {"put", "link", "putLink", "unlink", "relink", "discard", "restore"} =>
       \/ before[1] \in Packages /\ previous = before[1]
       \/ before[1] = UserDir /\ aside = "backup" /\ previous = Absent
       \/ before[1] = Absent /\ aside = "nothing" /\ previous = Absent

LinkedTargets == {linked[i] : i \in 1 .. Len(linked)}

\* what was at the targets is there, or is what the run will put back there
LinksKept ==
  /\ at \in {"stage", "metadata", "moveAside", "put", "discard", "restore"} => links = before[2]
  /\ at \in {"link", "putLink", "unlink", "relink"} =>
       \A t \in Targets : before[2][t] = IF t \in LinkedTargets THEN prior[t] ELSE links[t]

\* every target visited has its link or copy
Placed ==
  /\ at \in {"stage", "metadata", "moveAside", "put"} => todo = goal.targets
  /\ at \in {"link", "putLink", "finish"} =>
       \A t \in goal.targets \ todo : links[t] \in {Link, goal.version}
  /\ at = "finish" => todo = {}

Undoable ==
  mode = "install" /\ faults <= 1 =>
    Counted /\ PackageKept /\ LinksKept /\ Placed /\ FailureIsAtomic

LEMMA LinkedTargetsAre ==
  ASSUME linked \in Seq(Targets)
  PROVE  /\ LinkedTargets \subseteq Targets
         /\ linked = <<>> => LinkedTargets = {}
BY DEF LinkedTargets

LEMMA LinkedTargetsPlus ==
  ASSUME linked \in Seq(Targets), NEW t \in Targets
  PROVE  {Append(linked, t)[i] : i \in 1 .. Len(Append(linked, t))} = LinkedTargets \cup {t}
<1> DEFINE more == Append(linked, t)
<1>1. /\ Len(linked) \in Nat /\ Len(more) = Len(linked) + 1
      /\ more[Len(linked) + 1] = t /\ \A i \in 1 .. Len(linked) : more[i] = linked[i]
  OBVIOUS
<1> HIDE DEF more
<1>2. \A i \in 1 .. Len(more) : i \in 1 .. Len(linked) \/ i = Len(linked) + 1
  BY <1>1
<1>3. \A i \in 1 .. Len(linked) : i \in 1 .. Len(more)
  BY <1>1
<1>4. Len(linked) + 1 \in 1 .. Len(more)
  BY <1>1
<1>5. {more[i] : i \in 1 .. Len(more)} = LinkedTargets \cup {t}
  BY <1>1, <1>2, <1>3, <1>4 DEF LinkedTargets
<1> QED
  BY <1>5 DEF more

LEMMA LinkedTargetsLess ==
  ASSUME linked \in Seq(Targets), linked # <<>>,
         \A i, j \in 1 .. Len(linked) : linked[i] = linked[j] => i = j
  PROVE  LET rest == SubSeq(linked, 1, Len(linked) - 1)
         IN {rest[i] : i \in 1 .. Len(rest)} = LinkedTargets \ {linked[Len(linked)]}
<1> DEFINE rest == SubSeq(linked, 1, Len(linked) - 1)
<1>1. Len(linked) \in Nat \ {0}
  OBVIOUS
<1>2. /\ Len(rest) = Len(linked) - 1
      /\ \A i \in 1 .. Len(linked) - 1 : rest[i] = linked[i]
  BY <1>1, RestOf
<1> HIDE DEF rest
<1>3. \A i \in 1 .. Len(linked) : i \in 1 .. Len(linked) - 1 \/ i = Len(linked)
  BY <1>1
<1>4. \A i \in 1 .. Len(linked) - 1 : i \in 1 .. Len(linked) /\ linked[i] # linked[Len(linked)]
  BY <1>1
<1>5. {rest[i] : i \in 1 .. Len(rest)} = LinkedTargets \ {linked[Len(linked)]}
  BY <1>2, <1>3, <1>4 DEF LinkedTargets
<1> QED
  BY <1>5 DEF rest

LEMMA UndoableStep ==
  ASSUME TypeOK, Phase, Linking, Aside, Undoable, [Next]_vars
  PROVE  Undoable'
<1> USE PathAssumption, PackageAssumption, MaxFaultsAssumption
    DEF disk, work, linking, command, Goto, Fault, End, Fail, FailGone, Go, Managed
<1> SUFFICES ASSUME mode' = "install", faults' <= 1
             PROVE  (Counted /\ PackageKept /\ LinksKept /\ Placed /\ FailureIsAtomic)'
  BY DEF Undoable
<1>0. /\ faults \in Nat /\ linked \in Seq(Targets)
      /\ links \in [Targets -> Contents] /\ before[2] \in [Targets -> Contents]
      /\ Absent \notin Packages /\ UserDir \notin Packages
  BY DEF TypeOK
<1>1. ASSUME NEW v \in Versions, NEW ts \in SUBSET Targets, BeginInstall(v, ts)
      PROVE  (Counted /\ PackageKept /\ LinksKept /\ Placed /\ FailureIsAtomic)'
  BY <1>1 DEF BeginInstall, Aside, Counted, PackageKept, LinksKept, Placed, FailureIsAtomic
<1>2. ASSUME mode = mode', faults <= faults'
      PROVE  Counted /\ PackageKept /\ LinksKept /\ Placed /\ FailureIsAtomic
  BY <1>0, <1>2, TypeStep, NextSteps DEF Undoable, TypeOK
<1>3. CASE Stage
  <2>1. /\ at = "stage" /\ UNCHANGED <<pkg, links, before, mode, goal, todo>>
        /\ faults <= faults'
        /\ \/ at' = "metadata" /\ faults' = faults
           \/ at' = "end"
    BY <1>0, <1>3 DEF Stage
  <2> QED
    BY <1>2, <2>1 DEF Counted, PackageKept, LinksKept, Placed, FailureIsAtomic
<1>4. CASE WriteMetadata
  <2>1. /\ at = "metadata" /\ UNCHANGED <<pkg, links, before, mode, goal, todo>>
        /\ faults <= faults'
        /\ \/ at' = "moveAside" /\ faults' = faults
           \/ at' = "end"
    BY <1>0, <1>4 DEF WriteMetadata
  <2> QED
    BY <1>2, <2>1 DEF Counted, PackageKept, LinksKept, Placed, FailureIsAtomic
<1>5. CASE MoveAside
  <2>1. /\ at = "moveAside" /\ UNCHANGED <<links, before, mode, goal, todo>>
        /\ faults <= faults'
    BY <1>0, <1>5 DEF MoveAside
  <2>2. previous = Absent /\ aside = "nothing" /\ pkg = before[1] /\ links = before[2]
    BY <1>2, <2>1 DEF Aside, PackageKept, LinksKept
  <2>3. CASE at' = "end" /\ pkg' = pkg
    BY <2>1, <2>2, <2>3 DEF Counted, PackageKept, LinksKept, Placed, FailureIsAtomic
  <2>4. CASE at' = "put" /\ faults' = faults
    <3>1. PackageKept'
      BY <1>0, <1>5, <2>1, <2>2, <2>4 DEF PackageKept, MoveAside, BlOwned, TypeOK
    <3>2. Counted' /\ Placed'
      BY <1>2, <2>1, <2>4 DEF Counted, Placed
    <3> QED
      BY <2>1, <2>2, <2>4, <3>1, <3>2 DEF LinksKept, FailureIsAtomic
  <2> QED
    BY <1>5, <2>3, <2>4 DEF MoveAside
<1>6. CASE Put
  <2>1. /\ at = "put" /\ UNCHANGED <<links, before, mode, goal, todo, linked, prior>>
        /\ faults <= faults'
    BY <1>0, <1>6 DEF Put
  <2>2. /\ faults = 0 /\ links = before[2] /\ linked = <<>> /\ pkg = Absent
        /\ todo = goal.targets
        /\ \/ before[1] \in Packages /\ previous = before[1] /\ aside # "backup"
           \/ before[1] = UserDir /\ aside = "backup" /\ previous = Absent
           \/ before[1] = Absent /\ aside = "nothing" /\ previous = Absent
    BY <1>0, <1>2, <2>1 DEF Counted, PackageKept, LinksKept, Placed, Linking, Aside, Phase
  <2>3. CASE at' = "link"
    <3>1. /\ faults' = faults /\ previous' = previous
          /\ aside' = IF previous # Absent THEN "previous" ELSE aside
      BY <1>6, <2>1, <2>3 DEF Put
    <3>2. PackageKept'
      BY <2>1, <2>2, <2>3, <3>1 DEF PackageKept
    <3>3. LinksKept'
      BY <1>0, <2>1, <2>2, <2>3, LinkedTargetsAre DEF LinksKept, LinkedTargets
    <3> QED
      BY <2>1, <2>2, <2>3, <3>1, <3>2, <3>3 DEF Counted, Placed, FailureIsAtomic
  <2>4. CASE at' = "end"
    <3>1. PutBack
      BY <1>6, <2>2, <2>4 DEF Put
    <3>2. pkg' = before[1]
      BY <1>0, <2>2, <3>1 DEF PutBack
    <3> QED
      BY <2>1, <2>2, <2>4, <3>2 DEF Counted, PackageKept, LinksKept, Placed, FailureIsAtomic
  <2> QED
    BY <1>6, <2>3, <2>4 DEF Put
<1>7. ASSUME NEW t \in Targets, PrepareLink(t)
      PROVE  (Counted /\ PackageKept /\ LinksKept /\ Placed /\ FailureIsAtomic)'
  <2>1. /\ at = "link" /\ t \in todo /\ faults <= faults'
        /\ UNCHANGED <<pkg, previous, aside, todo, mode, goal, before>>
    BY <1>0, <1>7 DEF PrepareLink
  <2>2. Counted /\ PackageKept /\ LinksKept /\ Placed
    BY <1>2, <2>1
  <2>3. t \notin LinkedTargets
    BY <2>1 DEF Linking, LinkedTargets
  <2>4. CASE /\ at' = "putLink" /\ faults' = faults
             /\ prior' = [prior EXCEPT ![t] = links[t]]
             /\ links' = [links EXCEPT ![t] = Absent]
             /\ linked' = Append(linked, t)
    <3>1. LinkedTargets' = LinkedTargets \cup {t}
      BY <1>0, <2>4, LinkedTargetsPlus DEF LinkedTargets
    <3>2. \A u \in Targets : before[2][u] = IF u \in LinkedTargets THEN prior[u] ELSE links[u]
      BY <2>1, <2>2 DEF LinksKept
    <3>3. LinksKept'
      BY <1>0, <2>1, <2>3, <2>4, <3>1, <3>2 DEF LinksKept, TypeOK
    <3>4. Placed'
      BY <1>0, <2>1, <2>2, <2>4 DEF Placed, Phase, Packages
    <3> QED
      BY <2>1, <2>2, <2>4, <3>3, <3>4 DEF Counted, PackageKept, FailureIsAtomic
  <2>5. CASE /\ at' = Undo(linked) /\ faults' = faults + 1
             /\ UNCHANGED <<prior, links, linked>>
    <3>1. LinkedTargets' = LinkedTargets
      BY <2>5 DEF LinkedTargets
    <3>2. linked = <<>> => links = before[2]
      BY <1>0, <2>1, <2>2, LinkedTargetsAre DEF LinksKept
    <3> QED
      BY <2>1, <2>2, <2>5, <3>1, <3>2
      DEF Undo, Counted, PackageKept, LinksKept, Placed, FailureIsAtomic
  <2> QED
    BY <1>7, <2>4, <2>5 DEF PrepareLink
<1>8. ASSUME NEW t \in Targets, KeepLink(t)
      PROVE  (Counted /\ PackageKept /\ LinksKept /\ Placed /\ FailureIsAtomic)'
  <2>1. /\ at = "link" /\ links[t] = Link /\ todo' = todo \ {t}
        /\ UNCHANGED <<pkg, links, previous, aside, linked, prior, mode, goal, before, at, faults>>
    BY <1>8 DEF KeepLink, Resolves
  <2>2. Counted /\ PackageKept /\ LinksKept /\ Placed
    BY <1>0, <1>2, <2>1
  <2>3. LinkedTargets' = LinkedTargets
    BY <2>1 DEF LinkedTargets
  <2> QED
    BY <2>1, <2>2, <2>3 DEF Counted, PackageKept, LinksKept, Placed, FailureIsAtomic
<1>9. CASE PutLink
  <2> DEFINE t == linked[Len(linked)]
  <2>1. /\ at = "putLink" /\ faults <= faults'
        /\ UNCHANGED <<pkg, previous, aside, linked, prior, mode, goal, before>>
    BY <1>0, <1>9 DEF PutLink
  <2>2. Counted /\ PackageKept /\ LinksKept /\ Placed
    BY <1>2, <2>1
  <2>3. LinkedTargets' = LinkedTargets /\ t \in LinkedTargets /\ t \in Targets
    BY <1>0, <2>1 DEF Linking, LinkedTargets
  <2> HIDE DEF t
  <2>4. CASE /\ at' = "link" /\ faults' = faults /\ todo' = todo \ {t}
             /\ \E content \in {Link, goal.version} : links' = [links EXCEPT ![t] = content]
    <3>1. LinksKept'
      BY <1>0, <2>1, <2>2, <2>3, <2>4 DEF LinksKept
    <3>2. Placed'
      BY <1>0, <2>1, <2>2, <2>3, <2>4 DEF Placed, Phase, Packages
    <3> QED
      BY <2>1, <2>2, <2>4, <3>1, <3>2 DEF Counted, PackageKept, FailureIsAtomic
  <2>5. CASE /\ at' = "unlink" /\ faults' = faults + 1 /\ todo' = todo
             /\ \A u \in Targets \ {t} : links'[u] = links[u]
    <3>1. LinksKept'
      BY <1>0, <2>1, <2>2, <2>3, <2>5 DEF LinksKept
    <3> QED
      BY <2>1, <2>2, <2>5, <3>1 DEF Counted, PackageKept, Placed, FailureIsAtomic
  <2> QED
    BY <1>0, <1>9, <2>4, <2>5 DEF PutLink, t
<1>10. CASE LinksDone
  <2>1. /\ at = "link" /\ todo = {} /\ at' = "finish"
        /\ UNCHANGED <<pkg, links, todo, mode, goal, before, faults>>
    BY <1>10 DEF LinksDone
  <2>2. Counted /\ Placed
    BY <1>0, <1>2, <2>1
  <2> QED
    BY <2>1, <2>2 DEF Counted, PackageKept, LinksKept, Placed, FailureIsAtomic
<1>11. CASE Unlink \/ Relink
  <2> DEFINE t == linked[Len(linked)]
  <2>1. /\ at \in {"unlink", "relink"} /\ faults <= faults'
        /\ UNCHANGED <<pkg, previous, aside, todo, prior, mode, goal, before>>
    BY <1>0, <1>11 DEF Unlink, Relink
  <2>2. Counted /\ PackageKept /\ LinksKept /\ Placed
    BY <1>2, <2>1
  <2>3. t \in LinkedTargets /\ t \in Targets /\ linked # <<>>
    BY <1>0, <2>1 DEF Linking, LinkedTargets
  <2>4. CASE Unlink
    <3>1. /\ at' = "relink" /\ faults' = faults /\ linked' = linked
          /\ \A u \in Targets \ {t} : links'[u] = links[u]
      BY <1>0, <2>1, <2>2, <2>4 DEF Unlink, Counted
    <3>2. LinkedTargets' = LinkedTargets
      BY <3>1 DEF LinkedTargets
    <3>3. LinksKept'
      BY <2>1, <2>2, <2>3, <3>1, <3>2 DEF LinksKept
    <3> QED
      BY <2>1, <2>2, <3>1, <3>3 DEF Counted, PackageKept, Placed, FailureIsAtomic
  <2>5. CASE Relink
    <3>1. /\ links' = [links EXCEPT ![t] = prior[t]] /\ faults' = faults
          /\ linked' = SubSeq(linked, 1, Len(linked) - 1)
          /\ at' = IF linked' = <<>> THEN "discard" ELSE "unlink"
      BY <1>0, <2>1, <2>2, <2>5 DEF Relink, Counted, Undo
    <3>2. LinkedTargets' = LinkedTargets \ {t}
      <4>1. \A i, j \in 1 .. Len(linked) : linked[i] = linked[j] => i = j
        BY <2>1 DEF Linking
      <4>2. LinkedTargets' = {SubSeq(linked, 1, Len(linked) - 1)[i] :
                                i \in 1 .. Len(SubSeq(linked, 1, Len(linked) - 1))}
        BY <3>1, Zenon DEF LinkedTargets
      <4> QED
        BY <1>0, <2>3, <4>1, <4>2, LinkedTargetsLess, Zenon
    <3> HIDE DEF t
    <3>3. \A u \in Targets :
            before'[2][u] = IF u \in LinkedTargets' THEN prior'[u] ELSE links'[u]
      BY <1>0, <2>1, <2>2, <2>3, <3>1, <3>2 DEF LinksKept
    <3>4. linked' = <<>> => links' = before'[2]
      <4>1. links' \in [Targets -> Contents] /\ before'[2] \in [Targets -> Contents]
        BY <1>0, <2>1, TypeStep, NextSteps DEF TypeOK
      <4>2. linked' = <<>> => LinkedTargets' = {}
        BY DEF LinkedTargets
      <4> QED
        BY <3>3, <4>1, <4>2
    <3>5. LinksKept'
      BY <3>1, <3>3, <3>4 DEF LinksKept
    <3> QED
      BY <2>1, <2>2, <3>1, <3>5 DEF Counted, PackageKept, Placed, FailureIsAtomic
  <2> QED
    BY <1>11, <2>4, <2>5
<1>12. CASE Discard
  <2>1. /\ at = "discard" /\ faults <= faults'
        /\ UNCHANGED <<links, previous, aside, mode, goal, before>>
    BY <1>0, <1>12 DEF Discard
  <2>2. faults = 1 /\ links = before[2] /\ PackageKept
    BY <1>2, <2>1 DEF Counted, LinksKept
  <2>3. (aside = "previous" <=> previous # Absent)
    BY <2>1 DEF Aside
  <2>4. \/ at' = "end" /\ aside = "nothing" /\ pkg' = pkg
        \/ at' = "restore" /\ faults' = faults
    BY <1>12, <2>2 DEF Discard
  <2>5. before[1] # Absent => aside # "nothing"
    BY <1>0, <2>1, <2>2, <2>3 DEF PackageKept
  <2> QED
    BY <2>1, <2>2, <2>4, <2>5 DEF Counted, PackageKept, LinksKept, Placed, FailureIsAtomic
<1>13. CASE Restore
  <2>1. /\ at = "restore" /\ at' = "end" /\ faults <= faults'
        /\ UNCHANGED <<links, mode, goal, before>>
    BY <1>0, <1>13 DEF Restore
  <2>2. faults = 1 /\ links = before[2] /\ PackageKept
    BY <1>2, <2>1 DEF Counted, LinksKept
  <2>3. (aside = "previous" <=> previous # Absent)
    BY <2>1 DEF Aside
  <2>4. before[1] # Absent => pkg' = before[1]
    BY <1>0, <1>13, <2>1, <2>2, <2>3 DEF Restore, PackageKept
  <2> QED
    BY <2>1, <2>2, <2>4 DEF Counted, PackageKept, LinksKept, Placed, FailureIsAtomic
<1>14. CASE Finish
  <2>1. /\ at = "finish" /\ at' = "end" /\ faults <= faults' /\ pkg = goal
        /\ UNCHANGED <<pkg, links, mode, goal, before>>
    BY <1>0, <1>14 DEF Finish, Phase
  <2>2. \A t \in goal.targets : links[t] \in {Link, goal.version}
    BY <1>2, <2>1 DEF Placed
  <2> QED
    BY <2>1, <2>2 DEF Counted, PackageKept, LinksKept, Placed, FailureIsAtomic
<1>15. RemoveStep => FALSE
  <2>1. ASSUME NEW f \in BOOLEAN, BeginRemove(f) PROVE FALSE
    BY <2>1 DEF BeginRemove
  <2>2. ASSUME NEW f \in BOOLEAN, NEW ts \in SUBSET Targets, BeginRemoveFrom(ts, f) PROVE FALSE
    BY <2>2 DEF BeginRemoveFrom
  <2>3. ASSUME NEW t \in Targets, RemoveLink(t) PROVE FALSE
    BY <1>0, <1>2, <2>3 DEF RemoveLink, Counted
  <2>4. ASSUME RemoveLinksDone \/ RemovePackage \/ RewriteMetadata PROVE FALSE
    BY <1>0, <1>2, <2>4 DEF RemoveLinksDone, RemovePackage, RewriteMetadata, Counted
  <2> QED
    BY <2>1, <2>2, <2>3, <2>4 DEF RemoveStep
<1>16. ~Return /\ ~Crash
  BY DEF Return, Crash, Forget
<1>17. ToolStep => FALSE
  BY <1>0, <1>2 DEF ToolStep, ToolCopies, Counted
<1>18. CASE UNCHANGED vars
  BY <1>0, <1>2, <1>18
  DEF vars, Counted, PackageKept, LinksKept, LinkedTargets, Placed, FailureIsAtomic
<1> QED
  BY NextSteps, <1>1, <1>3, <1>4, <1>5, <1>6, <1>7, <1>8, <1>9, <1>10, <1>11, <1>12, <1>13,
     <1>14, <1>15, <1>16, <1>17, <1>18
  DEF InstallStep

\* An install or update that meets one failing file operation is all undone or
\* all done, wherever other runs crashed, while no doctor is called.
THEOREM FailingInstallIsUndone == Spec => []FailureIsAtomic
<1> DEFINE Inv == TypeOK /\ Phase /\ Quiet /\ Linking /\ Aside /\ Undoable
<1>1. Init => Inv
  BY TypeInit, AloneInit DEF Init, Quiet, Undoable
<1>2. Inv /\ [Next]_vars => Inv'
  BY NextSteps, QuietMends, QuietStays, TypeStep, LinkingStep, AsideStep, UndoableStep
<1>3. Inv => FailureIsAtomic
  BY DEF Undoable, FailureIsAtomic
<1> QED
  BY <1>1, <1>2, <1>3, PTL DEF Spec

\* The same, among the worlds in which it is model-checked.
THEOREM InstallIsAtomicWithoutDoctor == WorldsSpec => []InstallIsAtomic
<1> DEFINE Inv == world = Absent => TypeOK /\ Phase /\ Quiet /\ Linking /\ Aside /\ Undoable
<1>1. WorldsInit => Inv
  BY TypeInit, AloneInit DEF WorldsInit, Init, Quiet, Undoable
<1>2. Inv /\ [WorldsNext]_<<vars, sharedVars, world>> => Inv'
  <2> SUFFICES ASSUME Inv, [WorldsNext]_<<vars, sharedVars, world>>, world' = Absent
               PROVE  (TypeOK /\ Phase /\ Quiet /\ Linking /\ Aside /\ Undoable)'
    OBVIOUS
  <2>1. world = Absent /\ [Next]_vars
    BY PathAssumption, OverlapAssumption DEF WorldsNext
  <2> QED
    BY <2>1, NextSteps, QuietMends, QuietStays, TypeStep, LinkingStep, AsideStep, UndoableStep
<1>3. Inv => InstallIsAtomic
  BY DEF Undoable, InstallIsAtomic, FailureIsAtomic
<1> QED
  BY <1>1, <1>2, <1>3, PTL DEF WorldsSpec

-----------------------------------------------------------------------------
(***************************************************************************)
(* Placements after commands that meet no error                            *)
(***************************************************************************)

\* every target a package names leads to its version
PlacedFor(package) == \A t \in package.targets : links[t] \in {Link, package.version}

\* What the commands work towards: the staged package is the one asked for,
\* the targets visited are in order, and the metadata that a removal from some
\* targets will write names none of those that it still visits.
Orderly ==
  clean =>
    /\ faults = 0 /\ at \notin {"unlink", "relink", "discard", "restore"}
    /\ at = "metadata" => staging # Absent
    /\ at \in {"moveAside", "put"} => staging = goal
    /\ at \in {"stage", "metadata", "moveAside", "put"} => todo = goal.targets
    /\ at \in {"idle", "stage", "metadata", "moveAside", "end"} /\ Managed(pkg) => PlacedFor(pkg)
    /\ at \in {"link", "putLink", "finish"} =>
         \A t \in goal.targets \ todo : links[t] \in {Link, goal.version}
    /\ at = "finish" => todo = {}
    /\ at = "writeMetadata" \/ (at = "removeLinks" /\ mode # "remove") =>
         IF goal = Absent THEN ~Managed(pkg)
         ELSE goal \in Packages /\ PlacedFor(goal) /\ todo \cap goal.targets = {}

LEMMA OrderlyStep ==
  ASSUME TypeOK, Phase, Orderly, [AnyNext]_vars
  PROVE  Orderly'
<1> USE PathAssumption, PackageAssumption
    DEF disk, work, linking, command, Goto, Fault, End, Fail, FailGone, Go, Managed, PlacedFor
<1>0. /\ links \in [Targets -> Contents] /\ linked \in Seq(Targets)
      /\ Absent \notin Packages /\ UserDir \notin Packages /\ Partial \notin Packages
  BY DEF TypeOK
<1>1. CASE UNCHANGED vars
  BY <1>1 DEF vars, Orderly
<1>2. SUFFICES ASSUME ~UNCHANGED vars, clean' PROVE Orderly'
  BY <1>1 DEF Orderly
<1>3. clean /\ faults' = 0 /\ (RunStep \/ ToolStep)
  BY <1>2 DEF AnyNext, DoctoredNext, Next, DoctorStep, Stays
<1>4. /\ faults = 0 /\ at \notin {"unlink", "relink", "discard", "restore"}
      /\ \A label : ~Fault(label)
  BY <1>3 DEF Orderly
<1>5. ASSUME NEW v \in Versions, NEW ts \in SUBSET Targets, BeginInstall(v, ts) PROVE Orderly'
  BY <1>3, <1>5 DEF BeginInstall, Orderly
<1>6. CASE Stage \/ WriteMetadata
  BY <1>0, <1>3, <1>4, <1>6 DEF Stage, WriteMetadata, Orderly
<1>7. CASE MoveAside
  BY <1>0, <1>3, <1>4, <1>7 DEF MoveAside, BlOwned, Orderly
<1>8. CASE Put
  <2>1. staging = goal /\ goal \in Packages /\ todo = goal.targets /\ at = "put"
    BY <1>3, <1>8 DEF Put, Orderly, Phase
  <2>2. /\ pkg' = goal /\ at' = "link" /\ UNCHANGED <<links, goal, todo, mode>>
    BY <1>0, <1>3, <1>4, <1>8, <2>1 DEF Put
  <2> QED
    BY <1>3, <2>1, <2>2 DEF Orderly
<1>9. ASSUME NEW t \in Targets, PrepareLink(t) PROVE Orderly'
  <2>1. /\ at = "link" /\ at' = "putLink" /\ t \in todo /\ links' = [links EXCEPT ![t] = Absent]
        /\ UNCHANGED <<pkg, goal, todo, mode>>
    BY <1>3, <1>4, <1>9 DEF PrepareLink
  <2>2. goal \in Packages /\ \A u \in goal.targets \ todo : links[u] \in {Link, goal.version}
    BY <1>3, <2>1 DEF Orderly, Phase
  <2>3. \A u \in goal.targets \ todo : links'[u] \in {Link, goal.version}
    BY <1>0, <2>1, <2>2 DEF Packages
  <2> QED
    BY <1>3, <2>1, <2>3 DEF Orderly
<1>10. ASSUME NEW t \in Targets, KeepLink(t) PROVE Orderly'
  BY <1>0, <1>3, <1>4, <1>10 DEF KeepLink, Resolves, Orderly
<1>11. CASE PutLink
  <2> DEFINE t == linked[Len(linked)]
  <2>1. /\ at = "putLink" /\ at' = "link" /\ todo' = todo \ {t}
        /\ \E content \in {Link, goal.version} : links' = [links EXCEPT ![t] = content]
        /\ UNCHANGED <<pkg, goal, mode>>
    BY <1>3, <1>4, <1>11 DEF PutLink
  <2> HIDE DEF t
  <2>2. goal \in Packages /\ \A u \in goal.targets \ todo : links[u] \in {Link, goal.version}
    BY <1>3, <2>1 DEF Orderly, Phase
  <2>3. \A u \in goal.targets \ todo' : links'[u] \in {Link, goal.version}
    BY <1>0, <2>1, <2>2 DEF Packages
  <2> QED
    BY <1>3, <2>1, <2>3 DEF Orderly
<1>12. CASE LinksDone
  BY <1>3, <1>4, <1>12 DEF LinksDone, Orderly
<1>13. CASE Unlink \/ Relink \/ Discard \/ Restore
  BY <1>4, <1>13 DEF Unlink, Relink, Discard, Restore
<1>14. CASE Finish
  <2>1. at = "finish" /\ at' = "end" /\ pkg = goal /\ UNCHANGED <<pkg, links, mode, goal>>
    BY <1>14 DEF Finish, Phase
  <2>2. \A u \in goal.targets : links[u] \in {Link, goal.version}
    BY <1>3, <2>1 DEF Orderly
  <2> QED
    BY <1>3, <2>1, <2>2 DEF Orderly
<1>15. ASSUME NEW f \in BOOLEAN, BeginRemove(f) PROVE Orderly'
  BY <1>3, <1>15 DEF BeginRemove, Orderly
<1>16. ASSUME NEW f \in BOOLEAN, NEW ts \in SUBSET Targets, BeginRemoveFrom(ts, f)
       PROVE  Orderly'
  <2>1. /\ at = "idle" /\ at' = "removeLinks" /\ todo' = ts
        /\ goal' = IF Managed(pkg) THEN [pkg EXCEPT !.targets = @ \ ts] ELSE Absent
        /\ UNCHANGED <<pkg, links>>
    BY <1>16 DEF BeginRemoveFrom
  <2>2. CASE pkg \in Packages
    <3>1. /\ goal' \in Packages /\ goal'.targets = pkg.targets \ ts
          /\ goal'.version = pkg.version
      BY <2>1, <2>2 DEF Packages
    <3>2. \A u \in pkg.targets : links[u] \in {Link, pkg.version}
      BY <1>3, <2>1, <2>2 DEF Orderly
    <3> QED
      BY <1>0, <1>3, <2>1, <3>1, <3>2 DEF Orderly
  <2>3. CASE pkg \notin Packages
    BY <1>3, <2>1, <2>3 DEF Orderly
  <2> QED
    BY <2>2, <2>3
<1>17. ASSUME NEW t \in Targets, RemoveLink(t) PROVE Orderly'
  <2>1. /\ at = "removeLinks" /\ at' = "removeLinks" /\ t \in todo /\ todo' = todo \ {t}
        /\ links' \in {links, [links EXCEPT ![t] = Absent]}
        /\ UNCHANGED <<pkg, goal, mode>>
    BY <1>3, <1>4, <1>17 DEF RemoveLink
  <2>2. ASSUME mode # "remove", goal # Absent
        PROVE  goal \in Packages /\ PlacedFor(goal)' /\ todo' \cap goal.targets = {}
    <3>1. /\ goal \in Packages /\ todo \cap goal.targets = {}
          /\ \A u \in goal.targets : links[u] \in {Link, goal.version}
      BY <1>3, <2>1, <2>2 DEF Orderly
    <3>2. \A u \in goal.targets : links'[u] = links[u]
      BY <1>0, <2>1, <3>1 DEF Packages
    <3> QED
      BY <2>1, <3>1, <3>2
  <2>3. mode # "remove" /\ goal = Absent => pkg \notin Packages
    BY <1>3, <2>1 DEF Orderly
  <2> QED
    BY <1>3, <2>1, <2>2, <2>3 DEF Orderly
<1>18. CASE RemoveLinksDone
  BY <1>3, <1>4, <1>18 DEF RemoveLinksDone, Orderly
<1>19. CASE RemovePackage
  BY <1>0, <1>3, <1>4, <1>19 DEF RemovePackage, Orderly
<1>20. CASE RewriteMetadata
  <2>1. /\ at = "writeMetadata" /\ at' = "end" /\ UNCHANGED <<links, mode>>
        /\ pkg' = IF goal = Absent THEN pkg ELSE goal
    BY <1>3, <1>4, <1>20 DEF RewriteMetadata
  <2>2. IF goal = Absent THEN pkg \notin Packages
        ELSE goal \in Packages /\ PlacedFor(goal)
    BY <1>3, <2>1 DEF Orderly
  <2> QED
    BY <1>3, <2>1, <2>2 DEF Orderly
<1>21. CASE Return
  BY <1>3, <1>21 DEF Return, Forget, Orderly
<1>22. CASE ToolStep
  <2>1. PICK t \in Targets : ToolCopies(t)
    BY <1>22 DEF ToolStep
  <2>2. /\ at = "idle" /\ UNCHANGED <<at, pkg, staging, goal, todo, mode>> /\ pkg \in Packages
        /\ links[t] = Link /\ links' = [links EXCEPT ![t] = pkg.version]
    BY <1>22, <2>1 DEF ToolStep, ToolCopies
  <2>3. \A u \in pkg.targets : links[u] \in {Link, pkg.version}
    BY <1>3, <2>2 DEF Orderly
  <2>4. \A u \in pkg.targets : links'[u] \in {Link, pkg.version}
    BY <1>0, <2>2, <2>3 DEF Packages
  <2> QED
    BY <1>3, <2>2, <2>4 DEF Orderly
<1> QED
  BY <1>3, <1>5, <1>6, <1>7, <1>8, <1>9, <1>10, <1>11, <1>12, <1>13, <1>14, <1>15, <1>16,
     <1>17, <1>18, <1>19, <1>20, <1>21, <1>22
  DEF RunStep, InstallStep, RemoveStep

\* As long as nothing fails, crashes or is repaired, every target in the
\* metadata leads to the version that is installed.
THEOREM PlacementsAreCurrent == DoctoredSpec => []PlacementsCurrent
<1> DEFINE Inv == TypeOK /\ Phase /\ Orderly
<1>1. Init => Inv
  <2>1. Init => Orderly
    BY PackageAssumption DEF Init, Orderly, Managed
  <2> QED
    BY <2>1, TypeInit
<1>2. Inv /\ [DoctoredNext]_vars => Inv'
  BY TypeStep, OrderlyStep DEF AnyNext
<1>3. Inv => PlacementsCurrent
  BY DEF Orderly, PlacedFor, PlacementsCurrent
<1> QED
  BY <1>1, <1>2, <1>3, PTL DEF DoctoredSpec

-----------------------------------------------------------------------------
(***************************************************************************)
(* Installations are whole, while no doctor is about                       *)
(***************************************************************************)

Doing == {"stage", "metadata", "moveAside", "put", "link", "putLink", "finish"}
Undoing == {"unlink", "relink", "discard", "restore"}
RemoveLabels == {"removeLinks", "removePackage", "writeMetadata"}

\* which command is at which label
Labelled ==
  /\ at \in Doing \cup Undoing => mode = "install"
  /\ at \in RemoveLabels => mode \in {"remove", "removeSome"}
  /\ mode = "install" => at \in Doing \cup Undoing \cup {"end"}
  /\ at = "idle" => prior = NoLinks /\ faults = 0

\* the metadata to write is that of the package, without some targets
Narrowing ==
  at = "writeMetadata" \/ (at = "removeLinks" /\ mode = "removeSome") =>
    IF pkg \in Packages
      THEN \E ts \in SUBSET Targets : goal = [pkg EXCEPT !.targets = @ \ ts]
      ELSE goal = Absent

\* what may come to a target, while an install is at work or when it is killed
Ways(t) ==
  IF t \in goal.targets THEN {before[2][t], Absent, Link, Partial, goal.version}
  ELSE {before[2][t]}

\* Whatever fails: nothing is anywhere but what was there, or is to come there.
Traced ==
  /\ goal \in Packages /\ todo \subseteq goal.targets
  /\ pkg \in {before[1], Absent, goal}
  /\ previous \in {before[1], Absent}
  /\ aside = "backup" => before[1] = UserDir
  /\ at \in {"stage", "metadata", "moveAside"} => pkg = before[1]
  /\ \A t \in Targets : links[t] \in Ways(t)
  /\ \A t \in goal.targets : prior[t] \in Ways(t)
  /\ \A i \in 1 .. Len(linked) : linked[i] \in goal.targets

\* An install undoes its work, or gives up, for a failure only.
Reckoned ==
  /\ at \in Doing => faults = 0
  /\ at \in Undoing => faults > 0
  /\ at \in {"metadata", "moveAside", "put"} => staging # Absent
  /\ at = "end" =>
       IF result = "done"
         THEN /\ faults = 0 /\ pkg = goal
              /\ \A t \in goal.targets : links[t] \in {Link, goal.version}
         ELSE faults > 0

Settling == Labelled /\ Narrowing /\ (mode = "install" => Traced /\ Reckoned)

LEMMA LabelledStep ==
  ASSUME TypeOK, Aside, Labelled, [Next]_vars
  PROVE  Labelled'
<1> USE DEF Labelled, disk, work, linking, command, Goto, Fault, End, Fail, FailGone, Go,
            Doing, Undoing, RemoveLabels
<1>1. ASSUME NEW v \in Versions, NEW ts \in SUBSET Targets, BeginInstall(v, ts)
      PROVE  Labelled'
  BY <1>1 DEF BeginInstall
<1>2. CASE Stage \/ WriteMetadata
  BY <1>2 DEF Stage, WriteMetadata
<1>3. CASE MoveAside
  BY <1>3 DEF MoveAside
<1>4. CASE Put
  BY <1>4 DEF Put
<1>5. ASSUME NEW t \in Targets, PrepareLink(t) \/ KeepLink(t) PROVE Labelled'
  BY <1>5 DEF PrepareLink, KeepLink, Undo
<1>6. CASE PutLink \/ LinksDone \/ Unlink \/ Relink
  BY <1>6 DEF PutLink, LinksDone, Unlink, Relink, GiveUp, Undo
<1>7. CASE Discard \/ Restore \/ Finish
  BY <1>7 DEF Discard, Restore, Finish
<1>8. CASE RemoveStep
  BY <1>8 DEF RemoveStep, BeginRemove, BeginRemoveFrom, RemoveLink, RemoveLinksDone,
              RemovePackage, RewriteMetadata
<1>9. CASE Return \/ Crash
  BY <1>9 DEF Return, Crash, Forget
<1>10. CASE ToolStep \/ UNCHANGED vars
  BY <1>10 DEF ToolStep, ToolCopies, vars
<1> QED
  BY NextSteps, <1>1, <1>2, <1>3, <1>4, <1>5, <1>6, <1>7, <1>8, <1>9, <1>10 DEF InstallStep

LEMMA NarrowingStep ==
  ASSUME TypeOK, Labelled, Narrowing, [Next]_vars
  PROVE  Narrowing'
<1> USE PackageAssumption
    DEF disk, work, linking, command, Goto, Fault, End, Fail, FailGone, Go, Managed
<1>1. CASE InstallStep
  <2>1. at' \notin RemoveLabels
    BY <1>1 DEF InstallStep, BeginInstall, Stage, WriteMetadata, MoveAside, Put, PrepareLink,
                KeepLink, Undo, GiveUp, PutLink, LinksDone, Unlink, Relink, Discard, Restore,
                Finish, RemoveLabels
  <2> QED
    BY <2>1 DEF Narrowing, RemoveLabels
<1>2. ASSUME NEW f \in BOOLEAN, BeginRemove(f) PROVE Narrowing'
  BY <1>2 DEF BeginRemove, Narrowing
<1>3. ASSUME NEW f \in BOOLEAN, NEW ts \in SUBSET Targets, BeginRemoveFrom(ts, f)
      PROVE  Narrowing'
  BY <1>3 DEF BeginRemoveFrom, Narrowing
<1>4. ASSUME NEW t \in Targets, RemoveLink(t) PROVE Narrowing'
  BY <1>4 DEF RemoveLink, Narrowing
<1>5. CASE RemoveLinksDone
  BY <1>5 DEF RemoveLinksDone, Narrowing, Labelled, RemoveLabels
<1>6. CASE RemovePackage \/ RewriteMetadata
  BY <1>6 DEF RemovePackage, RewriteMetadata, Narrowing
<1>7. CASE Return \/ Crash
  BY <1>7 DEF Return, Crash, Forget, Narrowing
<1>8. CASE ToolStep \/ UNCHANGED vars
  BY <1>8 DEF ToolStep, ToolCopies, vars, Narrowing
<1> QED
  BY NextSteps, <1>1, <1>2, <1>3, <1>4, <1>5, <1>6, <1>7, <1>8 DEF RemoveStep

LEMMA TracedStep ==
  ASSUME TypeOK, Phase, Linking, Aside, Labelled, mode = "install" => Traced,
         [Next]_vars, mode' = "install"
  PROVE  Traced'
<1> USE PathAssumption, PackageAssumption
    DEF disk, work, linking, command, Goto, Fault, End, Fail, FailGone, Go, Managed
<1>0. /\ links \in [Targets -> Contents] /\ prior \in [Targets -> Contents]
      /\ linked \in Seq(Targets) /\ before[2] \in [Targets -> Contents]
      /\ Absent \notin Packages /\ UserDir \notin Packages
  BY DEF TypeOK
<1>1. ASSUME NEW v \in Versions, NEW ts \in SUBSET Targets, BeginInstall(v, ts)
      PROVE  Traced'
  <2>1. /\ goal' = [version |-> v, targets |-> ts] /\ todo' = ts /\ before' = <<pkg, links>>
        /\ at' = "stage" /\ UNCHANGED <<pkg, links, previous, aside, linked, prior>>
    BY <1>1 DEF BeginInstall
  <2>2. prior = NoLinks /\ linked = <<>> /\ previous = Absent /\ aside = "nothing"
    BY <1>1 DEF BeginInstall, Labelled, Linking, Aside
  <2>3. goal' \in Packages /\ goal'.targets = ts
    BY <2>1, GoalType
  <2>4. \A t \in Targets : links'[t] \in Ways(t)'
    BY <2>1 DEF Ways
  <2>5. \A t \in goal'.targets : prior'[t] \in Ways(t)'
    BY <2>1, <2>2, <2>3 DEF Ways, NoLinks
  <2>6. \A i \in 1 .. Len(linked') : linked'[i] \in goal'.targets
    BY <2>1, <2>2
  <2> QED
    BY <2>1, <2>2, <2>3, <2>4, <2>5, <2>6 DEF Traced
<1>2. ASSUME mode = mode' PROVE Traced
  BY <1>2
<1>3. CASE Stage \/ WriteMetadata
  <2>1. /\ UNCHANGED <<mode, goal, todo, pkg, previous, aside, before, links, prior, linked>>
        /\ at' \in {"metadata", "moveAside", "end"} /\ at \in {"stage", "metadata"}
    BY <1>3 DEF Stage, WriteMetadata
  <2> QED
    BY <1>2, <2>1 DEF Traced, Ways
<1>4. CASE MoveAside
  <2>1. /\ UNCHANGED <<mode, goal, todo, before, links, prior, linked>>
        /\ at = "moveAside" /\ at' \in {"put", "end"}
    BY <1>4 DEF MoveAside
  <2>2. pkg = before[1] /\ pkg \in Packages \cup {UserDir, Absent}
    BY <1>2, <2>1 DEF Traced, TypeOK
  <2>3. /\ pkg' \in {pkg, Absent} /\ previous' \in {previous, pkg}
        /\ aside' = "backup" => aside = "backup" \/ before[1] = UserDir
    BY <1>4, <2>2 DEF MoveAside, BlOwned
  <2> QED
    BY <1>2, <2>1, <2>2, <2>3 DEF Traced, Ways
<1>5. CASE Put
  <2>1. /\ UNCHANGED <<mode, goal, todo, before, links, prior, linked>>
        /\ at = "put" /\ at' \in {"link", "end"}
    BY <1>5 DEF Put
  <2>2. staging \in {goal, Absent}
    BY <2>1 DEF Phase
  <2>3. /\ pkg' \in {pkg, goal, before[1]}
        /\ previous' \in {previous, Absent}
        /\ aside' = "backup" => aside = "backup"
    <3>1. Traced
      BY <1>2, <2>1
    <3>2. PutBack => pkg' \in {pkg, before[1]} /\ previous' \in {previous, Absent}
      BY <3>1 DEF PutBack, Traced
    <3>3. \/ staging # Absent /\ pkg' = staging /\ previous' = previous
          \/ PutBack /\ aside' = aside
          \/ UNCHANGED <<pkg, previous, aside>>
      BY <1>5 DEF Put
    <3>4. aside' = "backup" => aside = "backup"
      BY <1>5 DEF Put
    <3> QED
      BY <2>2, <3>2, <3>3, <3>4
  <2> QED
    BY <1>2, <2>1, <2>3 DEF Traced, Ways
<1>6. ASSUME NEW t \in Targets, PrepareLink(t) PROVE Traced'
  <2>1. /\ UNCHANGED <<mode, goal, todo, pkg, previous, aside, before>>
        /\ at' \in {"putLink", "unlink", "discard"} /\ t \in todo
        /\ \/ UNCHANGED <<prior, links, linked>>
           \/ /\ prior' = [prior EXCEPT ![t] = links[t]]
              /\ links' = [links EXCEPT ![t] = Absent]
              /\ linked' = Append(linked, t)
    BY <1>6 DEF PrepareLink, Undo
  <2>2. Traced
    BY <1>2, <2>1
  <2>3. t \in goal.targets /\ links[t] \in Ways(t) /\ Absent \in Ways(t)
    BY <2>1, <2>2 DEF Traced, Ways
  <2>4. \A u \in Targets : Ways(u)' = Ways(u)
    BY <2>1 DEF Ways
  <2>5. \A u \in Targets : links'[u] \in Ways(u)
    BY <1>0, <2>1, <2>2, <2>3 DEF Traced
  <2>6. goal.targets \subseteq Targets
    BY <2>2 DEF Traced, Packages
  <2>7. \A u \in goal.targets : prior'[u] \in Ways(u)
    BY <1>0, <2>1, <2>2, <2>3, <2>6 DEF Traced
  <2>8. \A i \in 1 .. Len(linked') : linked'[i] \in goal.targets
    BY <1>0, <2>1, <2>2, <2>3 DEF Traced
  <2> QED
    BY <2>1, <2>2, <2>4, <2>5, <2>6, <2>7, <2>8 DEF Traced
<1>7. ASSUME NEW t \in Targets, KeepLink(t) PROVE Traced'
  <2>1. /\ UNCHANGED <<mode, goal, pkg, previous, aside, before, links, prior, linked, at>>
        /\ todo' = todo \ {t}
    BY <1>7 DEF KeepLink
  <2> QED
    BY <1>2, <2>1 DEF Traced, Ways
<1>8. CASE PutLink
  <2> DEFINE t == linked[Len(linked)]
  <2>1. /\ UNCHANGED <<mode, goal, pkg, previous, aside, before, prior, linked>>
        /\ at = "putLink" /\ at' \in {"link", "unlink"} /\ todo' \subseteq todo
        /\ \E content \in {Link, Absent, Partial, goal.version} :
             links' = [links EXCEPT ![t] = content]
    BY <1>8 DEF PutLink
  <2>2. Traced
    BY <1>2, <2>1
  <2>3. t \in goal.targets
    BY <1>0, <2>1, <2>2 DEF Traced, Linking
  <2> HIDE DEF t
  <2>4. \A u \in Targets : links'[u] \in Ways(u)
    BY <1>0, <2>1, <2>2, <2>3 DEF Traced, Ways
  <2> QED
    BY <2>1, <2>2, <2>4 DEF Traced, Ways
<1>9. CASE LinksDone
  <2>1. /\ UNCHANGED <<mode, goal, todo, pkg, previous, aside, before, links, linked>>
        /\ at' = "finish" /\ prior' = NoLinks
    BY <1>9 DEF LinksDone
  <2>2. Traced /\ goal.targets \subseteq Targets
    BY <1>2, <2>1 DEF Traced, Packages
  <2> QED
    BY <2>1, <2>2 DEF Traced, Ways, NoLinks
<1>10. CASE Unlink \/ Relink
  <2> DEFINE t == linked[Len(linked)]
             rest == SubSeq(linked, 1, Len(linked) - 1)
  <2>1. /\ UNCHANGED <<mode, goal, todo, pkg, previous, aside, before, prior>>
        /\ at \in {"unlink", "relink"} /\ at' \in {"discard", "unlink", "relink"}
        /\ linked' \in {linked, rest}
        /\ links' = links \/ \E content \in {prior[t], Absent} : links' = [links EXCEPT ![t] = content]
    BY <1>10 DEF Unlink, Relink, GiveUp, Undo
  <2>2. Traced
    BY <1>2, <2>1
  <2>3. linked # <<>> /\ t \in goal.targets
    BY <1>0, <2>1, <2>2 DEF Traced, Linking
  <2>4. /\ \A i \in 1 .. Len(rest) : rest[i] \in goal.targets
        /\ \A i \in 1 .. Len(linked) : linked[i] \in goal.targets
    <3>1. Len(linked) \in Nat \ {0}
      BY <1>0, <2>3
    <3>2. Len(rest) = Len(linked) - 1 /\ \A i \in 1 .. Len(linked) - 1 : rest[i] = linked[i]
      BY <1>0, <3>1, RestOf
    <3> QED
      BY <2>2, <3>1, <3>2 DEF Traced
  <2> HIDE DEF t, rest
  <2>5. t \in Targets /\ {prior[t], Absent} \subseteq Ways(t)
    BY <2>2, <2>3 DEF Traced, Ways, Packages
  <2>6. \A u \in Targets : links'[u] \in Ways(u)
    BY <1>0, <2>1, <2>2, <2>5 DEF Traced
  <2> QED
    BY <2>1, <2>2, <2>4, <2>6 DEF Traced, Ways
<1>11. CASE Discard \/ Restore
  <2>1. /\ UNCHANGED <<mode, goal, todo, before, links, prior, linked, aside>>
        /\ at' \in {"restore", "end"}
    BY <1>11 DEF Discard, Restore
  <2>2. Traced
    BY <1>2, <2>1
  <2>3. /\ previous' \in {previous, Absent}
        /\ pkg' \in {pkg, Absent, before[1]}
    BY <1>11, <2>2 DEF Discard, Restore, Traced
  <2> QED
    BY <2>1, <2>2, <2>3 DEF Traced, Ways
<1>12. CASE Finish
  <2>1. /\ UNCHANGED <<mode, goal, todo, pkg, before, links, prior, linked, aside>>
        /\ at' = "end" /\ previous' \in {previous, Absent}
    BY <1>12 DEF Finish
  <2> QED
    BY <1>2, <2>1 DEF Traced, Ways
<1>13. RemoveStep => FALSE
  BY DEF RemoveStep, BeginRemove, BeginRemoveFrom, RemoveLink, RemoveLinksDone,
         RemovePackage, RewriteMetadata, Labelled, RemoveLabels
<1>14. ~Return /\ ~Crash
  BY DEF Return, Crash, Forget
<1>15. ToolStep => FALSE
  BY DEF ToolStep, ToolCopies, Labelled, Doing, Undoing
<1>16. CASE UNCHANGED vars
  BY <1>2, <1>16 DEF vars, Traced, Ways
<1> QED
  BY NextSteps, <1>1, <1>3, <1>4, <1>5, <1>6, <1>7, <1>8, <1>9, <1>10, <1>11, <1>12, <1>13,
     <1>14, <1>15, <1>16
  DEF InstallStep

LEMMA ReckonedStep ==
  ASSUME TypeOK, Phase, Aside, Labelled, Undoable, mode = "install" => Traced /\ Reckoned,
         [Next]_vars, mode' = "install"
  PROVE  Reckoned'
<1> USE PathAssumption, PackageAssumption, MaxFaultsAssumption
    DEF disk, work, linking, command, Goto, Fault, End, Fail, FailGone, Go, Managed,
        Doing, Undoing
<1>0. faults \in Nat /\ Absent \notin Packages /\ Partial # Absent
  BY DEF TypeOK
<1>1. ASSUME NEW v \in Versions, NEW ts \in SUBSET Targets, BeginInstall(v, ts)
      PROVE  Reckoned'
  BY <1>1 DEF BeginInstall, Labelled, Reckoned
<1>2. ASSUME mode = mode' PROVE Traced /\ Reckoned
  BY <1>2
<1>3. CASE Stage
  BY <1>0, <1>2, <1>3 DEF Stage, Reckoned, Traced
<1>4. CASE WriteMetadata
  BY <1>0, <1>2, <1>4 DEF WriteMetadata, Reckoned, Traced
<1>5. CASE MoveAside
  BY <1>0, <1>2, <1>5 DEF MoveAside, Reckoned
<1>6. CASE Put
  BY <1>0, <1>2, <1>6 DEF Put, Reckoned
<1>7. ASSUME NEW t \in Targets, PrepareLink(t) \/ KeepLink(t) PROVE Reckoned'
  BY <1>0, <1>2, <1>7 DEF PrepareLink, KeepLink, Undo, Reckoned
<1>8. CASE PutLink \/ LinksDone
  BY <1>0, <1>2, <1>8 DEF PutLink, LinksDone, Reckoned
<1>9. CASE Unlink \/ Relink
  BY <1>0, <1>2, <1>9 DEF Unlink, Relink, GiveUp, Undo, Reckoned
<1>10. CASE Discard \/ Restore
  BY <1>0, <1>2, <1>10 DEF Discard, Restore, Reckoned, Aside
<1>11. CASE Finish
  <2>1. /\ at = "finish" /\ at' = "end" /\ UNCHANGED <<mode, goal, pkg, links>>
        /\ \/ result' = "done" /\ faults' = faults
           \/ result' = "failed" /\ faults' = faults + 1
    BY <1>11 DEF Finish
  <2>2. pkg = goal /\ faults = 0
    BY <1>2, <2>1 DEF Phase, Reckoned
  <2>3. \A t \in goal.targets : links[t] \in {Link, goal.version}
    BY <2>1, <2>2 DEF Undoable, Placed
  <2> QED
    BY <1>0, <2>1, <2>2, <2>3 DEF Reckoned
<1>12. RemoveStep => FALSE
  BY DEF RemoveStep, BeginRemove, BeginRemoveFrom, RemoveLink, RemoveLinksDone,
         RemovePackage, RewriteMetadata, Labelled, RemoveLabels
<1>13. ~Return /\ ~Crash
  BY DEF Return, Crash, Forget
<1>14. ToolStep => FALSE
  BY DEF ToolStep, ToolCopies, Labelled
<1>15. CASE UNCHANGED vars
  BY <1>2, <1>15 DEF vars, Reckoned
<1> QED
  BY NextSteps, <1>1, <1>3, <1>4, <1>5, <1>6, <1>7, <1>8, <1>9, <1>10, <1>11, <1>12, <1>13,
     <1>14, <1>15
  DEF InstallStep

\* all of what the refinement needs to know of a state
SettlingInv == TypeOK /\ Phase /\ Quiet /\ Linking /\ Aside /\ Undoable /\ Settling

LEMMA SettlingStep == SettlingInv /\ [Next]_vars => SettlingInv'
BY NextSteps, QuietMends, QuietStays, TypeStep, LinkingStep, AsideStep, UndoableStep,
   LabelledStep, NarrowingStep, TracedStep, ReckonedStep
DEF SettlingInv, Settling

LEMMA SettlingInit == Init => SettlingInv
BY TypeInit, AloneInit
DEF Init, SettlingInv, Quiet, Settling, Undoable, Labelled, Narrowing, Doing, Undoing, RemoveLabels

-----------------------------------------------------------------------------

\* An install that is over has changed all at once or nothing; or it met a second
\* failure.
LEMMA InstallIsOver ==
  ASSUME SettlingInv, SettlingInv', mode = "install", mode' = "install", before' = before,
         at # "end", at' = "end", faults <= faults'
  PROVE  Lifecycle!Next
<1>1. /\ Traced' /\ Reckoned' /\ (faults' <= 1 => FailureIsAtomic')
      /\ faults \in Nat /\ faults' \in Nat /\ goal' \in Packages
      /\ links' \in [Targets -> Contents] /\ before[2] \in [Targets -> Contents]
      /\ at # "idle"
  BY MaxFaultsAssumption DEF SettlingInv, Settling, Undoable, TypeOK, Labelled, Traced, Doing, Undoing
<1>2. /\ SettledPackage = before[1] /\ SettledPackage' = pkg'
      /\ SettledLinks = before[2] /\ SettledLinks' = links'
      /\ CommandPhase = "install" /\ CommandPhase' = "over"
  BY <1>1 DEF SettledPackage, SettledLinks, Installing, CommandPhase
<1>3. Lifecycle!Ends("install") /\ ~Lifecycle!Killed
  BY <1>1, <1>2 DEF Lifecycle!Ends, Lifecycle!Killed
<1>4. ASSUME faults' <= 1, pkg' = goal',
             \A t \in goal'.targets : links'[t] \in {Link, goal'.version}
      PROVE  Lifecycle!Install(goal')
  BY <1>1, <1>2, <1>3, <1>4 DEF Lifecycle!Install, Lifecycle!Filled, Traced, Ways
<1>5. ASSUME links' = before[2], faults' > 0,
             pkg' = before[1] \/ (before[1] = Absent /\ pkg' = goal')
      PROVE  Lifecycle!Undo(goal')
  BY <1>2, <1>3, <1>5 DEF Lifecycle!Undo
<1>6. ASSUME faults' > 1 PROVE Lifecycle!Spoil(goal')
  BY <1>1, <1>2, <1>3, <1>6 DEF Lifecycle!Spoil, Lifecycle!Filled, Traced, Ways
<1>7. Lifecycle!Install(goal') \/ Lifecycle!Undo(goal') \/ Lifecycle!Spoil(goal')
  <2>1. CASE faults' > 1
    BY <1>6, <2>1
  <2>2. CASE result' = "done"
    BY <1>1, <1>4, <2>2 DEF Reckoned
  <2>3. CASE faults' <= 1 /\ result' # "done"
    <3>1. faults' > 0
      BY <1>1, <2>3 DEF Reckoned
    <3>2. CASE links' = before[2] /\ (before[1] # Absent => pkg' = before[1])
      BY <1>1, <1>5, <3>1, <3>2 DEF Traced
    <3>3. CASE pkg' = goal' /\ \A t \in goal'.targets : links'[t] \in {Link, goal'.version}
      BY <1>4, <2>3, <3>3
    <3> QED
      BY <1>1, <2>3, <3>2, <3>3 DEF FailureIsAtomic
  <2> QED
    BY <1>1, <2>1, <2>2, <2>3
<1> QED
  BY <1>1, <1>3, <1>7 DEF Lifecycle!Next, Lifecycle!Packages, Packages

\* An install at work shows nothing of it, but that an operation failed.
LEMMA InstallGoesOn ==
  ASSUME SettlingInv, SettlingInv', mode = "install", mode' = "install", before' = before,
         at # "end", at' # "end", faults <= faults'
  PROVE  [Lifecycle!Next]_(Lifecycle!skillVars)
<1>1. at # "idle" /\ at' # "idle" /\ faults \in Nat /\ faults' \in Nat
  BY MaxFaultsAssumption DEF SettlingInv, Settling, TypeOK, Labelled, Doing, Undoing
<1>2. UNCHANGED <<SettledPackage, SettledLinks, CommandPhase>> /\ CommandPhase = "install"
  BY <1>1 DEF SettledPackage, SettledLinks, Installing, CommandPhase
<1> QED
  BY <1>1, <1>2 DEF Lifecycle!Next, Lifecycle!Fail, Lifecycle!skillVars

\* A killed command
LEMMA KilledOrDone ==
  ASSUME SettlingInv, [Next]_vars, Return \/ Crash
  PROVE  [Lifecycle!Next]_(Lifecycle!skillVars)
<1>1. /\ at # "idle" /\ at' = "idle" /\ mode' = "none" /\ faults' = 0 /\ pkg' = pkg
      /\ at # "putLink" => links' = links
  BY DEF Return, Crash, Forget
<1>2. /\ SettledPackage' = pkg /\ SettledLinks' = links' /\ CommandPhase' = "idle"
  BY <1>1 DEF SettledPackage, SettledLinks, Installing, CommandPhase
<1>3. CASE at = "end"
  <2>1. SettledPackage = pkg /\ SettledLinks = links /\ CommandPhase = "over"
    BY <1>3 DEF SettledPackage, SettledLinks, Installing, CommandPhase
  <2> QED
    BY <1>1, <1>2, <1>3, <2>1 DEF Lifecycle!Next, Lifecycle!Return
<1>4. CASE at # "end" /\ mode = "install"
  <2>1. Traced
    BY <1>4 DEF SettlingInv, Settling
  <2>2. /\ SettledPackage = before[1] /\ SettledLinks = before[2] /\ CommandPhase = "install"
    BY <1>1, <1>4 DEF SettledPackage, SettledLinks, Installing, CommandPhase
  <2>3. Lifecycle!Ends("install") /\ Lifecycle!Killed
    BY <1>1, <1>2, <2>2 DEF Lifecycle!Ends, Lifecycle!Killed
  <2>4. \A t \in Targets : links'[t] \in Ways(t)
    <3>1. links \in [Targets -> Contents] /\ linked \in Seq(Targets)
      BY DEF SettlingInv, TypeOK
    <3>2. CASE links' = links
      BY <2>1, <3>2 DEF Traced
    <3>3. CASE at = "putLink" /\ \E content \in {Partial, goal.version} :
                 links' = [links EXCEPT ![linked[Len(linked)]] = content]
      <4>1. linked # <<>>
        BY <3>3 DEF SettlingInv, Linking
      <4>2. linked[Len(linked)] \in goal.targets
        BY <2>1, <3>1, <4>1 DEF Traced
      <4> QED
        BY <2>1, <3>1, <3>3, <4>2 DEF Traced, Ways
    <3> QED
      BY <3>2, <3>3 DEF Return, Crash
  <2>5. links' \in [Targets -> Contents] /\ before[2] \in [Targets -> Contents]
    BY TypeStep DEF SettlingInv, TypeOK, AnyNext, Next, RunStep
  <2>6. Lifecycle!Spoil(goal)
    BY <1>2, <2>1, <2>2, <2>3, <2>4, <2>5 DEF Lifecycle!Spoil, Lifecycle!Filled, Traced, Ways
  <2> QED
    BY <2>1, <2>3, <2>6 DEF Lifecycle!Next, Lifecycle!Packages, Packages, Traced
<1>5. CASE at # "end" /\ mode # "install"
  <2>1. SettledPackage = pkg /\ SettledLinks = links /\ CommandPhase = "remove"
    BY <1>1, <1>5 DEF SettledPackage, SettledLinks, Installing, CommandPhase
  <2>2. links' = links
    BY <1>1, <1>5 DEF SettlingInv, Settling, Labelled, Doing
  <2>3. Lifecycle!Ends("remove") /\ Lifecycle!Stop
    BY <1>1, <1>2, <2>1, <2>2 DEF Lifecycle!Ends, Lifecycle!Stop, Lifecycle!Killed
  <2> QED
    BY <1>2, <2>1, <2>2, <2>3 DEF Lifecycle!Next
<1> QED
  BY <1>3, <1>4, <1>5

LEMMA RemovalMaps ==
  ASSUME SettlingInv, RemoveStep
  PROVE  [Lifecycle!Next]_(Lifecycle!skillVars)
<1> USE DEF disk, work, linking, command, Goto, Fault, End, Fail, FailGone, Go
<1>0. Labelled /\ Narrowing /\ faults \in Nat
  BY MaxFaultsAssumption DEF SettlingInv, Settling, TypeOK
<1>1. CASE at = "idle"
  <2>1. at' = "removeLinks" /\ mode' # "install" /\ UNCHANGED <<pkg, links, faults>>
    BY <1>1 DEF RemoveStep, BeginRemove, BeginRemoveFrom, RemoveLink, RemoveLinksDone,
                RemovePackage, RewriteMetadata
  <2>2. mode # "install"
    BY <1>0, <1>1 DEF Labelled, Doing, Undoing
  <2>3. /\ UNCHANGED <<SettledPackage, SettledLinks>>
        /\ CommandPhase = "idle" /\ CommandPhase' = "remove"
    BY <1>1, <2>1, <2>2 DEF SettledPackage, SettledLinks, Installing, CommandPhase
  <2> QED
    BY <2>1, <2>3 DEF Lifecycle!Next, Lifecycle!Start
<1>2. ASSUME at # "idle"
      PROVE  /\ at \in RemoveLabels /\ mode # "install" /\ mode' = mode
             /\ SettledPackage = pkg /\ SettledLinks = links /\ CommandPhase = "remove"
             /\ SettledPackage' = pkg' /\ SettledLinks' = links'
             /\ at' = "end" => CommandPhase' = "over"
             /\ at' \in RemoveLabels => CommandPhase' = "remove"
             /\ at' \in RemoveLabels \cup {"end"}
  <2>1. /\ at \in RemoveLabels /\ mode' = mode /\ at' \in RemoveLabels \cup {"end"}
    BY <1>2 DEF RemoveStep, BeginRemove, BeginRemoveFrom, RemoveLink, RemoveLinksDone,
                RemovePackage, RewriteMetadata, RemoveLabels
  <2>2. mode # "install"
    BY <1>0, <2>1 DEF Labelled
  <2> QED
    BY <2>1, <2>2 DEF SettledPackage, SettledLinks, Installing, CommandPhase, RemoveLabels
<1>3. ASSUME NEW t \in Targets, RemoveLink(t) PROVE [Lifecycle!Next]_(Lifecycle!skillVars)
  <2>1. at = "removeLinks" /\ UNCHANGED pkg
    BY <1>3 DEF RemoveLink
  <2>2. CASE at' = "end"
    <3>1. UNCHANGED links /\ faults' = faults + 1
      BY <1>3, <2>1, <2>2 DEF RemoveLink
    <3>2. Lifecycle!Ends("remove") /\ Lifecycle!Stop /\ UNCHANGED SettledLinks
      BY <1>0, <1>2, <2>1, <2>2, <3>1 DEF Lifecycle!Ends, Lifecycle!Stop
    <3> QED
      BY <3>2 DEF Lifecycle!Next
  <2>3. CASE at' # "end"
    <3>1. UNCHANGED <<at, faults>> /\ links' \in {links, [links EXCEPT ![t] = Absent]}
      BY <1>3, <2>3 DEF RemoveLink
    <3>2. UNCHANGED <<SettledPackage, CommandPhase, faults>> /\ CommandPhase = "remove"
          /\ SettledLinks' \in {SettledLinks, [SettledLinks EXCEPT ![t] = Absent]}
      BY <1>2, <2>1, <3>1 DEF RemoveLabels
    <3> QED
      BY <3>2 DEF Lifecycle!Next, Lifecycle!Empty, Lifecycle!skillVars
  <2> QED
    BY <2>2, <2>3
<1>4. CASE RemoveLinksDone
  <2>1. /\ at = "removeLinks" /\ at' \in RemoveLabels /\ UNCHANGED <<pkg, links, faults>>
    BY <1>4 DEF RemoveLinksDone, RemoveLabels
  <2> QED
    BY <1>2, <2>1 DEF Lifecycle!skillVars
<1>5. CASE RemovePackage
  <2>1. /\ at = "removePackage" /\ at' = "end" /\ UNCHANGED links
        /\ \/ pkg' = Absent /\ faults' = faults
           \/ pkg' = pkg /\ faults' = faults + 1
    BY <1>5 DEF RemovePackage
  <2>2. /\ Lifecycle!Ends("remove") /\ UNCHANGED SettledLinks
        /\ Lifecycle!Remove \/ Lifecycle!Stop
    BY <1>0, <1>2, <2>1
    DEF Lifecycle!Ends, Lifecycle!Remove, Lifecycle!Stop, Lifecycle!Killed
  <2> QED
    BY <2>2 DEF Lifecycle!Next
<1>6. CASE RewriteMetadata
  <2>1. /\ at = "writeMetadata" /\ at' = "end" /\ UNCHANGED links
        /\ \/ pkg' = (IF goal = Absent THEN pkg ELSE goal) /\ faults' = faults
           \/ pkg' = pkg /\ faults' = faults + 1
    BY <1>6 DEF RewriteMetadata
  <2>2. Lifecycle!Ends("remove") /\ ~Lifecycle!Killed /\ UNCHANGED SettledLinks
    BY <1>0, <1>2, <2>1 DEF Lifecycle!Ends, Lifecycle!Killed
  <2>3. CASE pkg' = pkg /\ faults' = faults + 1
    BY <1>0, <1>2, <2>1, <2>2, <2>3 DEF Lifecycle!Next, Lifecycle!Stop
  <2>4. CASE pkg \in Packages /\ pkg' = IF goal = Absent THEN pkg ELSE goal
    <3>1. PICK ts \in SUBSET Targets : goal = [pkg EXCEPT !.targets = @ \ ts]
      BY <1>0, <2>1, <2>4 DEF Narrowing
    <3>2. goal # Absent
      BY <2>4, <3>1, PackageAssumption DEF Packages
    <3>3. Lifecycle!Narrow(ts)
      BY <1>2, <2>1, <2>2, <2>4, <3>1, <3>2
      DEF Lifecycle!Narrow, Lifecycle!Packages, Packages
    <3> QED
      BY <2>2, <3>3 DEF Lifecycle!Next
  <2>5. CASE pkg \notin Packages /\ pkg' = IF goal = Absent THEN pkg ELSE goal
    <3>1. goal = Absent
      BY <1>0, <2>1, <2>5 DEF Narrowing
    <3>2. Lifecycle!Narrow({})
      BY <1>2, <2>1, <2>2, <2>5, <3>1 DEF Lifecycle!Narrow, Lifecycle!Packages, Packages
    <3> QED
      BY <2>2, <3>2 DEF Lifecycle!Next
  <2> QED
    BY <2>1, <2>3, <2>4, <2>5
<1>7. CASE \E f \in BOOLEAN : BeginRemove(f)
  BY <1>1, <1>7 DEF BeginRemove
<1>8. CASE \E f \in BOOLEAN, ts \in (SUBSET Targets) \ {{}} : BeginRemoveFrom(ts, f)
  BY <1>1, <1>8 DEF BeginRemoveFrom
<1> QED
  BY <1>3, <1>4, <1>5, <1>6, <1>7, <1>8 DEF RemoveStep

LEMMA SkillStepMaps ==
  SettlingInv /\ [Next]_vars => [Lifecycle!Next]_(Lifecycle!skillVars)
<1> SUFFICES ASSUME SettlingInv, [Next]_vars PROVE [Lifecycle!Next]_(Lifecycle!skillVars)
  OBVIOUS
<1>0. SettlingInv'
  BY SettlingStep
<1>1. CASE InstallStep /\ at = "idle"
  <2>1. at' = "stage" /\ mode' = "install" /\ before' = <<pkg, links>> /\ UNCHANGED faults
    BY <1>1 DEF InstallStep, BeginInstall, Stage, WriteMetadata, MoveAside, Put, PrepareLink,
                KeepLink, PutLink, LinksDone, Unlink, Relink, Discard, Restore, Finish, Goto
  <2>2. mode # "install"
    BY <1>1 DEF SettlingInv, Settling, Labelled, Doing, Undoing
  <2>3. /\ UNCHANGED <<SettledPackage, SettledLinks>>
        /\ CommandPhase = "idle" /\ CommandPhase' = "install"
    BY <1>1, <2>1, <2>2 DEF SettledPackage, SettledLinks, Installing, CommandPhase
  <2> QED
    BY <2>1, <2>3 DEF Lifecycle!Next, Lifecycle!Start
<1>2. CASE InstallStep /\ at # "idle"
  <2>1. /\ at \in Doing \cup Undoing /\ UNCHANGED <<mode, before>>
        /\ faults <= faults'
    BY <1>2, MaxFaultsAssumption
    DEF SettlingInv, TypeOK, InstallStep, BeginInstall, Stage, WriteMetadata, MoveAside, Put,
        PrepareLink, KeepLink, PutLink, LinksDone, Unlink, Relink, Discard, Restore, Finish,
        Doing, Undoing, command, Goto, Fault, End, Fail, FailGone, Go
  <2>2. mode = "install" /\ mode' = "install" /\ at # "end"
    BY <2>1 DEF SettlingInv, Settling, Labelled, Doing, Undoing
  <2> QED
    BY <1>0, <2>1, <2>2, InstallIsOver, InstallGoesOn
<1>3. CASE RemoveStep
  BY <1>3, RemovalMaps
<1>4. CASE Return \/ Crash
  BY <1>4, KilledOrDone
<1>5. CASE ToolStep
  <2>1. PICK t \in Targets : ToolCopies(t) /\ at = "idle"
    BY <1>5 DEF ToolStep
  <2>2. /\ UNCHANGED <<pkg, at, mode, before, faults>> /\ mode # "install"
        /\ links[t] = Link /\ pkg \in Packages /\ links' = [links EXCEPT ![t] = pkg.version]
    BY <2>1 DEF ToolCopies, command, Managed, SettlingInv, Settling, Labelled, Doing, Undoing
  <2>3. /\ SettledPackage = pkg /\ SettledLinks = links /\ CommandPhase = "idle"
        /\ SettledPackage' = pkg /\ SettledLinks' = links' /\ CommandPhase' = "idle"
    BY <2>1, <2>2 DEF SettledPackage, SettledLinks, Installing, CommandPhase
  <2> QED
    BY <2>2, <2>3 DEF Lifecycle!Next, Lifecycle!Copy, Lifecycle!Packages, Packages
<1>6. CASE UNCHANGED vars
  BY <1>6 DEF vars, disk, command, SettledPackage, SettledLinks, Installing, CommandPhase,
              Lifecycle!skillVars
<1> QED
  BY NextSteps, <1>1, <1>2, <1>3, <1>4, <1>5, <1>6

LEMMA SkillInitMaps == Init => Lifecycle!Init
BY DEF Init, Lifecycle!Init, SettledPackage, SettledLinks, Installing, CommandPhase

\* Without a doctor, whatever fails and wherever commands are killed: install, update
\* and remove of a skill implement its life cycle.
THEOREM InstallsImplementLifecycle == Spec => Lifecycle!Spec
<1>1. Init => SettlingInv
  BY SettlingInit
<1>2. SettlingInv /\ [Next]_vars => SettlingInv'
  BY SettlingStep
<1>3. SettlingInv /\ [Next]_vars => [Lifecycle!Next]_(Lifecycle!skillVars)
  BY SkillStepMaps
<1> QED
  BY SkillInitMaps, <1>1, <1>2, <1>3, PTL DEF Spec, Lifecycle!Spec

\* The same of the world that the run checks. In the others the mapping does not move.
LEMMA PromisedStep ==
  ASSUME world = Absent, world' = Absent, [Lifecycle!Next]_(Lifecycle!skillVars)
  PROVE  [Promised!Next]_(Promised!skillVars)
<1>1. ASSUME NEW new \in Packages
      PROVE  /\ Lifecycle!Install(new) => Promised!Install(new)
             /\ Lifecycle!Undo(new) => Promised!Undo(new)
             /\ Lifecycle!Spoil(new) => Promised!Spoil(new)
  BY DEF Lifecycle!Install, Promised!Install, Lifecycle!Undo, Promised!Undo,
         Lifecycle!Spoil, Promised!Spoil, Lifecycle!Filled, Promised!Filled,
         Lifecycle!Killed, Promised!Killed
<1>2. ASSUME NEW t \in Targets
      PROVE  /\ Lifecycle!Empty(t) => Promised!Empty(t)
             /\ Lifecycle!Copy(t) => Promised!Copy(t)
  BY DEF Lifecycle!Empty, Promised!Empty, Lifecycle!Copy, Promised!Copy,
         Lifecycle!Packages, Promised!Packages
<1>3. ASSUME NEW ts \in SUBSET Targets PROVE Lifecycle!Narrow(ts) => Promised!Narrow(ts)
  BY DEF Lifecycle!Narrow, Promised!Narrow, Lifecycle!Packages, Promised!Packages,
         Lifecycle!Killed, Promised!Killed
<1>4. /\ Lifecycle!Ends("install") => Promised!Ends("install")
      /\ Lifecycle!Ends("remove") => Promised!Ends("remove")
  BY DEF Lifecycle!Ends, Promised!Ends
<1>5. /\ Lifecycle!Start => Promised!Start
      /\ Lifecycle!Fail => Promised!Fail
      /\ Lifecycle!Remove => Promised!Remove
      /\ Lifecycle!Stop => Promised!Stop
      /\ Lifecycle!Return => Promised!Return
  BY DEF Lifecycle!Start, Promised!Start, Lifecycle!Fail, Promised!Fail,
         Lifecycle!Remove, Promised!Remove, Lifecycle!Stop, Promised!Stop,
         Lifecycle!Return, Promised!Return, Lifecycle!Killed, Promised!Killed
<1>6. Lifecycle!Packages = Packages /\ Promised!Packages = Packages
  BY DEF Lifecycle!Packages, Promised!Packages, Packages
<1>7. CASE Lifecycle!Next
  BY <1>1, <1>2, <1>3, <1>4, <1>5, <1>6, <1>7 DEF Lifecycle!Next, Promised!Next
<1>8. CASE UNCHANGED Lifecycle!skillVars
  BY <1>8 DEF Lifecycle!skillVars, Promised!skillVars
<1> QED
  BY <1>7, <1>8

\* In the world of the run where no doctor is about, the skill's package and placements
\* change as its life cycle says.
THEOREM InstallsAreWholeWithoutDoctor == WorldsSpec => InstallsAreWhole
<1> DEFINE Inv == world = Absent => SettlingInv
<1>1. WorldsInit => Inv /\ Promised!Init
  <2> SUFFICES ASSUME WorldsInit PROVE Inv /\ Promised!Init
    OBVIOUS
  <2>1. Inv
    BY SettlingInit DEF WorldsInit
  <2>2. Lifecycle!Init
    BY SkillInitMaps DEF WorldsInit
  <2>3. Promised!Init
    BY <2>2 DEF Lifecycle!Init, Promised!Init, NoLinks
  <2> QED
    BY <2>1, <2>3
<1>2. Inv /\ [WorldsNext]_<<vars, sharedVars, world>>
        => Inv' /\ [Promised!Next]_(Promised!skillVars)
  <2> SUFFICES ASSUME Inv, [WorldsNext]_<<vars, sharedVars, world>>
               PROVE  Inv' /\ [Promised!Next]_(Promised!skillVars)
    OBVIOUS
  <2>1. world' = world
    BY DEF WorldsNext
  <2>2. CASE world = Absent
    <3>1. SettlingInv /\ [Next]_vars
      BY <2>2, PathAssumption, OverlapAssumption DEF WorldsNext
    <3> QED
      BY <2>1, <2>2, <3>1, SettlingStep, SkillStepMaps, PromisedStep
  <2>3. CASE world # Absent
    BY <2>1, <2>3 DEF Promised!skillVars
  <2> QED
    BY <2>2, <2>3
<1> QED
  BY <1>1, <1>2, PTL DEF WorldsSpec, InstallsAreWhole, Promised!Spec

-----------------------------------------------------------------------------
(***************************************************************************)
(* An install and a repair at one path                                     *)
(***************************************************************************)

\* As long as the two have not crossed, one at most has cleared the path; the other
\* has nothing to put back.
Apart ==
  /\ source = "whole"
  /\ UserDirIntact
  /\ ~(Working("install") /\ Working("doctor"))
  /\ \A p \in Linkers : moved[p] # "mixture" /\ (~Working(p) => moved[p] = "nothing")

\* Whoever has cleared the path finds there what he has put there himself.
Cleared ==
  \A p \in Linkers :
    /\ Working(p) => path \notin {"user's", "mixture"}
    /\ stage[p] \in {"symlink", "copy", "put back"} => path = "nothing"

SharedInv ==
  /\ SharedTypeOK
  /\ path = "mixture" => crossed
  /\ crossed \/ (Apart /\ Cleared)

LEMMA SharedStart == SharedInit => SharedInv
BY DEF SharedInit, SharedInv, SharedTypeOK, Apart, Cleared, UserDirIntact, Working, Linkers,
       Stages, PathContents

LEMMA SharedTypes == ASSUME SharedTypeOK, SharedNext PROVE SharedTypeOK'
<1>1. crossed' \in BOOLEAN
  BY DEF SharedNext, SharedTypeOK
<1>2. ASSUME NEW p \in Linkers,
             \/ Enter(p) \/ CheckExisting(p) \/ Prepare(p) \/ Symlink(p) \/ CopyPackage(p)
             \/ Done(p) \/ RemoveAny(p) \/ PutMovedBack(p) \/ Kill(p)
      PROVE  SharedTypeOK'
  BY <1>1, <1>2 DEF SharedTypeOK, Enter, CheckExisting, Prepare, Symlink, CopyPackage, Done,
       RemoveAny, PutMovedBack, Kill, Leave, Advance, WithCopy, Stages, PathContents
<1>3. CASE Inspect \/ RollBack
  BY <1>1, <1>3 DEF SharedTypeOK, Inspect, RollBack, Advance, Stages, Linkers
<1> QED
  BY <1>2, <1>3 DEF SharedNext

LEMMA SharedStep == SharedInv /\ [SharedNext]_sharedVars => SharedInv'
<1> SUFFICES ASSUME SharedInv, SharedNext PROVE SharedInv'
  BY DEF SharedInv, SharedTypeOK, Apart, Cleared, UserDirIntact, Working, sharedVars
<1>1. SharedTypeOK'
  BY SharedTypes DEF SharedInv
<1>2. CASE crossed'
  BY <1>1, <1>2 DEF SharedInv
<1>3. CASE ~crossed'
  <2>1. ~crossed /\ Apart /\ Cleared /\ path # "mixture"
    BY <1>3 DEF SharedNext, SharedInv
  <2>2. ~(Working("install") /\ Working("doctor"))'
    BY <1>3 DEF SharedNext, Linkers
  <2> USE <1>1, <2>1, <2>2 DEF Apart, Cleared, UserDirIntact, Working, SharedTypeOK, Linkers,
          Advance, SharedInv
  <2>3. ASSUME NEW p \in Linkers, Enter(p) \/ CheckExisting(p) \/ Symlink(p) PROVE SharedInv'
    BY <2>3 DEF Enter, CheckExisting, Symlink
  <2>4. ASSUME NEW p \in Linkers, Prepare(p) PROVE SharedInv'
    <3>1. CASE UNCHANGED <<path, moved>>
      BY <2>4, <3>1 DEF Prepare, InTheWay
    <3>2. CASE moved' = [moved EXCEPT ![p] = IF path = "link" THEN "nothing" ELSE path]
               /\ path' = "nothing" /\ Advance(p, "symlink")
      <4>1. CASE p = "install"
        BY <2>4, <3>2, <4>1 DEF Prepare
      <4>2. CASE p = "doctor"
        BY <2>4, <3>2, <4>2 DEF Prepare
      <4> QED
        BY <4>1, <4>2
    <3> QED
      BY <2>4, <3>1, <3>2 DEF Prepare, InTheWay
  <2>5. ASSUME NEW p \in Linkers, CopyPackage(p) PROVE SharedInv'
    BY <2>5 DEF CopyPackage, WithCopy
  <2>6. ASSUME NEW p \in Linkers, Done(p) \/ Kill(p) PROVE SharedInv'
    <3>1. CASE p = "install"
      BY <2>6, <3>1 DEF Done, Kill, Leave
    <3>2. CASE p = "doctor"
      BY <2>6, <3>2 DEF Done, Kill, Leave
    <3> QED
      BY <3>1, <3>2
  <2>7. ASSUME NEW p \in Linkers, RemoveAny(p) PROVE SharedInv'
    BY <2>7 DEF RemoveAny, Leave
  <2>8. ASSUME NEW p \in Linkers, PutMovedBack(p) PROVE SharedInv'
    <3>1. CASE p = "install"
      BY <2>8, <3>1 DEF PutMovedBack, Leave
    <3>2. CASE p = "doctor"
      BY <2>8, <3>2 DEF PutMovedBack, Leave
    <3> QED
      BY <3>1, <3>2
  <2>9. CASE Inspect \/ RollBack
    BY <2>9 DEF Inspect, RollBack
  <2> HIDE DEF Apart, Cleared, UserDirIntact, Working, SharedTypeOK, Linkers, Advance, SharedInv
  <2> QED
    BY <2>3, <2>4, <2>5, <2>6, <2>7, <2>8, <2>9 DEF SharedNext
<1> QED
  BY <1>2, <1>3

\* However their steps at one path interleave, an install and a doctor destroy
\* neither the user's directory nor the package before both have cleared the path.
THEOREM HarmNeedsCrossing == SharedSpec => []OnlyCrossingHarms
<1>1. SharedInv => OnlyCrossingHarms
  BY DEF SharedInv, Apart, OnlyCrossingHarms
<1> QED
  BY <1>1, SharedStart, SharedStep, PTL DEF SharedSpec
=============================================================================
