--------------------------- MODULE SkillsCommands ---------------------------
(***************************************************************************)
(* `bl skills install', `update' and `remove' (skills.rs), from reading    *)
(* what is installed to the last operation of the server's install plan    *)
(* (execute_plan, skills_install.rs).  What an operation does to the file  *)
(* system is SkillInstall's subject: here it is done or not done.          *)
(*                                                                         *)
(* The install lock is held from before the plan to its end, and is taken  *)
(* for exclusive here (InstallLock has what it really is).  install reads  *)
(* what is installed under the lock, update before it takes it.            *)
(*                                                                         *)
(* The marketplace is not part of the repository.  What its plans are      *)
(* taken to have is an operation for every skill asked for and everything  *)
(* it needs, at the latest version: `noop' if the client says it has that  *)
(* version, and none for what it says is a local one.  A plan may also     *)
(* have an operation for a skill that nobody asked for, also one that is   *)
(* pinned or local: the client looks at no operation's skill, and carries  *)
(* out every one but removals.                                             *)
(***************************************************************************)
EXTENDS Integers, FiniteSets

CONSTANTS
  Actors,      \* commands that may be running at once
  Skills,
  Needs,       \* each skill and what it depends on, directly or not
  Targets,     \* install targets
  Preferred,   \* those of the preferences
  Given,       \* what --target may give
  MaxVersion,  \* bound on the versions of a skill
  Nothing      \* not installed; nobody; no version asked for

Placements == (SUBSET Targets) \ {{}}

ASSUME Sizes ==
  /\ MaxVersion \in Nat \ {0}
  /\ \A s \in Skills : Skills # {s}
  /\ Needs \in [Skills -> SUBSET Skills] /\ \A s \in Skills : s \in Needs[s]
  /\ Preferred \in Placements /\ Given \in Placements
  /\ Nothing \notin Actors

VARIABLES
  newest,     \* the marketplace's version of each skill
  inst,       \* the metadata of each installed skill
  holder,     \* of the install lock
  phase,      \* what each run does next
  order,      \* its command
  seen,       \* what it has read of the installed skills
  todo,       \* operations it has still to carry out
  report,     \* what it reports
  outdated    \* history: what it read had changed when it got the lock

skillsVars == <<newest, inst, holder, phase, order, seen, todo, report, outdated>>

Local == 0
Versions == 1..MaxVersion
Metadata == [version : Versions, pinned : BOOLEAN, targets : Placements]
              \cup [version : {Local}, pinned : {FALSE}, targets : Placements]
ASSUME Absent == Nothing \notin Metadata

Contents == [Skills -> Metadata \cup {Nothing}]

Singles == {{s} : s \in Skills}
NoTargets == {}

\* skills is everything for `--bundle' and for an update that names none; the
\* other options make no difference to a --dry-run
Orders ==
  [command : {"install"}, skills : Singles \cup {Skills}, version : {Nothing} \cup Versions,
   targets : {NoTargets, Given}, force : BOOLEAN, dry : {FALSE}]
    \cup [command : {"install"}, skills : Singles \cup {Skills}, version : {Nothing},
          targets : {NoTargets}, force : {FALSE}, dry : {TRUE}]
    \cup [command : {"update"}, skills : Singles, targets : {NoTargets, Given},
          all : {FALSE}, force : BOOLEAN, dry : {FALSE}]
    \cup [command : {"update"}, skills : {Skills}, targets : {NoTargets, Given},
          all : {TRUE}, force : BOOLEAN, dry : BOOLEAN]
    \cup [command : {"local"}, skills : Singles, targets : {NoTargets, Given},
          force : BOOLEAN]
    \cup [command : {"remove"}, skills : Singles]
NoOrder == [command |-> "none"]

Operations ==
  [action : {"noop", "install", "update"}, skill : Skills, version : Versions]
    \cup [action : {"remove"}, skill : Skills]

Dry(j) == j.command \in {"install", "update"} /\ j.dry

SkillsTypeOK ==
  /\ newest \in [Skills -> Versions]
  /\ inst \in Contents
  /\ holder \in Actors \cup {Nothing}
  /\ phase \in [Actors -> {"idle", "lock", "plan", "execute", "end"}]
  /\ order \in [Actors -> Orders \cup {NoOrder}]
  /\ seen \in [Actors -> Contents]
  /\ todo \in [Actors -> SUBSET Operations]
  /\ report \in [Actors -> {"running", "done"}]
  /\ outdated \in [Actors -> BOOLEAN]
  /\ \A r \in Actors : phase[r] \in {"plan", "execute"} /\ ~Dry(order[r]) <=> holder = r

NoSkills == [s \in Skills |-> Nothing]

SkillsInit ==
  /\ newest = [s \in Skills |-> 1]
  /\ inst = NoSkills
  /\ holder = Nothing
  /\ phase = [r \in Actors |-> "idle"]
  /\ order = [r \in Actors |-> NoOrder]
  /\ seen = [r \in Actors |-> NoSkills]
  /\ todo = [r \in Actors |-> {}]
  /\ report = [r \in Actors |-> "running"]
  /\ outdated = [r \in Actors |-> FALSE]

-----------------------------------------------------------------------------

IsLocal(meta) == meta # Nothing /\ meta.version = Local
IsPinned(meta) == meta # Nothing /\ meta.pinned
Installed(content) == {s \in Skills : content[s] # Nothing}

GoTo(r, label) == phase' = [phase EXCEPT ![r] = label] /\ UNCHANGED <<report, holder>>

\* the run reports success, and gives back the lock if it has it
Succeed(r) ==
  /\ phase' = [phase EXCEPT ![r] = "end"]
  /\ report' = [report EXCEPT ![r] = "done"]
  /\ holder' = IF holder = r THEN Nothing ELSE holder

\* the run is over, and so is its lock
ForgetRun(r) ==
  /\ phase' = [phase EXCEPT ![r] = "idle"]
  /\ report' = [report EXCEPT ![r] = "running"]
  /\ holder' = IF holder = r THEN Nothing ELSE holder
  /\ order' = [order EXCEPT ![r] = NoOrder]
  /\ seen' = [seen EXCEPT ![r] = NoSkills]
  /\ todo' = [todo EXCEPT ![r] = {}]
  /\ outdated' = [outdated EXCEPT ![r] = FALSE]
  /\ UNCHANGED <<newest, inst>>

(***************************************************************************)
(* Up to the lock                                                          *)
(***************************************************************************)

Begin(r, j) ==
  /\ phase[r] = "idle"
  /\ j.command # "update"
  /\ order' = [order EXCEPT ![r] = j]
  /\ GoTo(r, IF j.command = "install" /\ j.dry THEN "plan" ELSE "lock")
  /\ seen' = IF Dry(j) THEN [seen EXCEPT ![r] = inst] ELSE seen
  /\ UNCHANGED <<newest, inst, todo, outdated>>

\* what an update is about: without a name, what is neither local nor pinned
UpdateSlugs(j, content) ==
  IF j.all THEN {s \in Installed(content) : ~IsLocal(content[s])
                                            /\ (j.force \/ ~IsPinned(content[s]))}
  ELSE j.skills

\* a named skill that is not there, or that only --force updates
Refused(j, content) ==
  ~j.all /\ \E s \in j.skills :
    \/ content[s] = Nothing
    \/ ~j.force /\ (IsLocal(content[s]) \/ IsPinned(content[s]))

BeginUpdate(r, j) ==
  /\ phase[r] = "idle"
  /\ j.command = "update"
  /\ order' = [order EXCEPT ![r] = j]
  /\ seen' = [seen EXCEPT ![r] = inst]
  /\ \/ /\ ~Refused(j, inst) /\ UpdateSlugs(j, inst) # {}
        /\ GoTo(r, IF j.dry THEN "plan" ELSE "lock")
     \/ /\ Installed(inst) = {} \/ (~Refused(j, inst) /\ UpdateSlugs(j, inst) = {})
        /\ Succeed(r)
  /\ UNCHANGED <<newest, inst, todo, outdated>>

\* A lock that is somebody else's, or cannot be made, stops the run.  install and
\* remove look at what is installed now
Lock(r) ==
  /\ phase[r] = "lock"
  /\ holder = Nothing
  /\ holder' = r
  /\ phase' = [phase EXCEPT ![r] = IF order[r].command \in {"local", "remove"} THEN "execute"
                                   ELSE "plan"]
  /\ IF order[r].command = "update"
       THEN outdated' = [outdated EXCEPT ![r] = (seen[r] # inst)] /\ UNCHANGED seen
       ELSE seen' = [seen EXCEPT ![r] = inst] /\ UNCHANGED outdated
  /\ UNCHANGED <<newest, inst, order, todo, report>>

-----------------------------------------------------------------------------
(***************************************************************************)
(* The plan                                                                *)
(***************************************************************************)

Slugs(j, content) == IF j.command = "update" THEN UpdateSlugs(j, content) ELSE j.skills

Asked(j, content) == UNION {Needs[s] : s \in Slugs(j, content)}

\* only what is given or preferred
PreferredNames(j, content) == IF j.targets # NoTargets THEN j.targets ELSE Preferred

\* update without --target: the targets of the skills about to be updated
TargetNames(j, content) ==
  IF j.targets # NoTargets THEN j.targets
  ELSE IF j.command = "update" /\ \E s \in Slugs(j, content) : content[s] # Nothing
    THEN UNION {content[s].targets : s \in Slugs(j, content) \cap Installed(content)}
    ELSE Preferred

\* installed_request_payload: what is forced is left out, so that the server
\* plans to install it; install does not force a bundle
Payload(j, content) ==
  LET forced == IF j.force /\ (j.command = "update" \/ Cardinality(j.skills) = 1)
                  THEN Slugs(j, content) ELSE {}
  IN [s \in Skills |-> IF s \in forced THEN Nothing ELSE content[s]]

\* the operation of a plan for a skill
Planned(s, payload) ==
  IF IsLocal(payload[s]) THEN {}
  ELSE {[action |-> IF payload[s] = Nothing THEN "install"
                    ELSE IF payload[s].version = newest[s] THEN "noop" ELSE "update",
         skill |-> s, version |-> newest[s]]}

\* What nobody asked for may be in a plan too, whatever is there; to carry out an
\* `install' or an `update' of it is the same
Unasked(s) ==
  {[action |-> "update", skill |-> s, version |-> newest[s]],
   [action |-> "remove", skill |-> s]}

Plans(j, content) ==
  LET asked == Asked(j, content)
      planned == UNION {Planned(s, Payload(j, content)) : s \in asked}
      unasked == UNION {Unasked(s) : s \in Skills \ asked}
  IN {planned \cup others : others \in {{}} \cup {{op} : op \in unasked}}

\* install without --force does not ask about a local skill that it names
Protected(j, content) ==
  /\ j.command = "install" /\ ~j.force
  /\ \E s \in j.skills : j.skills # Skills /\ IsLocal(content[s])

\* the version asked for is not the one the plan would install
PinUnresolved(j, operations) ==
  /\ j.command = "install" /\ j.version # Nothing /\ j.skills # Skills
  /\ \E op \in operations : op.skill \in j.skills /\ op.version # j.version

Plan(r) ==
  /\ phase[r] = "plan"
  /\ ~Protected(order[r], seen[r])
  /\ \E operations \in Plans(order[r], seen[r]) :
       /\ ~PinUnresolved(order[r], operations)
       /\ IF order[r].dry THEN Succeed(r) /\ UNCHANGED todo
          ELSE GoTo(r, "execute") /\ todo' = [todo EXCEPT ![r] = operations]
  /\ UNCHANGED <<newest, inst, order, seen, outdated>>

\* the marketplace cannot be reached, its plan is not what was asked for or an
\* artifact not what the plan says, the user does not confirm; or the run is
\* killed (the lock it leaves is found stale in time)
Stop(r) == phase[r] \in {"lock", "plan", "execute"} /\ ForgetRun(r)

-----------------------------------------------------------------------------
(***************************************************************************)
(* Carrying it out                                                         *)
(***************************************************************************)

\* recorded as pinned: the skill of `install --version'
PinnedSlugs(j) ==
  IF j.command = "install" /\ j.version # Nothing /\ j.skills # Skills THEN j.skills ELSE {}

\* an operation that fails is left out
ExecuteOrSkip(r, op) ==
  /\ phase[r] = "execute"
  /\ op \in todo[r]
  /\ op.action \in {"install", "update"}
  /\ todo' = [todo EXCEPT ![r] = @ \ {op}]
  /\ \/ inst' = [inst EXCEPT ![op.skill] =
                   [version |-> op.version, pinned |-> op.skill \in PinnedSlugs(order[r]),
                    targets |-> TargetNames(order[r], seen[r])]]
     \/ UNCHANGED inst
  /\ UNCHANGED <<newest, phase, report, holder, order, seen, outdated>>

\* an operation that cannot be done stops the run before the ones after it
Execute(r, op) ==
  /\ phase[r] = "execute"
  /\ op \in todo[r]
  /\ op.action \in {"install", "update"}
  /\ inst' = [inst EXCEPT ![op.skill] =
                [version |-> op.version, pinned |-> op.skill \in PinnedSlugs(order[r]),
                 targets |-> TargetNames(order[r], seen[r])]]
  /\ todo' = [todo EXCEPT ![r] = @ \ {op}]
  /\ UNCHANGED <<newest, phase, report, holder, order, seen, outdated>>

\* removals are carried out
SkipRemoving(r, op) ==
  /\ phase[r] = "execute"
  /\ op \in todo[r]
  /\ op.action \in {"noop", "remove"}
  /\ todo' = [todo EXCEPT ![r] = @ \ {op}]
  /\ inst' = IF op.action = "remove" THEN [inst EXCEPT ![op.skill] = Nothing] ELSE inst
  /\ UNCHANGED <<newest, holder, phase, order, seen, report, outdated>>

\* what is up to date, and what this client does not do: allow_removals is false
Skip(r, op) ==
  /\ phase[r] = "execute"
  /\ op \in todo[r]
  /\ op.action \in {"noop", "remove"}
  /\ todo' = [todo EXCEPT ![r] = @ \ {op}]
  /\ UNCHANGED <<newest, inst, holder, phase, order, seen, report, outdated>>

Finish(r) ==
  /\ phase[r] = "execute"
  /\ order[r].command \in {"install", "update"}
  /\ todo[r] = {}
  /\ Succeed(r)
  /\ UNCHANGED <<newest, inst, order, seen, todo, outdated>>

\* install_local_path
InstallLocal(r) ==
  /\ phase[r] = "execute"
  /\ order[r].command = "local"
  /\ \E s \in order[r].skills :
       /\ IsLocal(inst[s]) => order[r].force
       /\ inst' = [inst EXCEPT ![s] = [version |-> Local, pinned |-> FALSE,
                                       targets |-> TargetNames(order[r], seen[r])]]
  /\ Succeed(r)
  /\ UNCHANGED <<newest, order, seen, todo, outdated>>

Remove(r) ==
  /\ phase[r] = "execute"
  /\ order[r].command = "remove"
  /\ \E s \in order[r].skills :
       /\ inst[s] # Nothing
       /\ inst' = [inst EXCEPT ![s] = Nothing]
  /\ Succeed(r)
  /\ UNCHANGED <<newest, order, seen, todo, outdated>>

ReturnRun(r) == phase[r] = "end" /\ ForgetRun(r)

-----------------------------------------------------------------------------

Publish(s) ==
  /\ newest[s] < MaxVersion
  /\ newest' = [newest EXCEPT ![s] = @ + 1]
  /\ UNCHANGED <<inst, holder, phase, order, seen, todo, report, outdated>>

\* While an update is about to take the lock, a command that is not of Actors has
\* it, and removes one skill, pins it or puts a local one in its place
Elsewhere(s) ==
  /\ holder = Nothing
  /\ \E r \in Actors : phase[r] = "lock" /\ order[r].command = "update" /\ seen[r] = inst
  /\ \E meta \in {Nothing} \cup {m \in Metadata : m.targets = Preferred
                                              /\ (IsLocal(m) \/ IsPinned(m))} :
       inst' = [inst EXCEPT ![s] = meta]
  /\ UNCHANGED <<newest, holder, phase, order, seen, todo, report, outdated>>

SkillsNext ==
  \/ \E r \in Actors :
       \/ \E j \in Orders : Begin(r, j) \/ BeginUpdate(r, j)
       \/ Lock(r)
       \/ Plan(r)
       \/ Stop(r)
       \/ \E op \in todo[r] : Execute(r, op) \/ Skip(r, op)
       \/ Finish(r)
       \/ InstallLocal(r)
       \/ Remove(r)
       \/ ReturnRun(r)
  \/ \E s \in Skills : Publish(s) \/ Elsewhere(s)

SkillsSpec == SkillsInit /\ [][SkillsNext]_skillsVars

-----------------------------------------------------------------------------
(***************************************************************************)
(* Properties.  An update whose reading is out of date when it gets the    *)
(* lock is excepted where it breaks what the property says.                *)
(***************************************************************************)

\* the skills a step of r, which has the lock, changes
ChangedBy(r) == {s \in Skills : holder = r /\ inst'[s] # inst[s]}

\* Whatever the marketplace plans, an install or update removes no skill.  A local
\* skill that it asks for, or that one of those needs, gives way only if that is
\* forced, and so does a pinned one that an update is about.  (What is local or
\* pinned and in the plan without having been asked for is replaced.)
KeptUnlessForced ==
  [][\A r \in Actors, s \in Skills :
       s \in ChangedBy(r) /\ order[r].command \in {"install", "update"} =>
         /\ inst'[s] # Nothing
         /\ \/ IsLocal(inst[s]) /\ s \in Asked(order[r], seen[r])
            \/ /\ IsPinned(inst[s]) /\ order[r].command = "update"
               /\ s \in Slugs(order[r], seen[r])
            => order[r].force \/ outdated[r]]_skillsVars

\* An install or update that reports success has every skill it is about, and
\* everything they need, installed.  (An update that finds nothing installed
\* reports success, also for a skill it names.)
DoneIsInstalled ==
  [][\A r \in Actors :
       /\ report[r] = "running" /\ report'[r] = "done"
       /\ order'[r].command \in {"install", "update"} /\ ~Dry(order'[r]) /\ ~outdated[r]
       /\ order'[r].command = "update" => Installed(seen'[r]) # {}
       => Asked(order'[r], seen'[r]) \subseteq Installed(inst')]_skillsVars

\* An update takes no skill that it is about out of a target, unless other targets
\* are asked for.  That does not go for the rest of its plan, such as a skill that
\* one of those needs: its metadata gets the targets of those the update is about,
\* in place of its own.
PlacementsPreserved ==
  [][\A r \in Actors :
       order[r].command = "update" /\ order[r].targets = NoTargets /\ ~outdated[r] =>
         \A s \in ChangedBy(r) \cap Slugs(order[r], seen[r]) :
           inst[s].targets \subseteq inst'[s].targets]_skillsVars

\* install --version: "recorded as pinned".
PinIsRecorded ==
  \A r \in Actors :
    phase[r] = "end" /\ report[r] = "done" /\ order[r].command = "install" /\ ~order[r].dry =>
      \A s \in PinnedSlugs(order[r]) : IsPinned(inst[s]) /\ inst[s].version = order[r].version
=============================================================================
