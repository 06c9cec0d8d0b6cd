--------------------------- MODULE SkillLifecycle ---------------------------
(***************************************************************************)
(* What install, update and remove promise about one skill: its package    *)
(* and what is at its place in each target.                                *)
(*                                                                         *)
(* An install changes all of it at once, when it is over, if no file       *)
(* operation fails.  If one fails, everything stays as it was, but for a   *)
(* package that may be new where there was none, or all is done and only   *)
(* the cleaning up is not.  An install that is killed, or sees a second    *)
(* failure while it undoes its work, leaves at each place of its own what  *)
(* was there, nothing, or what was to come there, if only in part.  A     *)
(* removal empties the targets one by one and takes the package, or its    *)
(* name for the targets, in the end.                                       *)
(***************************************************************************)
EXTENDS Naturals

CONSTANTS Targets, Versions, Absent, UserDir, UserLink, Link, Partial

VARIABLES
  package,   \* what is in the package directory
  places,    \* what is in each target
  phase,     \* the command at work, if any, or that it is over
  failures   \* how many of its file operations have failed

skillVars == <<package, places, phase, failures>>

Packages == [version : Versions, targets : SUBSET Targets]

Init ==
  /\ package \in {UserDir, Absent}
  /\ places \in [Targets -> {UserDir, UserLink, Absent}]
  /\ phase = "idle"
  /\ failures = 0

Start ==
  /\ phase = "idle" /\ phase' \in {"install", "remove"}
  /\ UNCHANGED <<package, places, failures>>

\* a file operation fails, and the command goes on or undoes what it has done
Fail ==
  /\ phase \in {"install", "remove"} /\ failures' > failures
  /\ UNCHANGED <<package, places, phase>>

\* the command is over, or killed
Ends(command) ==
  /\ phase = command
  /\ \/ phase' = "over" /\ failures' >= failures
     \/ phase' = "idle" /\ failures' = 0

Killed == phase' = "idle"

\* a target that is asked for has one of these, the others have what they had
Filled(targets, Contents(_)) ==
  \A t \in Targets :
    IF t \in targets THEN places'[t] \in Contents(t) ELSE places'[t] = places[t]

Install(new) ==
  /\ ~Killed /\ failures' <= 1
  /\ package' = new
  /\ Filled(new.targets, LAMBDA t : {Link, new.version})

\* to undo a first installation means to take back the links
Undo(new) ==
  /\ ~Killed /\ failures' > 0
  /\ package' = package \/ (package = Absent /\ package' = new)
  /\ UNCHANGED places

Spoil(new) ==
  /\ Killed \/ failures' > 1
  /\ package' \in {package, Absent, new}
  /\ Filled(new.targets, LAMBDA t : {places[t], Absent, Partial, Link, new.version})

Empty(t) ==
  /\ phase = "remove"
  /\ places' = [places EXCEPT ![t] = Absent]
  /\ UNCHANGED <<package, phase, failures>>

Remove == ~Killed /\ package' = Absent

Narrow(targets) ==
  /\ ~Killed
  /\ package' = IF package \in Packages THEN [package EXCEPT !.targets = @ \ targets]
                ELSE package

\* a removal that fails, or is killed, has emptied some targets
Stop == (Killed \/ failures' > 0) /\ package' = package

Return ==
  /\ phase = "over" /\ phase' = "idle" /\ failures' = 0
  /\ UNCHANGED <<package, places>>

\* an agent tool puts a copy of the package in place of the link to it
Copy(t) ==
  /\ phase = "idle"
  /\ places[t] = Link /\ package \in Packages
  /\ places' = [places EXCEPT ![t] = package.version]
  /\ UNCHANGED <<package, phase, failures>>

Next ==
  \/ Start
  \/ Fail
  \/ Ends("install") /\ \E new \in Packages : Install(new) \/ Undo(new) \/ Spoil(new)
  \/ \E t \in Targets : Empty(t)
  \/ /\ Ends("remove") /\ UNCHANGED places
     /\ Remove \/ (\E targets \in SUBSET Targets : Narrow(targets)) \/ Stop
  \/ Return
  \/ \E t \in Targets : Copy(t)

Spec == Init /\ [][Next]_skillVars
=============================================================================
