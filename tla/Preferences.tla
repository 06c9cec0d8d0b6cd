---------------------------- MODULE Preferences ----------------------------
(***************************************************************************)
(* The preferences file ~/.bl/config.yaml: `bl config set' and `get'       *)
(* (skills.rs) and the question for the organisation that `bl auth login'  *)
(* asks (config_with_login_org).  A command reads the whole file, changes  *)
(* one key, and writes the whole file in place; there is no lock.          *)
(***************************************************************************)
EXTENDS FiniteSets

CONSTANTS
  Writers,   \* commands that may be running at once
  Unset      \* a key that is not in the file

VARIABLES
  prefs,      \* the file; cut off, it is empty, which reads as nothing set
  wat,        \* what each command does next
  wjob,       \* its command
  draft,      \* the preferences it is going to write
  wresult,    \* what it reports
  asserted,   \* history: what was last reported of each key
  meddled     \* history: a write fell into another's reading and writing, or was
              \* cut off

prefsVars == <<prefs, wat, wjob, draft, wresult, asserted, meddled>>

KeyNames == {"org", "targets"}
Choices == {"x", "y"}

\* `login' asks for the organisation if there is none; `targets' takes no name
\* that is not known
Wjobs == [command : {"set"}, key : {"org"}, value : Choices]
           \cup [command : {"set"}, key : {"targets"}, value : {"x"}]
           \cup [command : {"login"}, key : {"org"}, value : Choices]
           \cup {[command |-> "get", key |-> "org"]}
NoWjob == [command |-> "none"]

Contents == [KeyNames -> Choices \cup {Unset}]
Empty == [k \in KeyNames |-> Unset]
Unparsable == [k \in {} |-> Unset]

PrefsTypeOK ==
  /\ prefs \in Contents \cup {Unparsable}
  /\ wat \in [Writers -> {"idle", "look", "prompt", "read", "open", "fill", "end"}]
  /\ wjob \in [Writers -> Wjobs \cup {NoWjob}]
  /\ draft \in [Writers -> Contents]
  /\ wresult \in [Writers -> {"running", "done", "failed"}]
  /\ asserted \in Contents
  /\ meddled \in BOOLEAN

PrefsInit ==
  /\ prefs = Empty
  /\ wat = [w \in Writers |-> "idle"]
  /\ wjob = [w \in Writers |-> NoWjob]
  /\ draft = [w \in Writers |-> Empty]
  /\ wresult = [w \in Writers |-> "running"]
  /\ asserted = Empty
  /\ meddled = FALSE

To(w, label) == wat' = [wat EXCEPT ![w] = label] /\ UNCHANGED wresult
Report(w, value) ==
  wat' = [wat EXCEPT ![w] = "end"] /\ wresult' = [wresult EXCEPT ![w] = value]

\* another command has read the file and not written it yet, or the other way
\* round
Between(w) == \E v \in Writers \ {w} : wat[v] \in {"open", "fill"}

\* SkillsConfig::resolve looks at the file before anything else
StartCommand(w, j) ==
  /\ wat[w] = "idle"
  /\ wjob' = [wjob EXCEPT ![w] = j]
  /\ To(w, "look")
  /\ UNCHANGED <<prefs, draft, asserted, meddled>>

Look(w) ==
  /\ wat[w] = "look"
  /\ CASE prefs = Unparsable -> Report(w, "failed")
       [] prefs # Unparsable /\ wjob[w].command = "set" -> To(w, "read")
       [] prefs # Unparsable /\ wjob[w].command = "get" -> Report(w, "done")
       [] prefs # Unparsable /\ wjob[w].command = "login" ->
            IF prefs["org"] = Unset THEN To(w, "prompt") ELSE Report(w, "done")
  /\ draft' = IF prefs = Unparsable THEN draft ELSE [draft EXCEPT ![w] = prefs]
  /\ UNCHANGED <<prefs, wjob, asserted, meddled>>

\* the user takes her time to answer
AnswerPrompt(w) ==
  /\ wat[w] = "prompt"
  /\ To(w, "read") \/ Report(w, "failed")
  /\ UNCHANGED <<prefs, wjob, draft, asserted, meddled>>

\* the file as it was when the command began
ReadOnce(w) ==
  /\ wat[w] = "read"
  /\ draft' = [draft EXCEPT ![w][wjob[w].key] = wjob[w].value]
  /\ To(w, "open")
  /\ UNCHANGED <<prefs, wjob, asserted, meddled>>

\* the file is read again just before it is written; a value that is not known
\* ends the command
ReadAgain(w) ==
  /\ wat[w] = "read"
  /\ \/ /\ prefs # Unparsable
        /\ draft' = [draft EXCEPT ![w] = [prefs EXCEPT ![wjob[w].key] = wjob[w].value]]
        /\ To(w, "open")
     \/ Report(w, "failed") /\ UNCHANGED draft
  /\ meddled' = (meddled \/ Between(w))
  /\ UNCHANGED <<prefs, wjob, asserted>>

\* fs::write cuts the file off,
Open(w) ==
  /\ wat[w] = "open"
  /\ \/ prefs' = Empty /\ To(w, "fill") /\ meddled' = (meddled \/ Between(w))
     \/ Report(w, "failed") /\ UNCHANGED <<prefs, meddled>>
  /\ UNCHANGED <<wjob, draft, asserted>>

\* and fills it; an error may leave part of it
Fill(w) ==
  /\ wat[w] = "fill"
  /\ \/ /\ prefs' = draft[w]
        /\ Report(w, "done")
        /\ asserted' = [asserted EXCEPT ![wjob[w].key] = wjob[w].value]
        /\ meddled' = (meddled \/ Between(w))
     \/ /\ prefs' \in {Empty, Unparsable}
        /\ Report(w, "failed")
        /\ meddled' = TRUE
        /\ UNCHANGED asserted
  /\ UNCHANGED <<wjob, draft>>

Leave(w) ==
  /\ wat[w] # "idle"
  /\ wat' = [wat EXCEPT ![w] = "idle"]
  /\ wresult' = [wresult EXCEPT ![w] = "running"]
  /\ wjob' = [wjob EXCEPT ![w] = NoWjob]
  /\ draft' = [draft EXCEPT ![w] = Empty]
  /\ meddled' = (meddled \/ wat[w] = "fill")
  /\ UNCHANGED <<prefs, asserted>>

PrefsNext ==
  \E w \in Writers :
    \/ \E j \in Wjobs : StartCommand(w, j)
    \/ Look(w)
    \/ AnswerPrompt(w)
    \/ ReadAgain(w)
    \/ Open(w)
    \/ Fill(w)
    \/ Leave(w)

PrefsSpec == PrefsInit /\ [][PrefsNext]_prefsVars

\* What a command has reported set stays set, until it is set to another value:
\* whatever else runs, and however long the login's question is open, as long
\* as no two commands read and write at the same instant and no write is cut off.
SettingsKept == ~meddled /\ prefs # Unparsable => \/ prefs = asserted
                                                  \/ \E w \in Writers : wat[w] = "fill"
=============================================================================
