------------------------------ MODULE MCClient ------------------------------
(***************************************************************************)
(* What the client makes of a service, a marketplace, a browser, a         *)
(* settings file or curl, on small instances: one scenario of a run is one *)
(* of the modules AppSharing, CurlRequest, SkillsCommands, AppsRequest,    *)
(* Preferences, BrowserLogin and Marketplace, and the others do not move.  *)
(* They share no state in the program either.  AppSharing has two          *)
(* scenarios: one without renewals, one without the changes that           *)
(* overwrite.                                                              *)
(***************************************************************************)
EXTENDS AppSharing, CurlRequest, SkillsCommands

CONSTANTS
  Basic,  \* the skill that all need
  Writers, Items, PageLimit

MCNeeds == [s \in Skills |-> {s, Basic}]

VARIABLES
  scenario,
  askAt, command, address, holds, recovery, told, printed, askResult,
  prefs, wat, wjob, draft, wresult, asserted, meddled,
  main, login, listener, request, channel, code, session, keys, page, broken, outcome,
  catalog, throughout, latest, step, task, cursor, listed, local, detail, plan, status

askVars == <<askAt, command, address, holds, recovery, told, printed, askResult>>
prefsVars == <<prefs, wat, wjob, draft, wresult, asserted, meddled>>
loginVars == <<main, login, listener, request, channel, code, session, keys, page, broken,
               outcome>>
marketVars == <<catalog, throughout, latest, step, task, cursor, listed, local, detail, plan,
                status>>

Ask == INSTANCE AppsRequest
  WITH at <- askAt, target <- address, sent <- told, shown <- printed, result <- askResult

Prefs == INSTANCE Preferences WITH Unset <- Missing

Browser == INSTANCE BrowserLogin

Market == INSTANCE Marketplace WITH command <- task

ASSUME SizesAssumption == Market!Sizes

Scenarios ==
  {"sharing", "renewing", "curl", "skills", "requests", "preferences", "login", "market"}

\* What does not move begins in one state.  To curl a session without an end is
\* like one that ends later.
ClientInit ==
  /\ scenario \in Scenarios
  /\ Init
  /\ CurlInit
  /\ IF scenario = "curl" THEN stored.expires # "never" ELSE stored = NoSession
  /\ SkillsInit
  /\ Ask!RequestInit
  /\ scenario # "requests" => command = "other"
  /\ Prefs!PrefsInit
  /\ Browser!LoginInit
  /\ scenario # "login" => login = [type |-> "cli", json |-> FALSE] /\ keys = "none"
  /\ Market!MarketInit
  /\ scenario # "market" => latest = 0 /\ task = [name |-> "show"] /\ local = Market!Absent
  /\ task.name # "list" => catalog = {}
  /\ task.name = "list" => latest = 0

ClientNext ==
  \/ /\ scenario = "sharing" /\ Next
     /\ chosen' = chosen
     /\ UNCHANGED <<scenario, curlVars, skillsVars, askVars, prefsVars, loginVars, marketVars>>
  \/ /\ scenario = "renewing" /\ Next
     /\ \A r \in Runs : job'[r] \notin Overwrites
     /\ UNCHANGED <<scenario, curlVars, skillsVars, askVars, prefsVars, loginVars, marketVars>>
  \* no more than two of the options that decide what is put out where
  \/ /\ scenario = "curl" /\ CurlNext
     /\ Cardinality(call'.output) <= 2
     /\ UNCHANGED <<scenario, vars, skillsVars, askVars, prefsVars, loginVars, marketVars>>
  \/ /\ scenario = "skills" /\ SkillsNext
     /\ UNCHANGED <<scenario, vars, curlVars, askVars, prefsVars, loginVars, marketVars>>
  \/ /\ scenario = "requests" /\ Ask!RequestNext
     /\ UNCHANGED <<scenario, vars, curlVars, skillsVars, prefsVars, loginVars, marketVars>>
  \/ /\ scenario = "preferences" /\ Prefs!PrefsNext
     /\ UNCHANGED <<scenario, vars, curlVars, skillsVars, askVars, loginVars, marketVars>>
  \/ /\ scenario = "login" /\ Browser!LoginNext
     /\ UNCHANGED <<scenario, vars, curlVars, skillsVars, askVars, prefsVars, marketVars>>
  \* a listing is not about the agent, an installation not about the listings
  \/ /\ scenario = "market" /\ Market!MarketNext
     /\ IF task.name = "list" THEN UNCHANGED latest ELSE UNCHANGED catalog
     /\ UNCHANGED <<scenario, vars, curlVars, skillsVars, askVars, prefsVars, loginVars>>

clientVars ==
  <<scenario, vars, curlVars, skillsVars, askVars, prefsVars, loginVars, marketVars>>

ClientSpec == ClientInit /\ [][ClientNext]_clientVars

-----------------------------------------------------------------------------

\* The type invariants of the modules.
ClientTypeOK ==
  /\ TypeOK /\ CurlTypeOK /\ SkillsTypeOK
  /\ Ask!RequestTypeOK /\ Prefs!PrefsTypeOK /\ Browser!LoginTypeOK /\ Market!MarketTypeOK

\* AppsRequest: the session is shown to nobody it is not meant for.
SecretKept == Ask!SecretKept

\* Preferences: what was reported set stays set.
SettingsKept == Prefs!SettingsKept

\* BrowserLogin: what is stored was issued for this login, which nobody else ends.
OwnLoginOnly == Browser!OwnLoginOnly

\* Marketplace: a listing and an installed agent are of a piece.
OnePicture == Market!OnePicture
=============================================================================
