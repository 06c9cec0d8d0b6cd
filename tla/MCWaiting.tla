------------------------------ MODULE MCWaiting ------------------------------
(***************************************************************************)
(* What waits for something, on small instances: for the install lock      *)
(* (InstallLock), for a browser (BrowserLogin), for the marketplace's      *)
(* pages (Marketplace), or for a backend's tools (ToolCommand).  One       *)
(* scenario of a run is one of the modules, and the others do not move;    *)
(* the first three have the fairness their modules need.                   *)
(***************************************************************************)
EXTENDS InstallLock

CONSTANT User   \* the one who keeps running the command

VARIABLES
  scenario,
  main, login, listener, request, channel, code, session, keys, page, broken, outcome,
  catalog, throughout, latest, step, command, cursor, listed, local, detail, plan, status,
  toolStep, line, env, stored, target, extension, schema, texts, sent, ran, toolOutcome

loginVars == <<main, login, listener, request, channel, code, session, keys, page, broken,
               outcome>>
marketVars == <<catalog, throughout, latest, step, command, cursor, listed, local, detail,
                plan, status>>
toolVars == <<toolStep, line, env, stored, target, extension, schema, texts, sent, ran,
              toolOutcome>>
waitingVars == <<scenario, lockVars, loginVars, marketVars, toolVars>>

Browser == INSTANCE BrowserLogin

Market == INSTANCE Marketplace WITH Items <- {1, 2, 3}, PageLimit <- 1, MaxVersion <- 2

Tools == INSTANCE ToolCommand WITH step <- toolStep, outcome <- toolOutcome

NoEnvironment == [bl |-> FALSE, base |-> Tools!Unset, flag |-> Tools!Unset, proxy |-> FALSE,
                  path |-> Tools!Unset, org |-> FALSE]

ASSUME SizesAssumption == Market!Sizes

\* what does not move begins in one state
WaitingInit ==
  /\ scenario \in {"lock", "login", "market", "tools"}
  /\ Init
  /\ Browser!LoginInit
  /\ scenario # "login" =>
       login = [type |-> "cli", json |-> FALSE] /\ keys = "none"
  /\ Market!MarketInit
  /\ scenario # "market" => latest = 0 /\ command = [name |-> "show"] /\ local = Market!Absent
  /\ command.name # "list" => catalog = {}
  /\ command.name = "list" => latest = 0
  /\ Tools!ToolInit
  /\ scenario # "tools" =>
       line = "version" /\ env = NoEnvironment /\ stored = Tools!NoKey

WaitingNext ==
  \/ /\ scenario = "lock" /\ Next
     /\ UNCHANGED <<scenario, loginVars, marketVars, toolVars>>
  \/ /\ scenario = "login" /\ Browser!LoginNext
     /\ UNCHANGED <<scenario, lockVars, marketVars, toolVars>>
  \* a listing is not about the agent, an installation not about the listings
  \/ /\ scenario = "market" /\ Market!MarketNext
     /\ IF command.name = "list" THEN UNCHANGED latest ELSE UNCHANGED catalog
     /\ UNCHANGED <<scenario, lockVars, loginVars, toolVars>>
  \/ /\ scenario = "tools" /\ Tools!ToolNext
     /\ UNCHANGED <<scenario, lockVars, loginVars, marketVars>>

InLock(action) ==
  scenario = "lock" /\ action /\ UNCHANGED <<scenario, loginVars, marketVars, toolVars>>
InLogin(action) ==
  scenario = "login" /\ action /\ UNCHANGED <<scenario, lockVars, marketVars, toolVars>>
InMarket(action) ==
  scenario = "market" /\ action /\ UNCHANGED <<scenario, lockVars, loginVars, toolVars>>

\* The lock: time passes, one user keeps running the command, and neither a crash
\* nor a refused removal meets it for ever; nothing is assumed of the others.  The
\* login and the conversation: what LoginSpec and MarketSpec assume.
WaitingSpec ==
  /\ WaitingInit /\ [][WaitingNext]_waitingVars
  /\ WF_waitingVars(InLock(Tick))
  /\ WF_waitingVars(InLock(Begin(User) \/ CreateNew(User) \/ FindTaken(User)
                             \/ WritePid(User) \/ JudgeStale(User) \/ Refuse(User)
                             \/ Release(User)))
  /\ SF_waitingVars(InLock(FindTaken(User)))
  /\ SF_waitingVars(InLock(JudgeStale(User)))
  /\ SF_waitingVars(InLock(Unlink(User)))
  /\ WF_waitingVars(InLogin(Browser!MainStep))
  /\ WF_waitingVars(InLogin(Browser!TimeOut))
  /\ WF_waitingVars(InMarket(Market!CommandStep))

-----------------------------------------------------------------------------

\* A browser login and a conversation with the marketplace end: the login by its
\* time-out at the latest, whatever the browser does; the conversation because
\* every page moves the cursor on, whatever others publish.
WaitsEnd ==
  /\ scenario = "login" => Browser!LoginEnds
  /\ scenario = "market" => Market!CommandEnds

\* ToolCommand: one request with the session of its backend, and the arguments the
\* schema allows.
OneFaithfulCall == Tools!ToolTypeOK /\ Tools!OneFaithfulCall
=============================================================================
