---------------------------- MODULE Marketplace ----------------------------
(***************************************************************************)
(* One command in conversation with the marketplace (MarketplaceClient,    *)
(* skills_api.rs; agents.rs): listing a catalog page by page, and finding  *)
(* out what to install of an agent with one request for its detail, one    *)
(* for a plan, one for the version and one for the artifact.  Others       *)
(* publish, and withdraw, in between.                                      *)
(*                                                                         *)
(* The marketplace is not part of the repository.  Of it the model has     *)
(* what the client counts on: a cursor stands for the place the page ended *)
(* at, and a published version never changes.  Its plans may be of any     *)
(* kind, and a download may not be what was asked for.  How the files are  *)
(* replaced is in AgentInstall.                                            *)
(***************************************************************************)
EXTENDS Integers, Sequences

CONSTANTS
  Items,        \* keys of the catalog's items, 1, 2, ...
  PageLimit,    \* LIST_PAGE_LIMIT
  MaxVersion    \* bound on the versions of the agent

Sizes ==
  /\ Items \subseteq Nat \ {0}
  /\ PageLimit \in Nat \ {0}
  /\ MaxVersion \in Nat

VARIABLES
  catalog,   \* the items there are
  throughout,\* history: those that have been there since the listing began
  latest,    \* the agent's latest version; 0: none yet
  step,      \* what the command does next
  command,   \* what it is to do
  cursor,    \* where the next page begins; 0: at the beginning
  listed,    \* what the pages have given so far
  local,     \* the agent's file and record here
  detail,    \* the latest version, as the detail has it
  plan,      \* the operation of the plan
  status     \* what it reports

marketVars == <<catalog, throughout, latest, step, command, cursor, listed, local, detail,
                plan, status>>

Versions == 1..MaxVersion

\* A pin of 0 is none
Commands == {[name |-> "list"], [name |-> "show"]}
              \cup [name : {"install", "update"}, pin : 0..MaxVersion]

\* The record names a version, its hash and its source; the document is that of a
\* version as well.  `missing' has a record alone; `conflict' is anything else
Absent == [kind |-> "absent"]
Conflict == [kind |-> "conflict"]
Locals == [kind : {"exact", "missing"}, version : Versions, hash : Versions, source : Versions,
           document : Versions] \cup {Absent, Conflict}

Managed(v) == [kind |-> "exact", version |-> v, hash |-> v, source |-> v, document |-> v]

Plans == [action : {"install", "update", "noop"}, version : Versions, artifact : BOOLEAN]
NoPlan == [action |-> "none"]

\* how many bytes arrive and of which version; what the headers say of them; what
\* is in the archive
Downloads == [bytes : {"right", "wrong"}, headers : {"none", "right", "wrong"},
              mediaType : {"zip", "other"}, entries : {"safe", "unsafe"},
              documents : {"one", "none", "two", "invalid"}]

Statuses == {"running", "listed", "shown", "installed", "updated", "up_to_date", "conflict",
             "not_installed", "cli_error", "auth_required", "forbidden", "plan_blocked",
             "network", "verification"}

MarketTypeOK ==
  /\ throughout \subseteq catalog /\ catalog \subseteq Items
  /\ latest \in 0..MaxVersion /\ detail \in 0..MaxVersion
  /\ step \in {"begin", "page", "show", "plan", "version", "download", "end"}
  /\ command \in Commands
  /\ cursor \in Items \cup {0}
  /\ listed \in Seq(Items)
  /\ local \in Locals
  /\ plan \in Plans \cup {NoPlan}
  /\ status \in Statuses

MarketInit ==
  /\ catalog \in SUBSET Items
  /\ throughout = catalog
  /\ latest \in 0..MaxVersion
  /\ step = "begin"
  /\ command \in Commands
  /\ cursor = 0
  /\ listed = <<>>
  /\ local \in {Absent, Conflict} \cup {Managed(v) : v \in 1..latest}
                 \cup {[Managed(v) EXCEPT !.kind = "missing"] : v \in 1..latest}
  /\ detail = 0
  /\ plan = NoPlan
  /\ status = "running"

Report(value) == step' = "end" /\ status' = value
Proceed(label) == step' = label /\ UNCHANGED status

-----------------------------------------------------------------------------
(***************************************************************************)
(* Requests                                                                *)
(***************************************************************************)

\* ensure_success: what an error status, or no answer at all (0), ends the command
\* with
ExitCode(http) ==
  CASE http = 401 -> "auth_required"
    [] http = 403 -> "forbidden"
    [] http = 422 -> "plan_blocked"
    [] http = 0 \/ http >= 500 -> "network"
    [] OTHER -> "cli_error"

\* a request that fails; an answer that does not parse ends the command as well
RequestFails == \E http \in {0, 400, 401, 403, 404, 422, 500} : Report(ExitCode(http))

Begin ==
  /\ step = "begin"
  /\ \/ command.name = "list" /\ Proceed("page")
     \/ command.name = "show" /\ Proceed("show")
     \/ /\ command.name \in {"install", "update"}
        /\ CASE command.name = "update" /\ local = Absent -> Report("not_installed")
             [] local = Conflict -> Report("conflict")
             [] OTHER -> Proceed("show")
  /\ UNCHANGED <<catalog, throughout, latest, command, cursor, listed, local, detail, plan>>

\* The marketplace's page: of what follows the cursor the first items in order,
\* at most PageLimit, and a cursor if that is not the rest
Following(c) == {i \in catalog : i > c}
Rest(items, c) == Following(c) \ {items[n] : n \in DOMAIN items}
PageItems(c) ==
  {items \in UNION {[1..n -> Following(c)] : n \in 0..PageLimit} :
     /\ \A m, n \in DOMAIN items : m < n => items[m] < items[n]
     /\ \A n \in DOMAIN items, i \in Rest(items, c) : items[n] < i
     /\ Rest(items, c) # {} => Len(items) = PageLimit}
NextCursor(items, c) == IF Rest(items, c) = {} THEN 0 ELSE items[Len(items)]

\* One turn of list_skills_all, list_bundles_all and the agents' list_all
Page ==
  /\ step = "page"
  /\ \/ \E items \in PageItems(cursor) :
          /\ listed' = listed \o items
          /\ cursor' = NextCursor(items, cursor)
          /\ IF cursor' = 0 THEN Report("listed") ELSE Proceed("page")
     \/ RequestFails /\ UNCHANGED <<cursor, listed>>
  /\ UNCHANGED <<catalog, throughout, latest, command, local, detail, plan>>

-----------------------------------------------------------------------------
(***************************************************************************)
(* Installing an agent                                                     *)
(***************************************************************************)

\* `show' ends here; an installation wants to know that the agent exists
Show ==
  /\ step = "show"
  /\ \/ /\ latest > 0
        /\ detail' = latest
        /\ IF command.name = "show" THEN Report("shown") ELSE Proceed("plan")
     \/ RequestFails /\ UNCHANGED detail
  /\ UNCHANGED <<catalog, throughout, latest, command, cursor, listed, local, plan>>

\* --version is checked against the plan
Pinned(v) == command.pin \in {0, v}

\* The plan is the marketplace's: it is told what is installed here, if the file
\* and the record are whole.  A plan without an operation for this agent, or with
\* one of another kind, is refused.  That a noop is for the version installed here
\* is not looked at
PlanInstall ==
  /\ step = "plan"
  /\ \/ \E p \in Plans :
          /\ p.version <= latest
          /\ plan' = p
          /\ IF Pinned(p.version) THEN Proceed("version") ELSE Report("plan_blocked")
     \/ Report("verification") /\ UNCHANGED plan
     \/ RequestFails /\ UNCHANGED plan
  /\ UNCHANGED <<catalog, throughout, latest, command, cursor, listed, local, detail>>

\* download_if_required
NeedsDownload == plan.action # "noop" \/ local.kind # "exact"

\* The version's own record, for its source
GetVersion ==
  /\ step = "version"
  /\ \/ IF NeedsDownload THEN Proceed("download") ELSE Report("up_to_date")
     \/ RequestFails
  /\ UNCHANGED <<catalog, throughout, latest, command, cursor, listed, local, detail, plan>>

\* verify_agent_artifact: size and checksum of what came, and the headers, if any
Authentic(d) == d.mediaType = "zip" /\ d.bytes = "right" /\ d.headers # "wrong"

\* validate_entry_path: no entry is a link or leads out of the directory
Unpacks(d) == d.entries = "safe"

\* one Agent Markdown document, complete
OneDocument(d) == d.documents = "one"

\* The record with the source of the latest version
RecordOfDetail(v) == [Managed(v) EXCEPT !.source = detail]

\* metadata_for: version and hash of the plan, source of that version
Record(v) == Managed(v)

Download ==
  /\ step = "download"
  /\ \/ \E d \in Downloads :
          /\ plan.artifact /\ Authentic(d)
          /\ IF Unpacks(d) /\ OneDocument(d)
               THEN /\ \E v \in Versions :
                         /\ IF d.bytes = "right" THEN v = plan.version ELSE TRUE
                         /\ local' = [Record(plan.version) EXCEPT !.document = v]
                    /\ Report(IF local.kind \in {"absent", "missing"} THEN "installed"
                                                                       ELSE "updated")
               ELSE Report("cli_error") /\ UNCHANGED local
     \/ plan.artifact /\ Report("verification") /\ UNCHANGED local
     \/ (RequestFails \/ Report("cli_error")) /\ UNCHANGED local
  /\ UNCHANGED <<catalog, throughout, latest, command, cursor, listed, detail, plan>>

-----------------------------------------------------------------------------
(***************************************************************************)
(* Others                                                                  *)
(***************************************************************************)

Publish ==
  /\ step # "end"
  /\ \/ \E i \in Items \ catalog : catalog' = catalog \cup {i} /\ UNCHANGED latest
     \/ latest < MaxVersion /\ latest' = latest + 1 /\ UNCHANGED catalog
  /\ UNCHANGED <<throughout, step, command, cursor, listed, local, detail, plan, status>>

Withdraw ==
  /\ step # "end"
  /\ \E i \in catalog : catalog' = catalog \ {i} /\ throughout' = throughout \ {i}
  /\ UNCHANGED <<latest, step, command, cursor, listed, local, detail, plan, status>>

CommandStep == Begin \/ Page \/ Show \/ PlanInstall \/ GetVersion \/ Download

MarketNext ==
  \/ Begin
  \/ Page
  \/ Show
  \/ PlanInstall
  \/ GetVersion
  \/ Download
  \/ Publish
  \/ Withdraw

\* the command runs, and its requests are answered or fail
MarketSpec == MarketInit /\ [][MarketNext]_marketVars /\ WF_marketVars(CommandStep)

-----------------------------------------------------------------------------
(***************************************************************************)
(* Properties                                                              *)
(***************************************************************************)

\* A listing shows every item that was there all the time, and none twice,
\* whatever is published or withdrawn between two pages.
ListingIsComplete ==
  status = "listed" =>
    /\ \A i \in throughout : \E n \in DOMAIN listed : listed[n] = i
    /\ \A m, n \in DOMAIN listed : listed[m] = listed[n] => m = n

\* The record and the document are of one version, and what is installed is the
\* version planned, the pinned one if there is a pin, also when a newer one is
\* published while the command asks.  What is already there is left alone only if
\* the plan is a noop, for the pinned version if there is a pin; whether that is
\* the version which is there the client leaves to the marketplace, so that an
\* agent reported up to date may be of another one.
OneVersion ==
  /\ local.kind = "exact" => local = Managed(local.version)
  /\ status \in {"installed", "updated"} => local = Managed(plan.version)
  /\ status = "up_to_date" => local.kind = "exact" /\ plan.action = "noop"
  /\ status \in {"installed", "updated", "up_to_date"} => Pinned(plan.version)

\* What a command takes for one answer is consistent, though it was put together
\* from several, given at different times.
OnePicture == ListingIsComplete /\ OneVersion

\* A command ends, however often others publish and withdraw: every page moves
\* the cursor on.
CommandEnds == <>(step = "end")
=============================================================================
