----------------------------- MODULE AppSharing -----------------------------
(***************************************************************************)
(* Who can open an app, and for how long: `bl apps get' (handoff),         *)
(* `visibility', `access set', `publishers', `community grant|revoke' and  *)
(* `renew' (apps.rs) on one app, beside the owner's Share & manage dialog  *)
(* in the browser.                                                         *)
(*                                                                         *)
(* Community grants and renewals are compare-and-set: the client sends the *)
(* revision it, or the user, has read.  The other changes overwrite.       *)
(*                                                                         *)
(* The Apps Platform is not part of the repository.  Of it the model has   *)
(* what the client counts on: the owner alone changes who can open the     *)
(* app; a compare-and-set is applied if its revision and incarnation are   *)
(* the current ones and moves the revision on; a renewal ID extends once;  *)
(* an error with a code says that nothing was done.  Its answers may lack  *)
(* fields, but it leaves out a community list only when that is empty.     *)
(***************************************************************************)
EXTENDS Integers, FiniteSets

CONSTANTS
  Runs,         \* commands that may be running at once
  Owner,        \* of the app
  Others,       \* other people
  Communities,  \* Buzz communities
  Renewals,     \* request IDs of renewals
  MaxRev,       \* bound on each revision
  MaxLife,      \* bound on the incarnations of the app
  MaxLate,      \* bound on requests on their way that nobody waits for
  Missing       \* a field that is not in an answer, or not of its type

ASSUME BoundsAssumption == MaxRev \in Nat /\ MaxLife \in Nat /\ MaxLate \in Nat
ASSUME OwnerAssumption == Owner \notin Others
ASSUME MissingAssumption ==
  Missing \notin {Owner} \cup Others \cup Communities \cup Runs

Policies == [visibility : {"restricted", "organization"}, viewers : SUBSET Others,
             publishers : SUBSET Others, communities : SUBSET Communities]

VARIABLES
  policy,     \* who can open the app
  grantRev,   \* revision of the community grants
  renewRev,   \* revision of the expiration: how often it was extended
  life,       \* incarnation; 0: no sharing lifecycle yet
  receipts,   \* renewal IDs the platform has a receipt for
  late,       \* requests whose sender has given up, which may still be served
  at,         \* what each run does next
  job,        \* its command
  basis,      \* what it read before a compare-and-set
  result,     \* what it reports
  claim,      \* a get: what it says of the audience
  truth,      \* history: the policy when a get read it
  chosen,     \* history: the fields the user gave with each renewal ID
  word,       \* history: what was last reported of each community, if nobody
              \* has read its revision since
  effect,     \* history: the runs whose request has been, or may yet be, served
  blind       \* history: a compare-and-set was applied to another state than was
              \* read for it

vars == <<policy, grantRev, renewRev, life, receipts, late, at, job, basis, result, claim,
          truth, chosen, word, effect, blind>>

\* what serving a request may change
platform == <<policy, grantRev, renewRev, life, receipts, effect, blind>>

Visibilities == [command : {"visibility"}, visibility : {"restricted", "organization"}]
Accesses == [command : {"access"}, visibility : {"restricted", "organization"},
             viewers : SUBSET Others]
PublisherChanges == [command : {"add", "remove"}, person : Others]
Overwrites == Visibilities \cup Accesses \cup PublisherChanges

Grants == [command : {"grant", "revoke"}, community : Communities]
Extensions == [command : {"renew"}, id : Renewals]
Jobs == Overwrites \cup Grants \cup Extensions \cup {[command |-> "get"]}
NoJob == [command |-> "none"]

\* What a compare-and-set is based on: the revision and incarnation it names
\* and, as history, the state they stood for
Bases == [rev : 0..MaxRev, life : 0..MaxLife, seen : SUBSET (Communities \cup 0..MaxRev)]
NoBasis == [rev |-> 0, life |-> 0, seen |-> {}]

Requests == [by : Runs \cup {Missing}, job : Jobs, basis : Bases]

Claims == [base : {"owner", "workspace"}, others : SUBSET Others, counted : BOOLEAN,
           communities : SUBSET Communities]

Results == {"running", "done", "unchanged", "failed", "blocked"}

TypeOK ==
  /\ policy \in Policies
  /\ grantRev \in 0..MaxRev /\ renewRev \in 0..MaxRev /\ life \in 0..MaxLife
  /\ receipts \subseteq Renewals
  /\ late \subseteq Requests /\ Cardinality(late) <= MaxLate
  /\ at \in [Runs -> {"idle", "read", "write", "inspect", "audience", "end"}]
  /\ job \in [Runs -> Jobs \cup {NoJob}]
  /\ basis \in [Runs -> Bases]
  /\ result \in [Runs -> Results]
  /\ claim \in [Runs -> Claims \cup {Missing}]
  /\ truth \in [Runs -> Policies]
  /\ chosen \in [Renewals -> Bases \cup {Missing}]
  /\ word \in [Communities -> {"none", "grant", "revoke"}]
  /\ effect \subseteq Runs
  /\ blind \in BOOLEAN

Private == [visibility |-> "restricted", viewers |-> {}, publishers |-> {},
            communities |-> {}]

Init ==
  /\ policy = Private
  /\ grantRev = 0 /\ renewRev = 0 /\ life = 0
  /\ receipts = {}
  /\ late = {}
  /\ at = [r \in Runs |-> "idle"]
  /\ job = [r \in Runs |-> NoJob]
  /\ basis = [r \in Runs |-> NoBasis]
  /\ result = [r \in Runs |-> "running"]
  /\ claim = [r \in Runs |-> Missing]
  /\ truth = [r \in Runs |-> Private]
  /\ chosen = [q \in Renewals |-> Missing]
  /\ word = [c \in Communities |-> "none"]
  /\ effect = {}
  /\ blind = FALSE

-----------------------------------------------------------------------------
(***************************************************************************)
(* The platform, the dialog and the network                                *)
(***************************************************************************)

Changed(j) ==
  [visibility |-> IF j \in Visibilities \cup Accesses THEN j.visibility
                  ELSE policy.visibility,
   viewers |-> IF j \in Accesses THEN j.viewers ELSE policy.viewers,
   publishers |-> {p \in policy.publishers : j # [command |-> "remove", person |-> p]}
                    \cup {p \in Others : j = [command |-> "add", person |-> p]},
   communities |-> {c \in policy.communities : j # [command |-> "revoke", community |-> c]}
                     \cup {c \in Communities : j = [command |-> "grant", community |-> c]}]

\* an identical retry of a renewal is answered with the first receipt
Repeated(req) == req.job.command = "renew" /\ req.job.id \in receipts

\* the revision and the incarnation a compare-and-set names are current
Current(req) ==
  /\ req.job \in Grants =>
       life > 0 /\ req.basis.life = life /\ req.basis.rev = grantRev /\ grantRev < MaxRev
  /\ req.job \in Extensions /\ ~Repeated(req) =>
       req.basis.life = life /\ req.basis.rev = renewRev /\ renewRev < MaxRev

Meets(req, content) ==
  blind' = (blind \/ req.basis.life # life \/ req.basis.seen # content)

\* what serving a request does
Serve(req) ==
  /\ Current(req)
  /\ effect' = effect \cup ({req.by} \cap Runs)
  /\ \/ /\ req.job \in Extensions /\ ~Repeated(req)
        /\ renewRev' = renewRev + 1
        /\ receipts' = receipts \cup {req.job.id}
        /\ Meets(req, {renewRev})
        /\ UNCHANGED <<policy, grantRev, life>>
     \/ /\ Repeated(req)
        /\ UNCHANGED <<policy, grantRev, renewRev, life, receipts, blind>>
     \/ /\ req.job \in Grants
        /\ policy' = Changed(req.job)
        /\ grantRev' = grantRev + 1
        /\ Meets(req, policy.communities)
        /\ UNCHANGED <<renewRev, life, receipts>>
     \/ /\ req.job \in Overwrites
        /\ policy' = Changed(req.job)
        /\ UNCHANGED <<grantRev, renewRev, life, receipts, blind>>

\* ok and unusable answers have a success status; a refusal has a code; another
\* error may come after the fact; none comes when the network fails
Replies == {"ok", "unusable", "refused", "broken", "none"}

Exchange(req, reply) ==
  \/ reply # "refused" /\ Serve(req) /\ UNCHANGED late
  \/ reply \in {"refused", "broken", "none"} /\ UNCHANGED <<platform, late>>
  \/ /\ reply = "none"
     /\ Cardinality(late \cup {req}) <= MaxLate
     /\ late' = late \cup {req}
     /\ effect' = effect \cup {req.by}
     /\ UNCHANGED <<policy, grantRev, renewRev, life, receipts, blind>>

\* a request that was given up on is served, or lost
Arrive(req) ==
  /\ req \in late
  /\ late' = late \ {req}
  /\ Serve(req) \/ UNCHANGED platform
  /\ UNCHANGED <<at, job, basis, result, claim, truth, chosen, word>>

\* the owner shares or unshares the app in the browser
Dialog(c) ==
  /\ life > 0 /\ grantRev < MaxRev
  /\ policy' \in {Changed([command |-> a, community |-> c]) : a \in {"grant", "revoke"}}
  /\ grantRev' = grantRev + 1
  /\ word' = [word EXCEPT ![c] = "none"]
  /\ UNCHANGED <<renewRev, life, receipts, late, at, job, basis, result, claim, truth,
                 chosen, effect, blind>>

\* the first deployment, or a deletion and another app under the ID
Recreate ==
  /\ life < MaxLife
  /\ life' = life + 1
  /\ policy' = Private
  /\ grantRev' = 0 /\ renewRev' = 0
  /\ word' = [c \in Communities |-> "none"]
  /\ UNCHANGED <<receipts, late, at, job, basis, result, claim, truth, chosen, effect,
                 blind>>

-----------------------------------------------------------------------------
(***************************************************************************)
(* The commands                                                            *)
(***************************************************************************)

\* What a run may say after the platform's refusal: known_failure_explanation
\* explains most codes with "nothing was changed"
Refusals == {"unchanged", "failed"}

Goto(r, label) == at' = [at EXCEPT ![r] = label] /\ UNCHANGED result

End(r, value) ==
  /\ at' = [at EXCEPT ![r] = "end"]
  /\ result' = [result EXCEPT ![r] = value]

\* control_plane_context: the URL and the session are checked before anything is
\* sent (AppsRequest)
Try(r, label) == Goto(r, label) \/ End(r, "failed")

Start(r, j) ==
  /\ at[r] = "idle"
  /\ job' = [job EXCEPT ![r] = j]
  /\ UNCHANGED <<platform, late, basis, claim, truth, chosen, word>>

BeginVisibility(r, j) ==
  /\ j.command = "visibility"
  /\ Start(r, j)
  /\ Try(r, "write")

\* A private app without viewers needs --clear-viewers, too
BeginAccess(r, j) ==
  /\ j.command = "access"
  /\ Start(r, j)
  /\ Try(r, "write")

BeginPublishers(r, j) ==
  /\ j.command \in {"add", "remove"}
  /\ Start(r, j)
  /\ Try(r, "write")

\* On a workstation whose proxy may not share with communities, grant and revoke
\* stop before any request
BeginGrant(r, j) ==
  /\ j \in Grants
  /\ Start(r, j)
  /\ Try(r, "read") \/ End(r, "blocked")

\* a portal that is no HTTPS origin is refused before anything is asked
BeginGet(r, j) ==
  /\ j.command = "get"
  /\ Start(r, j)
  /\ Try(r, "inspect")

\* renew sends what the user has read with `bl apps expiration'; for a retry she
\* gives the same again
BeginRenew(r, q, b) ==
  /\ at[r] = "idle"
  /\ IF chosen[q] = Missing
       THEN b = [rev |-> renewRev, life |-> life, seen |-> {renewRev}]
       ELSE b = chosen[q]
  /\ Try(r, "write")
  /\ job' = [job EXCEPT ![r] = [command |-> "renew", id |-> q]]
  /\ basis' = [basis EXCEPT ![r] = b]
  /\ chosen' = [chosen EXCEPT ![q] = b]
  /\ UNCHANGED <<platform, late, claim, truth, word>>

\* The revision of the grants, just before the change; an app without a sharing
\* lifecycle cannot be shared
ReadRevision(r) ==
  /\ at[r] = "read"
  /\ \/ /\ life > 0
        /\ Goto(r, "write")
        /\ basis' = [basis EXCEPT ![r] =
                       [rev |-> grantRev, life |-> life, seen |-> policy.communities]]
        /\ word' = [word EXCEPT ![job[r].community] = "none"]
     \/ (\E value \in Refusals : End(r, value)) /\ UNCHANGED <<basis, word>>
  /\ UNCHANGED <<platform, late, job, claim, truth, chosen>>

Request(r) == [by |-> r, job |-> job[r], basis |-> basis[r]]

Word(r, reply) ==
  word' = IF reply = "ok" /\ job[r] \in Grants
            THEN [word EXCEPT ![job[r].community] = job[r].command] ELSE word

\* an error that may have come after the fact taken for a success
AnsweredGladly(r, reply) ==
  /\ \/ reply \in {"ok", "broken"} /\ End(r, "done")
     \/ reply = "refused" /\ \E value \in Refusals : End(r, value)
     \/ reply \in {"unusable", "none"} /\ End(r, "failed")
  /\ Word(r, IF reply = "broken" THEN "ok" ELSE reply)

\* what the run reports of its request
Answered(r, reply) ==
  /\ \/ reply = "ok" /\ End(r, "done")
     \/ reply = "refused" /\ \E value \in Refusals : End(r, value)
     \/ reply \in {"unusable", "broken", "none"} /\ End(r, "failed")
  /\ Word(r, reply)

\* The request as sent again when no answer came
WriteAgain(r, reply) ==
  /\ at[r] = "write"
  /\ Exchange(Request(r), reply)
  /\ IF reply = "none" THEN Goto(r, "write") /\ UNCHANGED word ELSE Answered(r, reply)
  /\ UNCHANGED <<job, basis, claim, truth, chosen>>

\* The request with whatever revision is current by then
WriteCurrent(r, reply) ==
  /\ at[r] = "write"
  /\ LET rev == IF job[r].command = "renew" THEN renewRev ELSE grantRev
     IN Exchange([Request(r) EXCEPT !.basis.rev = rev], reply)
  /\ Answered(r, reply)
  /\ UNCHANGED <<job, basis, claim, truth, chosen>>

\* The one request that changes something, which is never sent twice
Write(r, reply) ==
  /\ at[r] = "write"
  /\ Exchange(Request(r), reply)
  /\ Answered(r, reply)
  /\ UNCHANGED <<job, basis, claim, truth, chosen>>

-----------------------------------------------------------------------------
(***************************************************************************)
(* Who can open the app                                                    *)
(***************************************************************************)

\* a list that is not in the answer
NoList == {Missing}

\* The platform's answers to the question: any field may be missing, the list of
\* communities only if it is empty
Answers ==
  [visibility : {policy.visibility},
   owner : {Owner, Missing},
   viewers : {policy.viewers \cup {Owner}, NoList},
   effective : {policy.viewers \cup policy.publishers \cup {Owner}, NoList},
   publishers : {policy.publishers, NoList},
   communities : IF policy.communities = {} THEN {{}, NoList} ELSE {policy.communities},
   revision : BOOLEAN]

Listed(field) == IF field = NoList THEN {} ELSE field

\* build_app_handoff: an answer is believed only if it is complete
Verified(answer) ==
  /\ answer.revision
  /\ answer.viewers # NoList
  /\ answer.visibility = "restricted" => answer.effective # NoList

\* the owner counted with the others
WhoCanOpenAtAll(answer, owner) ==
  [base |-> IF answer.visibility = "restricted" THEN "owner" ELSE "workspace",
   others |-> IF answer.visibility = "restricted"
                THEN Listed(answer.viewers) \cup Listed(answer.publishers) ELSE {},
   counted |-> TRUE,
   communities |-> Listed(answer.communities)]

\* who_can_open: without an owner to leave out, other people are not counted
WhoCanOpen(answer, owner) ==
  LET known == IF answer.owner # Missing THEN answer.owner ELSE owner
      people == IF answer.effective # NoList THEN answer.effective
                ELSE Listed(answer.viewers) \cup Listed(answer.publishers)
  IN [base |-> IF answer.visibility = "restricted" THEN "owner" ELSE "workspace",
      others |-> IF answer.visibility = "restricted" /\ known # Missing
                   THEN people \ {known} ELSE {},
      counted |-> known # Missing,
      communities |-> Listed(answer.communities)]

\* get reads the app, which may name its owner, and then who can open it
Inspect(r) ==
  /\ at[r] = "inspect"
  /\ Goto(r, "audience") \/ End(r, "failed")
  /\ UNCHANGED <<platform, late, job, basis, claim, truth, chosen, word>>

Audience(r, owner) ==
  /\ at[r] = "audience"
  /\ End(r, "done")
  /\ \/ \E answer \in Answers :
          claim' = [claim EXCEPT ![r] = IF Verified(answer) THEN WhoCanOpen(answer, owner)
                                        ELSE Missing]
     \/ UNCHANGED claim        \* no answer: the audience is unknown
  /\ truth' = [truth EXCEPT ![r] = policy]
  /\ UNCHANGED <<platform, late, job, basis, chosen, word>>

\* the run is over, or killed; the next one in its place is another
Forget(r) ==
  /\ at' = [at EXCEPT ![r] = "idle"]
  /\ result' = [result EXCEPT ![r] = "running"]
  /\ job' = [job EXCEPT ![r] = NoJob]
  /\ basis' = [basis EXCEPT ![r] = NoBasis]
  /\ claim' = [claim EXCEPT ![r] = Missing]
  /\ truth' = [truth EXCEPT ![r] = Private]
  /\ effect' = effect \ {r}
  /\ late' = {IF req.by = r THEN [req EXCEPT !.by = Missing] ELSE req : req \in late}
  /\ UNCHANGED <<policy, grantRev, renewRev, life, receipts, chosen, word, blind>>

Return(r) == at[r] = "end" /\ Forget(r)

Crash(r) == at[r] \in {"read", "write", "inspect", "audience"} /\ Forget(r)

Next ==
  \/ \E r \in Runs :
       \/ \E j \in Jobs : \/ BeginVisibility(r, j)
                         \/ BeginAccess(r, j)
                         \/ BeginPublishers(r, j)
                         \/ BeginGrant(r, j)
                         \/ BeginGet(r, j)
       \/ \E q \in Renewals, b \in Bases : BeginRenew(r, q, b)
       \/ ReadRevision(r)
       \/ \E reply \in Replies : Write(r, reply)
       \/ Inspect(r)
       \/ \E owner \in {Owner, Missing} : Audience(r, owner)
       \/ Return(r)
       \/ Crash(r)
  \/ \E req \in late : Arrive(req)
  \/ \E c \in Communities : Dialog(c)
  \/ Recreate

Spec == Init /\ [][Next]_vars

-----------------------------------------------------------------------------
(***************************************************************************)
(* Properties                                                              *)
(***************************************************************************)

\* An error that says "nothing was changed" is true: the request of that
\* command was not served before, and is not on its way.
UnchangedIsTrue ==
  \A r \in Runs : result[r] = "unchanged" => r \notin effect

\* A grant, a revocation or a renewal is applied to the state that was read for
\* it, however late it arrives and whatever was done meanwhile: nobody's change
\* to the communities is undone, and no deadline is moved twice, by a command
\* that did not know of it.
AppliedToWhatWasRead == ~blind

\* The last word about a community stands: what a grant or a revocation has
\* reported is so until somebody looks at the communities again to change them.
LastWordStands ==
  \A c \in Communities :
    /\ word[c] = "grant" => c \in policy.communities
    /\ word[c] = "revoke" => c \notin policy.communities

\* What `get' says of the audience it calls verified was so when it asked: it
\* names every community, and counts every other person who can open a private
\* app if it knows the owner.
AudienceIsComplete ==
  \A r \in Runs :
    result[r] = "done" /\ claim[r] # Missing =>
      /\ claim[r].base = "owner" <=> truth[r].visibility = "restricted"
      /\ claim[r].communities = truth[r].communities
      /\ claim[r].base = "owner" /\ claim[r].counted =>
           claim[r].others = truth[r].viewers \cup truth[r].publishers

\* What the commands say of who can open the app is true: of a change, from the
\* report until the next look, whatever requests are late by then; of the
\* audience, at the time of the question, whatever the answer lacks.
ToldTruly == LastWordStands /\ AudienceIsComplete
=============================================================================
