----------------------------- MODULE AppsRequest -----------------------------
(***************************************************************************)
(* One `bl apps' command and its requests (apps.rs): whether the URL it is *)
(* given is one the stored session may be sent to, or the one a Blox       *)
(* workstation's operator has configured, whose proxy needs no session;    *)
(* the check of the session before it is used; and what of an answer is    *)
(* shown.  What the requests do to an app is in HostedApp and AppSharing.  *)
(*                                                                         *)
(* The Apps Platform, Kgoose and the proxy are not part of the repository. *)
(* They may answer anything, and put into it whatever they were sent.      *)
(***************************************************************************)
EXTENDS FiniteSets

VARIABLES
  at,        \* what the command does next
  command,
  target,    \* the URL its requests go to
  holds,     \* what it authorizes them with
  recovery,  \* what it has learnt of the account, for a denial without a word
  sent,      \* history: who was sent a request, and whether with the session
  shown,     \* the kinds of text it has printed, and whose; not the client's own words
  result     \* running, or the class of its exit code

vars == <<at, command, target, holds, recovery, sent, shown, result>>

\* `list' may read twice; `publishers list' has an error of its own; the other
\* commands are one read or begin with one, and may go on to ask for the names of
\* communities, as `community list' does
Commands == {"list", "publishers", "other", "communities"}

\* port "own" is the scheme's; user: the URL has a user or a password
Urls == [https : BOOLEAN, port : {"own", "other"}, user : BOOLEAN,
         host : {"approved", "operator", "stranger"}]

Service(host) == [https |-> TRUE, port |-> "own", user |-> FALSE, host |-> host]
Kgoose == Service("kgoose")
Proxy == Service("workstation")
Nowhere == Service("none")

\* flags, variables and preferences; the URL is a flag or the configured one
Settings ==
  {s \in [base : Urls, configured : Urls \cup {Nowhere}, blox : BOOLEAN, org : BOOLEAN,
          sharing : BOOLEAN, workstation : BOOLEAN] :
     s.configured \in {Nowhere, s.base} \cup {u \in Urls : u.host = "operator"}}

Results == {"running", "ok", "general", "auth", "forbidden", "network"}

\* echo: the session as it was sent; spelled: the session in JSON's escapes; key:
\* the session for the name of a member
Texts == {"none", "plain", "echo", "spelled", "key", "redacted"}

\* an answer of the platform's, or a list of the communities
Sources == {"platform", "communities"}

Recoveries == {"none", "setup", "access"}

RequestTypeOK ==
  /\ at \in {"start", "verify", "send", "quota", "names", "communities", "end"}
  /\ command \in Commands
  /\ target \in Urls \cup {Kgoose, Proxy, Nowhere}
  /\ holds \in {"nothing", "session", "proxy"}
  /\ recovery \in Recoveries
  /\ sent \subseteq [to : Urls \cup {Kgoose, Proxy}, session : BOOLEAN]
  /\ shown \subseteq [of : Sources, text : Texts]
  /\ result \in Results

RequestInit ==
  /\ at = "start"
  /\ command \in Commands
  /\ target = Nowhere
  /\ holds = "nothing"
  /\ recovery = "none"
  /\ sent = {}
  /\ shown = {}
  /\ result = "running"

End(value) == at' = "end" /\ result' = value
Goto(label) == at' = label /\ UNCHANGED result

-----------------------------------------------------------------------------
(***************************************************************************)
(* Whom to ask, and with what                                              *)
(***************************************************************************)

Origin(url) == <<url.https, url.host, url.port>>

\* is_blox_control_plane_url: on a workstation, of the configured origin
OfOperator(s, url) ==
  /\ s.blox
  /\ ~url.user
  /\ s.configured # Nowhere /\ Origin(s.configured) = Origin(url)

\* is_trusted_control_plane_url
Trusted(s, url) ==
  \/ OfOperator(s, url)
  \/ url.https /\ url.port = "own" /\ ~url.user /\ url.host = "approved"

\* the workstation's proxy lists the communities of its owner
ThroughProxy(s) == s.sharing /\ s.workstation

\* Without an organisation only what a proxy answers for may be asked
NeedsOrg(s) ==
  IF command = "communities" THEN ~ThroughProxy(s) ELSE ~OfOperator(s, s.base)

Begin(s) ==
  /\ at = "start"
  /\ \/ NeedsOrg(s) /\ ~s.org /\ End("auth") /\ UNCHANGED <<target, holds>>
     \/ /\ ~NeedsOrg(s) \/ s.org
        /\ command # "communities"
        /\ IF Trusted(s, s.base)
             THEN /\ target' = s.base
                  /\ IF OfOperator(s, s.base)
                       THEN holds' = "proxy" /\ Goto("send")
                       ELSE holds' = "nothing" /\ Goto("verify")
             ELSE End("general") /\ UNCHANGED <<target, holds>>
     \/ /\ ~NeedsOrg(s) \/ s.org
        /\ command = "communities"
        /\ IF ThroughProxy(s)
             THEN target' = Proxy /\ holds' = "proxy" /\ Goto("communities")
             ELSE \/ target' = Kgoose /\ holds' = "session" /\ Goto("communities")
                  \/ End("auth") /\ UNCHANGED <<target, holds>>   \* no session is stored
  /\ UNCHANGED <<command, recovery, sent, shown>>

\* what Kgoose says of the account of a session it accepts
Accounts == [status : {"none", "ok", "needs details", "pending"},
             products : {"unknown", "with BuilderLab", "without"}]

\* AppsAccessRecovery::from_auth_me
RecoveryOf(me) ==
  CASE me.status = "needs details" -> "setup"
    [] me.status \in {"none", "ok"} /\ me.products = "without" -> "access"
    [] OTHER -> "none"

\* ComposeSessionCredential::from_config: the stored session, if Kgoose accepts it
NoSession ==
  /\ at = "verify"
  /\ End("auth")
  /\ UNCHANGED <<command, target, holds, recovery, sent, shown>>

Verify ==
  /\ at = "verify"
  /\ sent' = sent \cup {[to |-> Kgoose, session |-> TRUE]}
  /\ \/ \E me \in Accounts :
          /\ holds' = "session"
          /\ recovery' = RecoveryOf(me)
          /\ Goto("send")
     \/ (\E value \in {"auth", "general"} : End(value)) /\ UNCHANGED <<holds, recovery>>
  /\ UNCHANGED <<command, target, shown>>

-----------------------------------------------------------------------------
(***************************************************************************)
(* What an answer may say, and what of it is shown                         *)
(***************************************************************************)

\* who is sent the session may repeat it, letter by letter or in JSON's escapes
Repeated(session) == {"none", "plain"} \cup (IF session THEN {"echo", "spelled"} ELSE {})

Strings == Repeated(holds = "session")

\* as the name of a member, too
Values == Strings \cup (IF holds = "session" THEN {"key"} ELSE {})

Said(of, strings) == [of : {of}, text : strings \ {"none"}]

\* of an answer that has been parsed: its escapes are gone
Redact(text) == IF text \in {"echo", "spelled"} THEN "redacted" ELSE text

\* the values alone are looked at
RedactValues(value) == Redact(value)

\* redact_json_value and sanitize_recovery_field fail on the name of a member
RedactJson(value) == IF value = "key" THEN "failed" ELSE Redact(value)

\* a trace ID that is the session is none
Traced(text) == IF text \in {"echo", "spelled"} THEN "none" ELSE text

Failures == {"redirect", "bad request", "unauthorized", "forbidden", "not found",
             "conflict", "server error"}

\* An error of the platform; one without a body says nothing.  Its message is
\* left out: none of it is ever printed.
Errors ==
  {e \in [status : Failures, empty : BOOLEAN, code : Strings,
          details : Values, next : Values, trace : Strings] :
     e.empty => e.code = "none" /\ e.details = "none" /\ e.next = "none"}

\* the sanitized field, or nothing
Sanitized(value) == IF RedactJson(value) = "failed" THEN "none" ELSE RedactJson(value)

\* control_plane_http_failure: a session that was turned down and a denial without
\* a word have the client's own next step
OwnNextStep(e) ==
  e.status = "unauthorized" \/ (e.status = "forbidden" /\ e.empty /\ recovery # "none")

ShownOfError(e) ==
  Said("platform",
       {Redact(e.code), Traced(e.trace)}
         \cup (IF e.status \in {"unauthorized", "forbidden"} THEN {} ELSE {Sanitized(e.details)})
         \cup (IF OwnNextStep(e) THEN {} ELSE {Sanitized(e.next)}))

ExitOf(status) ==
  CASE status = "unauthorized" -> "auth"
    [] status = "forbidden" -> "forbidden"
    [] status = "server error" -> "network"
    [] OTHER -> "general"

\* publishers_unsupported_failure: a route that is not there
Unrouted(e) == command = "publishers" /\ e.status = "not found" /\ e.code = "none"

Ask == sent' = sent \cup {[to |-> target, session |-> holds = "session"]}

\* no answer, one that is too long, no JSON object, or with the session for a name
NoUsableAnswer ==
  /\ at = "send"
  /\ Ask
  /\ \E value \in {"network", "general"}, trace \in Strings :
       End(value) /\ shown' = shown \cup Said("platform", {Traced(trace)})
  /\ UNCHANGED <<command, target, holds, recovery>>

Refused(e) ==
  /\ at = "send"
  /\ Ask
  /\ End(ExitOf(e.status))
  /\ shown' = shown \cup (IF Unrouted(e) THEN Said("platform", {Traced(e.trace)})
                                         ELSE ShownOfError(e))
  /\ UNCHANGED <<command, target, holds, recovery>>

\* `list' borrows the quota of the owner's list, if the answer has none and the
\* command has not asked for another list; a change of the audience, and `get', want
\* the names of the communities
Answered(value, trace, more) ==
  /\ at = "send"
  /\ Ask
  /\ IF RedactJson(value) = "failed"
       THEN End("general") /\ shown' = shown \cup Said("platform", {Traced(trace)})
       ELSE /\ shown' = shown \cup Said("platform", {RedactJson(value), Traced(trace)})
            /\ CASE command = "list" /\ more -> Goto("quota")
                 [] command = "other" /\ more -> Goto("names")
                 [] OTHER -> End("ok")
  /\ UNCHANGED <<command, target, holds, recovery>>

\* which never makes the command fail
Quota(value) ==
  /\ at = "quota"
  /\ Ask
  /\ End("ok")
  /\ shown' = shown \cup Said("platform", {Sanitized(value)})
  /\ UNCHANGED <<command, target, holds, recovery>>

\* joined_communities_for: the session is taken out of the body as it came, names
\* and all, before the JSON is read; what spells the session with escapes is not
\* found, and is the session again once it is read
Cleared(value) == IF value \in {"echo", "key"} THEN "redacted" ELSE value

\* joined_communities: of an error the code is kept if it looks like one, which
\* what is left of the session does not
JoinedCommunities(value, trace, ok) ==
  /\ at = "communities"
  /\ Ask
  /\ IF ok
       THEN End("ok") /\ shown' = shown \cup Said("communities", {Cleared(value)})
       ELSE /\ \E exit \in {"auth", "general", "forbidden", "network"} : End(exit)
            /\ shown' = shown \cup Said("communities",
                                       {Cleared(trace)} \cup ({Cleared(value)} \ {"redacted"}))
  /\ UNCHANGED <<command, target, holds, recovery>>

\* community_names: with the stored session, also on a workstation, unless its proxy
\* lists them; without a list the communities have no names
CommunityNames ==
  /\ at = "names"
  /\ \E session \in BOOLEAN : \E value \in Repeated(session) :
       /\ sent' = sent \cup {[to |-> IF session THEN Kgoose ELSE Proxy, session |-> session]}
       /\ shown' = shown \cup Said("communities", {Cleared(value)})
  /\ End("ok")
  /\ UNCHANGED <<command, target, holds, recovery>>

RequestNext ==
  \/ \E s \in Settings : Begin(s)
  \/ NoSession \/ Verify
  \/ NoUsableAnswer
  \/ \E e \in Errors : Refused(e)
  \/ \E value \in Values, trace \in Strings, more \in BOOLEAN : Answered(value, trace, more)
  \/ \E value \in Values : Quota(value)
  \/ CommunityNames
  \/ \E value \in Values, trace \in Strings, ok \in BOOLEAN : JoinedCommunities(value, trace, ok)

RequestSpec == RequestInit /\ [][RequestNext]_vars

-----------------------------------------------------------------------------
(***************************************************************************)
(* Properties                                                              *)
(***************************************************************************)

\* The session goes to Kgoose and to the approved hosts alone, never in clear
\* text, to another port or to a workstation's proxy.  The command prints it of no
\* answer in which it is repeated, as it was sent or in JSON's escapes, as a text
\* or as a name, with one exception: in a list of communities the escapes are not
\* looked into, so that Kgoose, which has the session, could have it printed.
SecretKept ==
  /\ \A m \in sent : m.session =>
       m.to = Kgoose \/ m.to = Service("approved")
  /\ \A s \in shown :
       /\ s.text \notin {"echo", "key"}
       /\ s.text = "spelled" =>
            s.of = "communities" /\ [to |-> Kgoose, session |-> TRUE] \in sent
=============================================================================
