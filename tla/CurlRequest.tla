---------------------------- MODULE CurlRequest ----------------------------
(***************************************************************************)
(* One `bl curl' (curl.rs): the request the client makes of its arguments, *)
(* the system's curl, and what of curl's output the user sees.             *)
(*                                                                         *)
(* curl writes the response headers to a file, line by line, and the body, *)
(* with -i also the headers, to a pipe.  The client reads the pipe piece   *)
(* by piece and must decide, from what is in the header file by then,      *)
(* whether to pass the output on: the answer to a request that will be     *)
(* sent again with a new session must not be shown.  What that login and   *)
(* the stored sessions do beside other commands is in AuthSessions.        *)
(*                                                                         *)
(* curl and the hosted app are not part of the repository.  curl's output  *)
(* is a sequence of pieces; a JSON body that asks for consent is           *)
(* recognised if all of it, and nothing after it, is at hand.              *)
(***************************************************************************)
EXTENDS Integers, Sequences, FiniteSets

CONSTANTS
  MaxBody,  \* bound on the pieces of a body
  Limit     \* BODY_CAPTURE_LIMIT, in pieces

ASSUME CurlSizes == MaxBody \in Nat /\ Limit \in Nat

VARIABLES
  curlAt,   \* what the client does next
  call,     \* what it has made of the arguments
  stored,   \* the stored hosted-app session
  fresh,    \* the session in use comes from a login of this command
  answer,   \* what the app answers this time
  lines,    \* how many lines of the answer's heads are in the header file
  put,      \* how many pieces curl has put into the pipe
  got,      \* how many of them the client has read
  exited,   \* curl has ended
  state,    \* what the client does with the output
  held,     \* output it holds back
  shown,    \* what it has printed
  sends,    \* how often curl was started
  ending

curlVars == <<curlAt, call, stored, fresh, answer, lines, put, got, exited, state, held, shown,
              sends, ending>>

\* options that decide the method, and those that decide what is put out where;
\* a proxy comes from the environment, and `retry' is --retry, with any error
MethodOptions == {"head", "get", "upload", "body"}
OutputOptions == {"include", "write-out", "output", "fail", "proxy", "retry"}

Arguments == [custom : {"none", "GET", "POST"}, options : SUBSET MethodOptions,
              output : SUBSET OutputOptions]

SafeMethods == {"GET", "HEAD", "OPTIONS"}

\* The URL: `app' is a host below the domain of an organisation's apps
Urls == [https : BOOLEAN, login : BOOLEAN, port : BOOLEAN, host : {"app", "domain", "other"},
         tenant : {"own", "other"}]

\* resolve_hosted_target
Hosted(url) ==
  /\ url.https /\ ~url.login /\ ~url.port
  /\ url.host = "app" /\ url.tenant = "own"

\* One option as the client parses it: where it is listed, whether it is the
\* --no- form, what it is for and what its value, if it takes one, would have curl do
Words == [listed : {"allowed", "refused", "neither"}, negated : BOOLEAN,
          role : {"plain", "globoff", "method", "header", "input"},
          value : {"none", "missing", "plain", "stdin", "file", "session"}]

\* Only what is known is passed on.  A header may not come from a file, nor be one
\* the session is sent in; stdin is the client's own
Passes(word) ==
  /\ word.listed = "allowed"
  /\ word.negated => word.role = "plain" /\ word.value = "none"
  /\ word.value # "missing"
  /\ word.role = "header" => word.value \notin {"file", "session"}
  /\ word.role = "input" => word.value # "stdin"

\* CurlRequest::new
Method(args) ==
  CASE args.custom # "none" -> args.custom
    [] args.custom = "none" /\ "head" \in args.options -> "HEAD"
    [] args.custom = "none" /\ "head" \notin args.options /\ "upload" \in args.options -> "PUT"
    [] args.custom = "none" /\ args.options \cap {"head", "upload"} = {} ->
         IF "body" \in args.options /\ "get" \notin args.options THEN "POST" ELSE "GET"

\* What curl does of its own accord: options that name two methods are an error
CurlMethod(args) ==
  LET named == (IF "head" \in args.options THEN {"HEAD"} ELSE {})
                 \cup (IF "upload" \in args.options THEN {"PUT"} ELSE {})
                 \cup (IF "body" \in args.options /\ "get" \notin args.options
                         THEN {"POST"} ELSE {})
  IN IF Cardinality(named) > 1 THEN "error"
     ELSE IF args.custom # "none" THEN args.custom
     ELSE IF named = {} THEN "GET" ELSE CHOOSE m \in named : TRUE

\* What the rest of the command depends on: -I prints the headers
Calls == [safe : BOOLEAN, sends : {"error", "safe", "unsafe"}, output : SUBSET OutputOptions]

CallOf(args) ==
  [safe |-> Method(args) \in SafeMethods,
   sends |-> CASE CurlMethod(args) = "error" -> "error"
               [] CurlMethod(args) \in SafeMethods -> "safe"
               [] OTHER -> "unsafe",
   output |-> args.output \cup (IF "head" \in args.options THEN {"include"} ELSE {})]

\* A head may come before the final one: a 1xx, a proxy's 200 to CONNECT, or the
\* answer to an attempt that curl itself makes again.  A 401 asks for another
\* session or for consent; an app may name the page for the latter in a header, in
\* the body, or both
AppAnswers ==
  {a \in [before : {"nothing", "continue", "failure", "rejection"},
          status : {"other", "rejected", "consent"}, header : BOOLEAN, body : 0..MaxBody] :
     /\ a.header => a.status = "consent"
     /\ a.status = "consent" /\ ~a.header => a.body > 0}

\* curl tries a 5xx again if it is told to, and a 401 if that is also an error to it
AnswersTo(c) ==
  {a \in AppAnswers : /\ a.before \in {"failure", "rejection"} => "retry" \in c.output
                      /\ a.before = "rejection" => "fail" \in c.output}

NoCall == [safe |-> FALSE, sends |-> "error", output |-> {}]
NoAnswer == [before |-> "nothing", status |-> "other", header |-> FALSE, body |-> 0]

Sessions == [domain : {"this", "other"}, cookie : BOOLEAN, expires : {"never", "later", "soon"}]
NoSession == [domain |-> "none", cookie |-> FALSE, expires |-> "soon"]
NewSession == [domain |-> "this", cookie |-> TRUE, expires |-> "later"]

States == {"undecided", "forward", "withhold", "discard"}

Endings == {"running", "exit", "consent", "rejected", "rerun", "failed"}

Pieces == (1..2) \X (1..(MaxBody + 6))

CurlTypeOK ==
  /\ curlAt \in {"start", "login", "curl", "judge", "forget", "again", "end"}
  /\ call \in Calls
  /\ stored \in Sessions \cup {NoSession}
  /\ fresh \in BOOLEAN
  /\ answer \in AppAnswers
  /\ lines \in 0..4 /\ put \in 0..(MaxBody + 6) /\ got \in 0..put
  /\ exited \in BOOLEAN
  /\ state \in States
  /\ held \in Seq(Pieces) /\ shown \in Seq(Pieces)
  /\ sends \in 0..2
  /\ ending \in Endings

-----------------------------------------------------------------------------
(***************************************************************************)
(* curl's output                                                           *)
(***************************************************************************)

Has(option) == option \in call.output

HeadLines == IF answer.before = "nothing" /\ ~Has("proxy") THEN 2 ELSE 4

Retried == answer.before \in {"failure", "rejection"}

\* the lines of the heads that are part of the output
Included == IF Has("include") /\ ~Has("output") THEN HeadLines ELSE 0

\* with -f curl leaves out the body of an error
BodyShown == IF Has("output") \/ (Has("fail") /\ answer.status # "other") THEN 0 ELSE answer.body

\* the body of an attempt that is made again is put out too
Earlier == IF Retried /\ ~Has("output") /\ ~Has("fail") THEN 1 ELSE 0

Length == Included + Earlier + BodyShown + (IF Has("write-out") THEN 1 ELSE 0)

Piece(i) == <<sends, i>>
Between(i, j) == [n \in 1..(j - i) |-> Piece(i + n)]

Clear == /\ lines' = 0 /\ put' = 0 /\ got' = 0
         /\ exited' = FALSE
         /\ held' = <<>>

\* The header file as it is: the last head that is complete and no 1xx
Known ==
  CASE lines = HeadLines -> answer.status
    [] lines < HeadLines /\ lines >= 2 /\ answer.before = "rejection" -> "rejected"
    [] /\ lines < HeadLines /\ lines >= 2 /\ answer.before # "rejection"
       /\ Has("proxy") \/ answer.before = "failure" -> "other"
    [] OTHER -> "none"

\* How many lines are in the header file before curl puts out its i-th piece: a
\* header's own, and for a body those of its head
Due(i) ==
  LET first == IF Included > 0 THEN 2 ELSE 0
  IN CASE i <= first -> i
       [] i > first /\ i <= first + Earlier -> 2
       [] i > first + Earlier /\ i <= Included + Earlier -> i - Earlier
       [] OTHER -> HeadLines

HeaderLine ==
  /\ curlAt = "curl" /\ ~exited /\ call.sends # "error"
  /\ lines < HeadLines
  /\ lines' = lines + 1
  /\ UNCHANGED <<curlAt, call, stored, fresh, answer, put, got, exited, state, held, shown,
                 sends, ending>>

\* How long curl keeps output in its own buffer is open
Put ==
  /\ curlAt = "curl" /\ ~exited /\ call.sends # "error"
  /\ put < Length
  /\ lines >= Due(put + 1)
  /\ put' = put + 1
  /\ UNCHANGED <<curlAt, call, stored, fresh, answer, lines, got, exited, state, held, shown,
                 sends, ending>>

\* curl ends when it is through, or when the connection breaks
Exit ==
  /\ curlAt = "curl" /\ ~exited
  /\ exited' = TRUE
  /\ UNCHANGED <<curlAt, call, stored, fresh, answer, lines, put, got, state, held, shown,
                 sends, ending>>

-----------------------------------------------------------------------------
(***************************************************************************)
(* The client                                                              *)
(***************************************************************************)

EndCurl(value) == curlAt' = "end" /\ ending' = value
GoOn(label) == curlAt' = label /\ UNCHANGED ending

\* usable_session: of this domain, with a cookie's name, and not about to end
Usable(s) == s.domain = "this" /\ s.cookie /\ s.expires # "soon"

CurlInit ==
  /\ curlAt = "start"
  /\ call = NoCall
  /\ stored \in Sessions \cup {NoSession}
  /\ fresh = FALSE
  /\ answer = NoAnswer
  /\ lines = 0 /\ put = 0 /\ got = 0
  /\ exited = FALSE
  /\ state = "forward"
  /\ held = <<>> /\ shown = <<>>
  /\ sends = 0
  /\ ending = "running"

\* run_once: from here curl writes what the app answers
StartCurl(hold, a) ==
  /\ answer' = a
  /\ sends' = sends + 1
  /\ state' = IF hold THEN "undecided" ELSE "forward"
  /\ Clear

NotStarted == UNCHANGED <<answer, sends, state, lines, put, got, exited, held>>

\* Arguments the client does not know, and URLs that are no hosted app of the
\* organisation, are refused before anything is sent
Refuse ==
  /\ curlAt = "start"
  /\ (\E url \in Urls : ~Hosted(url)) \/ (\E word \in Words : ~Passes(word))
  /\ EndCurl("failed")
  /\ NotStarted
  /\ UNCHANGED <<call, stored, fresh, shown>>

BeginCurl ==
  /\ curlAt = "start"
  /\ \E url \in Urls, word \in Words : Hosted(url) /\ Passes(word)
  /\ call' \in {CallOf(args) : args \in Arguments}
  /\ \/ ~Usable(stored) /\ GoOn("login") /\ NotStarted
     \/ Usable(stored) /\ GoOn("curl") /\ \E a \in AnswersTo(call') : StartCurl(call'.safe, a)
  /\ UNCHANGED <<stored, fresh, shown>>

\* the browser login before the first request
Login ==
  /\ curlAt = "login"
  /\ \/ /\ stored' = NewSession
        /\ fresh' = TRUE
        /\ GoOn("curl") /\ \E a \in AnswersTo(call) : StartCurl(FALSE, a)
     \/ EndCurl("failed") /\ NotStarted /\ UNCHANGED <<stored, fresh>>
  /\ UNCHANGED <<call, shown>>

\* A consent error is recognised in output that is nothing but it, or ends with
\* it after a blank line
ConsentIn(pieces) ==
  /\ answer.status = "consent" /\ BodyShown > 0
  /\ ~Has("write-out")
  /\ Earlier > 0 => Has("include")
  /\ pieces = Between(0, Length)

\* session_rejected, and the same for the head that is there by now
Rejects(head) == head = "rejected" \/ (head = "consent" /\ ~answer.header)

\* what is held when a head is there is not written
ReadForgetful(n) ==
  /\ curlAt = "curl"
  /\ n \in 1..(put - got)
  /\ got' = got + n
  /\ LET chunk == Between(got, got + n)
         all == held \o chunk
         next == IF state = "undecided" /\ Known # "none"
                   THEN IF Rejects(Known) THEN "withhold" ELSE "forward" ELSE state
     IN CASE state = "forward" \/ next = "forward" ->
               shown' = shown \o chunk /\ held' = <<>> /\ state' = "forward"
          [] state = "discard" -> UNCHANGED <<shown, held, state>>
          [] next = "withhold" /\ Len(all) > Limit ->
               state' = "discard" /\ held' = <<>> /\ UNCHANGED shown
          [] OTHER -> state' = next /\ held' = all /\ UNCHANGED shown
  /\ UNCHANGED <<curlAt, call, stored, fresh, answer, lines, put, exited, sends, ending>>

\* forward_output: one turn of the loop
Read(n) ==
  /\ curlAt = "curl"
  /\ n \in 1..(put - got)
  /\ got' = got + n
  /\ LET chunk == Between(got, got + n)
         all == held \o chunk
         next == IF state = "undecided" /\ Known # "none"
                   THEN IF Rejects(Known) THEN "withhold" ELSE "forward" ELSE state
     IN CASE state = "forward" -> shown' = shown \o chunk /\ UNCHANGED <<state, held>>
          [] state = "discard" -> UNCHANGED <<shown, held, state>>
          [] state = "undecided" /\ next = "forward" ->
               shown' = shown \o all /\ held' = <<>> /\ state' = "forward"
          [] next = "withhold" /\ Len(all) > Limit ->
               state' = "discard" /\ held' = <<>> /\ UNCHANGED shown
          [] OTHER -> state' = next /\ held' = all /\ UNCHANGED shown
  /\ UNCHANGED <<curlAt, call, stored, fresh, answer, lines, put, exited, sends, ending>>

\* The end of the output: what is still held is shown unless the session was
\* turned down and it is no consent error
EndOfOutput ==
  /\ curlAt = "curl"
  /\ exited /\ got = put
  /\ shown' = IF state \in {"undecided", "withhold"} /\ (~Rejects(Known) \/ ConsentIn(held))
                THEN shown \o held ELSE shown
  /\ GoOn("judge")
  /\ UNCHANGED <<call, stored, fresh, answer, lines, put, got, exited, state, held,
                 sends>>

\* only the header counts
ConsentHeader(filed) == Known = "consent" /\ answer.header

\* Consent is asked for in the header, in what was captured of the output, or in
\* the file curl has just written, if that was all of it
ConsentAsked(filed) ==
  /\ Known = "consent"
  /\ \/ answer.header
     \/ got <= Limit /\ ConsentIn(Between(0, got))
     \/ filed /\ Has("output") /\ ~Has("fail") /\ answer.body > 0

Judge(filed) ==
  /\ curlAt = "judge"
  /\ LET consent == ConsentAsked(filed)
     IN CASE consent -> EndCurl("consent")
          [] ~consent /\ Rejects(Known) /\ fresh -> EndCurl("rejected")
          [] ~consent /\ Rejects(Known) /\ ~fresh -> GoOn("forget")
          [] OTHER -> EndCurl("exit")
  /\ NotStarted
  /\ UNCHANGED <<call, stored, fresh, shown>>

\* the session the app has turned down is forgotten
ForgetSession ==
  /\ curlAt = "forget"
  /\ \/ stored' = NoSession /\ GoOn("again")
     \/ EndCurl("failed") /\ UNCHANGED stored
  /\ NotStarted
  /\ UNCHANGED <<call, fresh, shown>>

\* the new login; only a request without effects is sent again
Again ==
  /\ curlAt = "again"
  /\ \/ /\ stored' = NewSession
        /\ fresh' = TRUE
        /\ \/ call.safe /\ GoOn("curl") /\ \E a \in AnswersTo(call) : StartCurl(FALSE, a)
           \/ ~call.safe /\ EndCurl("rerun") /\ NotStarted
     \/ EndCurl("failed") /\ NotStarted /\ UNCHANGED <<stored, fresh>>
  /\ UNCHANGED <<call, shown>>

CurlNext ==
  \/ HeaderLine \/ Put \/ Exit
  \/ Refuse
  \/ BeginCurl
  \/ Login
  \/ Again
  \/ \E n \in 1..(MaxBody + 6) : Read(n)
  \/ EndOfOutput
  \/ \E filed \in BOOLEAN : Judge(filed)
  \/ ForgetSession

CurlSpec == CurlInit /\ [][CurlNext]_curlVars

-----------------------------------------------------------------------------
(***************************************************************************)
(* Properties                                                              *)
(***************************************************************************)

Ended == ending \in {"exit", "consent", "rejected", "rerun"}

\* Every byte of the last answer, and no byte of an answer that led to another
\* request, is shown, once and in order.  Three cases are not kept by the code:
\* with -i a proxy's answer to CONNECT is taken for the app's; with --retry the
\* answer to curl's first attempt is, so that a rejection that follows is shown and
\* an answer that follows a rejection may be dropped; and -w with -o holds back
\* its text when the file asks for consent.
ShownOnce ==
  Ended /\ ~Has("retry") /\ ~(Has("proxy") /\ Has("include"))
        /\ ~(Has("write-out") /\ Has("output")) =>
    shown = Between(0, put)

\* Whoever must consent is told so and keeps the session: an answer that asks
\* for consent, in its header or in a body that is all of the output and within
\* the limit, is never taken for the end of the session.  And what curl would
\* send with an effect is given to curl once; --retry is the user's own wish.
ResentRightly ==
  /\ curlAt \in {"forget", "again"} \/ ending \in {"exit", "rejected", "rerun"} =>
       ~(Known = "consent" /\ (answer.header \/ (got <= Limit /\ ConsentIn(Between(0, got)))))
  /\ call.sends = "unsafe" => sends <= 1
=============================================================================
