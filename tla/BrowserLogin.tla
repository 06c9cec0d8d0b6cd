---------------------------- MODULE BrowserLogin ----------------------------
(***************************************************************************)
(* One browser login: `bl auth login' or the hosted-app login of `bl curl' *)
(* (auth_login.rs of the CLI and of the builderlab-auth crate).  The main  *)
(* thread opens the browser and waits, for ten minutes, for what another   *)
(* thread hears on a loopback port; then it exchanges the code for a       *)
(* session, checks it, and stores it.                                      *)
(*                                                                         *)
(* Whatever runs on the machine may send a request to the port: a tab of   *)
(* an earlier attempt, a probe for an icon, a reload.  Only the browser    *)
(* that was sent to this attempt's URL knows its `state'; the servers, not *)
(* part of the repository, exchange a code for the holder of the attempt's *)
(* verifier alone.                                                         *)
(***************************************************************************)
EXTENDS FiniteSets

VARIABLES
  main,      \* what the main thread does next
  login,     \* which login: its type, and whether output is JSON
  listener,  \* what the listening thread does next
  request,   \* the request it has in hand
  channel,   \* what it has sent to the main thread
  code,      \* what the main thread has received
  session,   \* what the exchange has returned
  keys,      \* the stored session
  page,      \* history: what the browser was last shown for this attempt
  broken,    \* history: a request could not be read, or its answer not be written
  outcome

loginVars == <<main, login, listener, request, channel, code, session, keys, page, broken,
               outcome>>

Logins == [type : {"cli", "cli_hosted"}, json : BOOLEAN]

\* A request to the port: its path, its `state' parameters, `error', and its
\* `code' parameters; a target that does not parse as a URL
Callbacks == [path : {"callback"}, state : {"own", "other", "none", "twice"},
              error : BOOLEAN, codes : {"none", "blank", "one", "two"}]
Elsewhere == [path |-> "elsewhere"]
Garbled == [path |-> "garbled"]
NoRequest == [path |-> "none"]

\* what `/v1/auth/login/exchange' and `/v1/auth/me' tell of a session
NewSessions == [of : {"own", "other"}, workspace : BOOLEAN, domain : {"this", "other"},
                cookie : BOOLEAN]
NoSession == [of |-> "nobody"]

LoginTypeOK ==
  /\ main \in {"stored", "verify", "browse", "wait", "exchange", "check", "end"}
  /\ login \in Logins
  /\ listener \in {"off", "listening", "answer", "ended"}
  /\ request \in Callbacks \cup {Elsewhere, Garbled, NoRequest}
  /\ channel \in {"empty", "own", "other", "error"}
  /\ code \in {"none", "own", "other"}
  /\ session \in NewSessions \cup {NoSession}
  /\ keys \in {"none", "stale", "good", "new"}
  /\ page \in {"none", "success", "failure"}
  /\ broken \in BOOLEAN
  /\ outcome \in {"running", "stored", "signed in", "failed"}

\* `bl curl' starts a login when its session is of no use; `bl auth login' looks
\* at what is stored
LoginInit ==
  /\ login \in Logins
  /\ main = IF login.type = "cli" THEN "stored" ELSE "browse"
  /\ listener = "off"
  /\ request = NoRequest
  /\ channel = "empty"
  /\ code = "none"
  /\ session = NoSession
  /\ keys \in {"none", "stale", "good"}
  /\ page = "none"
  /\ broken = FALSE
  /\ outcome = "running"

Finish(value) == main' = "end" /\ outcome' = value
Continue(label) == main' = label /\ UNCHANGED outcome

-----------------------------------------------------------------------------
(***************************************************************************)
(* The main thread                                                         *)
(***************************************************************************)

\* the entry is read; a storage that cannot be read ends the command
LookUp ==
  /\ main = "stored"
  /\ \/ Continue(IF keys = "none" THEN "browse" ELSE "verify")
     \/ Finish("failed")
  /\ UNCHANGED <<login, listener, request, channel, code, session, keys, page, broken>>

\* A session that is still good is used, if it has a workspace; only 401 and 403
\* lead to a new login
VerifyStored ==
  /\ main = "verify"
  /\ \/ keys = "good" /\ Finish("stored")
     \/ keys = "stale" /\ Continue("browse")
     \/ Finish("failed")
  /\ UNCHANGED <<login, listener, request, channel, code, session, keys, page, broken>>

\* The port is opened before the browser; with JSON output nobody could follow
\* the URL by hand
OpenBrowser ==
  /\ main = "browse"
  /\ \/ listener' = "listening" /\ Continue("wait")
     \/ listener' = "listening" /\ login.type = "cli" /\ login.json /\ Finish("failed")
     \/ Finish("failed") /\ UNCHANGED listener
  /\ UNCHANGED <<login, request, channel, code, session, keys, page, broken>>

\* recv without a timeout
NoTimeOut == FALSE /\ UNCHANGED loginVars

TimeOut ==
  /\ main = "wait"
  /\ channel = "empty"
  /\ Finish("failed")
  /\ UNCHANGED <<login, listener, request, channel, code, session, keys, page, broken>>

\* what the other thread has sent, also when it ended with an error
Receive ==
  /\ main = "wait"
  /\ channel # "empty"
  /\ IF channel = "error"
       THEN Finish("failed") /\ UNCHANGED code
       ELSE Continue("exchange") /\ code' = channel
  /\ UNCHANGED <<login, listener, request, channel, session, keys, page, broken>>

\* The server holds the code to the attempt's verifier
ExchangeCode ==
  /\ main = "exchange"
  /\ \/ /\ code = "own"
        /\ \E s \in NewSessions : s.of = "own" /\ session' = s
        /\ Continue("check")
     \/ Finish("failed") /\ UNCHANGED session
  /\ UNCHANGED <<login, listener, request, channel, code, keys, page, broken>>

\* A CLI session that the server accepts and that has a workspace; a hosted-app
\* session for this very domain that can be sent as a cookie
Acceptable ==
  IF login.type = "cli" THEN session.workspace
                        ELSE session.domain = "this" /\ session.cookie

CheckAndStore ==
  /\ main = "check"
  /\ \/ Acceptable /\ keys' = "new" /\ Finish("signed in")
     \/ Finish("failed") /\ UNCHANGED keys
  /\ UNCHANGED <<login, listener, request, channel, code, session, page, broken>>

-----------------------------------------------------------------------------
(***************************************************************************)
(* The listening thread, and those who send it requests                    *)
(***************************************************************************)

\* a request arrives; this attempt's `state' is in none that was not sent by the
\* browser on its way through the login
Arrives(r) ==
  /\ listener = "listening"
  /\ request' = r
  /\ listener' = "answer"
  /\ UNCHANGED <<main, login, channel, code, session, keys, page, broken, outcome>>

Send(value) == channel' = value /\ listener' = "ended"

\* any callback
AnyState(r) == r \in Callbacks

OwnState(r) == r \in Callbacks /\ r.state = "own"

\* callback_exchange_code
Code(r) ==
  IF r.error \/ r.codes # "one" THEN "error"
  ELSE IF r.state = "own" THEN "own" ELSE "other"

\* A request that is not this attempt's callback is answered and forgotten; an
\* unreadable one, and an answer that cannot be written, end the listening
Answer ==
  /\ listener = "answer"
  /\ \/ /\ request # Garbled /\ ~OwnState(request)
        /\ listener' = "listening"
        /\ UNCHANGED <<channel, page, broken>>
     \/ /\ OwnState(request)
        /\ Send(Code(request))
        /\ page' = IF Code(request) = "error" THEN "failure" ELSE "success"
        /\ UNCHANGED broken
     \/ /\ Send("error")
        /\ broken' = TRUE
        /\ UNCHANGED page
  /\ UNCHANGED <<main, login, request, code, session, keys, outcome>>

MainStep == LookUp \/ VerifyStored \/ OpenBrowser \/ Receive \/ ExchangeCode \/ CheckAndStore

LoginNext ==
  \/ LookUp
  \/ VerifyStored
  \/ OpenBrowser
  \/ TimeOut
  \/ Receive
  \/ ExchangeCode
  \/ CheckAndStore
  \/ \E r \in Callbacks \cup {Elsewhere, Garbled} : Arrives(r)
  \/ Answer

\* The main thread runs, time passes, and every request to the network has a
\* timeout of thirty seconds.  Nothing is assumed of the browser.
LoginSpec ==
  LoginInit /\ [][LoginNext]_loginVars /\ WF_loginVars(MainStep) /\ WF_loginVars(TimeOut)

-----------------------------------------------------------------------------
(***************************************************************************)
(* Properties                                                              *)
(***************************************************************************)

\* A login ends, whatever is or is not sent to the port.
LoginEnds == <>(main = "end")

\* Nobody but the browser on its way through this login makes it end before the
\* ten minutes are over, as long as requests can be read and answered; and the
\* session that is stored is the one issued for this attempt's code, which has a
\* workspace or belongs to the app's domain.
OwnLoginOnly ==
  /\ channel # "empty" /\ ~broken => request \in Callbacks /\ request.state = "own"
  /\ code # "none" => code = "own" /\ page = "success"
  /\ keys = "new" => /\ session.of = "own"
                     /\ login.type = "cli" => session.workspace
                     /\ login.type = "cli_hosted" => session.domain = "this" /\ session.cookie
  /\ outcome = "signed in" <=> keys = "new"
=============================================================================
