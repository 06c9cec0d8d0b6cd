---------------------------- MODULE AuthSessions ----------------------------
(***************************************************************************)
(* `bl auth login', `bl auth logout', `bl workspace switch' and `bl curl'  *)
(* on the file that holds the session credentials of all environments      *)
(* (FileSessionCredentialStorage).  Every command reads the whole file,    *)
(* changes one entry and writes the file in place, without a lock.         *)
(*                                                                         *)
(* An environment is a profile and a server.  It has a CLI session and a   *)
(* hosted-app session for `bl curl'; the code goes through its two         *)
(* hosted-app domains one after the other, the model has one of them.      *)
(*                                                                         *)
(* The servers are not part of the repository.  Of them the model has what *)
(* the client counts on: a credential is issued once, for one use; a       *)
(* switch may replace it and end the old one; a logout ends it; it may end *)
(* by itself.  A hosted app may turn down even a good session.             *)
(***************************************************************************)
EXTENDS Integers, FiniteSets

CONSTANTS
  Runs,    \* commands, which may run at once
  Envs,    \* environments
  Creds,   \* credentials the servers may issue: the bound on logins
  NoCred,  \* no credential
  NoKey,   \* a credential not issued yet was issued for nothing
  Torn     \* content of a file that does not parse: cut off, or two overlaid

Keys == Envs \X {"cli", "hosted"}
Contents == [Keys -> Creds \cup {NoCred}]

ASSUME NoCredAssumption == NoCred \notin Creds
ASSUME NoKeyAssumption == NoKey \notin Keys
ASSUME TornAssumption == Torn \notin Contents

VARIABLES
  file,      \* what is in the credential file
  issued,    \* what each credential was issued for
  live,      \* the credentials the servers accept
  at,        \* what each run does next
  job,       \* its command
  kind,      \* which of the environment's two sessions it is at
  held,      \* the credential it has in hand
  draft,     \* what it is about to write
  sends,     \* how often it has sent the user's request
  warned,    \* a logout: something went wrong
  result,    \* what it reports
  told,      \* history: sessions that may be stored though dead, and why is known:
             \* a command reported trouble, or the session ran out
  troubled,  \* history: environments where a session may have been left behind
  shared,    \* history: environments that had two commands at once
  overlap    \* history: a run wrote the file between another's read and write

histories == <<told, troubled, shared, overlap>>
vars == <<file, issued, live, at, job, kind, held, draft, sends, warned, result, histories>>

Jobs == [command : {"login", "switch", "logout"}, env : Envs]
          \cup [command : {"curl"}, env : Envs, safe : BOOLEAN]

NoJob == [command |-> "none"]

Labels == {"idle", "get", "verify", "rotate", "revoke", "browser", "store", "drop",
           "open", "fill", "try", "send", "end"}

Results == {"running", "done", "answered", "rerun", "warned", "advised", "failed", "crashed"}

TypeOK ==
  /\ file \in Contents \cup {Torn}
  /\ issued \in [Creds -> Keys \cup {NoKey}]
  /\ live \subseteq {c \in Creds : issued[c] # NoKey}
  /\ at \in [Runs -> Labels]
  /\ job \in [Runs -> Jobs \cup {NoJob}]
  /\ kind \in [Runs -> {"cli", "hosted"}]
  /\ held \in [Runs -> Creds \cup {NoCred}]
  /\ draft \in [Runs -> Contents]
  /\ sends \in [Runs -> 0..2]
  /\ warned \in [Runs -> BOOLEAN]
  /\ result \in [Runs -> Results]
  /\ told \subseteq Keys /\ troubled \subseteq Envs /\ shared \subseteq Envs
  /\ overlap \in BOOLEAN
  /\ \A r \in Runs : /\ at[r] = "end" <=> result[r] # "running"
                     /\ at[r] = "idle" <=> job[r] = NoJob

Empty == [k \in Keys |-> NoCred]

\* The file may hold sessions of earlier logins, each under its own key
Init ==
  /\ file \in {f \in Contents : \A k, l \in Keys : f[k] = f[l] => k = l \/ f[k] = NoCred}
  /\ issued = [c \in Creds |-> IF \E k \in Keys : file[k] = c
                                 THEN CHOOSE k \in Keys : file[k] = c ELSE NoKey]
  /\ live = {c \in Creds : issued[c] # NoKey}
  /\ at = [r \in Runs |-> "idle"]
  /\ job = [r \in Runs |-> NoJob]
  /\ kind = [r \in Runs |-> "cli"]
  /\ held = [r \in Runs |-> NoCred]
  /\ draft = [r \in Runs |-> Empty]
  /\ sends = [r \in Runs |-> 0]
  /\ warned = [r \in Runs |-> FALSE]
  /\ result = [r \in Runs |-> "running"]
  /\ told = {} /\ troubled = {} /\ shared = {}
  /\ overlap = FALSE

-----------------------------------------------------------------------------
(***************************************************************************)
(* A run's control                                                         *)
(***************************************************************************)

Running(r) == at[r] \notin {"idle", "end"}

Command(r) == job[r].command

\* what the run wants a credential for
Purpose(r) == <<job[r].env, kind[r]>>

\* one key for each server
ServerKey(r) == <<job[r].env, "cli">>

\* hosted sessions have a key of their own, beside the CLI session's
StorageKey(r) == <<job[r].env, kind[r]>>

Goto(r, label) ==
  /\ at' = [at EXCEPT ![r] = label]
  /\ UNCHANGED <<result, told, troubled>>

\* Results after which the stored session is as the user was led to think
Plain == {"done", "answered", "rerun"}

\* A login that ends well vouches for the session it stored, or for the one it
\* found, if that is still the one stored.
Vouches(r) == at[r] = "verify" => file # Torn /\ file[Purpose(r)] = held[r]

End(r, res) ==
  /\ at' = [at EXCEPT ![r] = "end"]
  /\ result' = [result EXCEPT ![r] = res]
  /\ troubled' = IF res \in Plain THEN troubled ELSE troubled \cup {job[r].env}
  /\ told' = IF res \notin Plain THEN told \cup {k \in Keys : k[1] = job[r].env}
             ELSE IF Command(r) = "login" /\ Vouches(r) THEN told \ {Purpose(r)}
             ELSE told

Begin(r, j) ==
  /\ at[r] = "idle"
  /\ Goto(r, "get")
  /\ job' = [job EXCEPT ![r] = j]
  /\ kind' = [kind EXCEPT ![r] = IF j.command = "curl" THEN "hosted" ELSE "cli"]
  /\ shared' = IF \E s \in Runs : Running(s) /\ job[s].env = j.env
                 THEN shared \cup {j.env} ELSE shared
  /\ UNCHANGED <<file, issued, live, held, draft, sends, warned, overlap>>

\* After a login of `bl curl': a request that may have had an effect when it was
\* turned down is not sent again
Resend(r) ==
  IF sends[r] = 0 \/ job[r].safe THEN Goto(r, "send") ELSE End(r, "rerun")

\* a logout of the CLI session alone
LogoutEnds(r) == End(r, IF warned'[r] THEN "warned" ELSE "done")

\* A logout does the hosted session after the CLI session.  It also removes the
\* cache of an older version, which the model leaves out.
LogoutGoesOn(r) ==
  IF kind[r] = "cli" THEN Goto(r, "get")
  ELSE End(r, IF warned'[r] THEN "warned" ELSE "done")

\* What follows when the file has been changed as the command wanted
Written(r) ==
  /\ CASE Command(r) = "login" -> End(r, "done")
       [] Command(r) = "switch" ->
            \E res \in {"done", "failed"} : End(r, res)    \* failed: no workspace named
       [] Command(r) = "curl" ->
            IF at[r] = "drop" \/ draft[r][StorageKey(r)] = NoCred
              THEN Goto(r, "browser") ELSE Resend(r)
       [] Command(r) = "logout" -> LogoutGoesOn(r)
  /\ kind' = IF Command(r) = "logout" THEN [kind EXCEPT ![r] = "hosted"] ELSE kind

\* with no word of it from a logout
FailsQuietly(r) ==
  IF Command(r) = "logout" THEN UNCHANGED warned /\ Written(r)
  ELSE /\ End(r, IF Command(r) = "switch" THEN "advised" ELSE "failed")
       /\ UNCHANGED <<kind, warned>>

\* What follows when the file could not be read or written
StorageFails(r) ==
  IF Command(r) = "logout" THEN warned' = [warned EXCEPT ![r] = TRUE] /\ Written(r)
  ELSE /\ End(r, IF Command(r) = "switch" THEN "advised" ELSE "failed")
       /\ UNCHANGED <<kind, warned>>

Crash(r) ==
  /\ Running(r)
  /\ End(r, "crashed")
  /\ UNCHANGED <<file, issued, live, job, kind, held, draft, sends, warned, shared, overlap>>

-----------------------------------------------------------------------------
(***************************************************************************)
(* The file                                                                *)
(***************************************************************************)

Found(r) ==
  CASE Command(r) = "login" -> Goto(r, IF held'[r] = NoCred THEN "browser" ELSE "verify")
    [] Command(r) = "switch" -> IF held'[r] = NoCred THEN End(r, "failed") ELSE Goto(r, "rotate")
    [] Command(r) = "logout" -> Goto(r, IF held'[r] = NoCred THEN "drop" ELSE "revoke")
    [] Command(r) = "curl" ->
         \/ held'[r] # NoCred /\ Goto(r, "try")
         \/ held'[r] \notin live /\ Goto(r, "browser")   \* none, or seen to have run out

Get(r) ==
  /\ at[r] = "get"
  /\ IF file # Torn
       THEN held' = [held EXCEPT ![r] = file[StorageKey(r)]] /\ Found(r) /\ UNCHANGED warned
       ELSE /\ held' = [held EXCEPT ![r] = NoCred]
            /\ IF Command(r) = "logout"
                 THEN Goto(r, "drop") /\ warned' = [warned EXCEPT ![r] = TRUE]
                 ELSE End(r, "failed") /\ UNCHANGED warned
  /\ UNCHANGED <<file, issued, live, job, kind, draft, sends, shared, overlap>>

\* as if the other entries were not read before the file is written
StoreAlone(r) ==
  /\ at[r] = "store"
  /\ IF file = Torn THEN StorageFails(r) /\ UNCHANGED draft
     ELSE /\ draft' = [draft EXCEPT ![r] = [Empty EXCEPT ![StorageKey(r)] = held[r]]]
          /\ Goto(r, "open")
          /\ UNCHANGED <<kind, warned>>
  /\ UNCHANGED <<file, issued, live, job, held, sends, shared, overlap>>

\* The first half of storing: the file is read again, whatever was read before
Store(r) ==
  /\ at[r] = "store"
  /\ IF file = Torn THEN StorageFails(r) /\ UNCHANGED draft
     ELSE /\ draft' = [draft EXCEPT ![r] = [file EXCEPT ![StorageKey(r)] = held[r]]]
          /\ Goto(r, "open")
          /\ UNCHANGED <<kind, warned>>
  /\ UNCHANGED <<file, issued, live, job, held, sends, shared, overlap>>

\* The first half of removing; an entry that is not there is not written away
Drop(r) ==
  /\ at[r] = "drop"
  /\ IF file = Torn THEN StorageFails(r) /\ UNCHANGED draft
     ELSE IF file[StorageKey(r)] = NoCred THEN UNCHANGED <<draft, warned>> /\ Written(r)
     ELSE /\ draft' = [draft EXCEPT ![r] = [file EXCEPT ![StorageKey(r)] = NoCred]]
          /\ Goto(r, "open")
          /\ UNCHANGED <<kind, warned>>
  /\ UNCHANGED <<file, issued, live, job, held, sends, shared, overlap>>

\* fs::write cuts the file off first
Open(r) ==
  /\ at[r] = "open"
  /\ \/ /\ file' = Torn
        /\ overlap' = (overlap \/ \E s \in Runs \ {r} : at[s] \in {"open", "fill"})
        /\ Goto(r, "fill")
        /\ UNCHANGED <<kind, warned>>
     \/ StorageFails(r) /\ UNCHANGED <<file, overlap>>
  /\ UNCHANGED <<issued, live, job, held, draft, sends, shared>>

\* and writes from its start: over what another run wrote in the meantime, of
\* which the end is left when that was longer.  An error leaves what there was,
\* or a part, or, when it is about the permissions, the whole.
Fill(r) ==
  /\ at[r] = "fill"
  /\ \/ /\ file' \in {draft[r]} \cup (IF file = Torn THEN {} ELSE {Torn})
        /\ UNCHANGED warned
        /\ Written(r)
     \/ /\ file' \in {draft[r], file, Torn}
        /\ StorageFails(r)
  /\ UNCHANGED <<issued, live, job, held, draft, sends, shared, overlap>>

-----------------------------------------------------------------------------
(***************************************************************************)
(* The servers                                                             *)
(***************************************************************************)

Issue(c, key) ==
  /\ issued[c] = NoKey
  /\ issued' = [issued EXCEPT ![c] = key]

\* A session lasts longer than a run takes to store it
Expire(c) ==
  /\ c \in live
  /\ \A r \in Runs : at[r] \in {"store", "open", "fill"} => held[r] # c
  /\ live' = live \ {c}
  /\ told' = told \cup {issued[c]}
  /\ UNCHANGED <<file, issued, at, job, kind, held, draft, sends, warned, result,
                 troubled, shared, overlap>>

\* a login that looks at no stored session
VerifyNothing(r) ==
  /\ at[r] = "verify"
  /\ Goto(r, "browser")
  /\ UNCHANGED <<file, issued, live, job, kind, held, draft, sends, warned, shared, overlap>>

\* A stored session that is good ends the login
Verify(r) ==
  /\ at[r] = "verify"
  /\ \/ End(r, "failed")
     \/ held[r] \in live /\ End(r, "done")
     \/ held[r] \notin live /\ Goto(r, "browser")
  /\ UNCHANGED <<file, issued, live, job, kind, held, draft, sends, warned, shared, overlap>>

\* The browser's code is exchanged for a credential and that is tried, or looked
\* at.  No code in ten minutes, no answer, one that is no good: the login fails.
Browser(r) ==
  /\ at[r] = "browser"
  /\ \/ End(r, "failed") /\ UNCHANGED <<issued, live, held>>
     \/ \E c \in Creds :
          /\ Issue(c, Purpose(r))
          /\ live' = live \cup {c}
          /\ \/ held' = [held EXCEPT ![r] = c] /\ Goto(r, "store")
             \/ End(r, "failed") /\ UNCHANGED held
  /\ UNCHANGED <<file, job, kind, draft, sends, warned, shared, overlap>>

\* The workspace is active already, or the credential is replaced; the answer
\* may be lost, or hold no credential that can be used
Rotate(r) ==
  /\ at[r] = "rotate"
  /\ \/ End(r, "failed") /\ UNCHANGED <<issued, live, held>>
     \/ held[r] \in live /\ End(r, "done") /\ UNCHANGED <<issued, live, held>>
     \/ \E c \in Creds :
          /\ held[r] \in live
          /\ Issue(c, Purpose(r))
          /\ live' = (live \ {held[r]}) \cup {c}
          /\ \/ held' = [held EXCEPT ![r] = c] /\ Goto(r, "store")
             \/ \E res \in {"failed", "advised"} : End(r, res) /\ UNCHANGED held
  /\ UNCHANGED <<file, job, kind, draft, sends, warned, shared, overlap>>

\* A logout goes on whatever the server says.  That the session had ended
\* before is no trouble.
Revoke(r) ==
  /\ at[r] = "revoke"
  /\ Goto(r, "drop")
  /\ \/ live' = live \ {held[r]} /\ UNCHANGED warned
     \/ live' \in {live, live \ {held[r]}} /\ warned' = [warned EXCEPT ![r] = TRUE]
  /\ UNCHANGED <<file, issued, job, kind, held, draft, sends, shared, overlap>>

\* The request with a stored session: when the app turns that down, it is
\* forgotten, good or not, and there is a login
Try(r) ==
  /\ at[r] = "try"
  /\ sends' = [sends EXCEPT ![r] = @ + 1]
  /\ \/ End(r, "answered")
     \/ /\ at' = [at EXCEPT ![r] = "drop"]
        /\ troubled' = IF held[r] \in live THEN troubled \cup {job[r].env} ELSE troubled
        /\ UNCHANGED <<result, told>>
  /\ UNCHANGED <<file, issued, live, job, kind, held, draft, warned, shared, overlap>>

\* The request with the session of this run's own login: the answer is the last
Send(r) ==
  /\ at[r] = "send"
  /\ sends' = [sends EXCEPT ![r] = @ + 1]
  /\ End(r, "answered")
  /\ UNCHANGED <<file, issued, live, job, kind, held, draft, warned, shared, overlap>>

Finished == (\A r \in Runs : at[r] = "end") /\ UNCHANGED vars

Next ==
  \/ \E r \in Runs :
       \/ \E j \in Jobs : Begin(r, j)
       \/ Get(r) \/ Store(r) \/ Drop(r) \/ Open(r) \/ Fill(r)
       \/ Verify(r) \/ Browser(r) \/ Rotate(r) \/ Revoke(r) \/ Try(r) \/ Send(r)
       \/ Crash(r)
  \/ \E c \in Creds : Expire(c)
  \/ Finished

Spec == Init /\ [][Next]_vars

-----------------------------------------------------------------------------
(***************************************************************************)
(* Properties                                                              *)
(***************************************************************************)

\* What a run sends to a server, that server issued for that use, and nothing
\* else is ever stored under its key (SessionStorageKey): also when commands of
\* several environments rewrite the one file at once.
RightServer ==
  /\ file # Torn => \A k \in Keys : file[k] # NoCred => issued[file[k]] = k
  /\ \A r \in Runs :
       at[r] \in {"verify", "rotate", "revoke", "store", "try", "send"} =>
         held[r] # NoCred /\ issued[held[r]] = Purpose(r)

\* While nothing is at work on an environment, its stored sessions are good,
\* unless a command has said that something went wrong, or the session ran out:
\* no command says all is well and leaves a session that was replaced or
\* revoked.  (Where two commands rewrote the file at once, one may bring back
\* what the other replaced.)
StoredIsLive ==
  ~overlap /\ file # Torn =>
    \A k \in Keys :
      \/ file[k] \in live \cup {NoCred}
      \/ k \in told
      \/ \E r \in Runs : Running(r) /\ job[r].env = k[1]

\* No session is left on a server that neither the file nor a running command
\* knows, when every command reported success and none ran beside another of
\* the environment: what a login, a switch or `bl curl' replaces had ended.
NoOrphans ==
  ~overlap /\ file # Torn =>
    \A c \in live :
      \/ file[issued[c]] = c
      \/ \E r \in Runs : /\ Running(r) /\ job[r].env = issued[c][1]
                         /\ held[r] = c \/ warned[r]
      \/ issued[c][1] \in troubled \cup shared

\* A logout without warnings leaves no session of its environment, neither in
\* the file nor on the servers: CLI or hosted, of this command or an earlier
\* one, under the same conditions.
LogoutLeavesNothing ==
  [][\A r \in Runs :
       /\ Command(r) = "logout" /\ result[r] = "running" /\ result'[r] = "done"
       /\ job[r].env \notin troubled \cup shared /\ ~overlap /\ file' # Torn
       => /\ \A k \in Keys : k[1] = job[r].env => file'[k] = NoCred
          /\ \A c \in live' : issued'[c][1] # job[r].env]_vars

\* `bl curl' sends a request that may have an effect once, any request twice at
\* most, and the second time with the session its own login stored after the
\* first was turned down.
ResentOnlyIfSafe ==
  [][\A r \in Runs : sends'[r] > sends[r] /\ sends[r] > 0 =>
       /\ sends[r] = 1
       /\ job[r].safe
       /\ held[r] = draft[r][StorageKey(r)]]_vars

\* The error a switch ends with when the new credential could not be stored says
\* "run `bl auth login` to recover" (workspace.rs:183), and `bl auth login'
\* begins by reading the file: the file can be read then.
RecoveryIsPossible ==
  \A r \in Runs : result[r] = "advised" =>
    file # Torn \/ \E s \in Runs : at[s] = "fill"

-----------------------------------------------------------------------------
(***************************************************************************)
(* The abstract specification                                              *)
(***************************************************************************)

\* A write counts from the moment the file is cut off, for the one that writes
\* it; two that overlap may lose one another's entries.
Entries ==
  IF overlap THEN Torn
  ELSE IF \E r \in Runs : at[r] = "fill" THEN draft[CHOOSE r \in Runs : at[r] = "fill"]
  ELSE file

Working == {job[r].env : r \in {r \in Runs : Running(r)}}

Kept == INSTANCE SessionStore WITH entries <- Entries, working <- Working, Lost <- Torn

\* Commands of any environments, running at once, crashing anywhere, keep one map of
\* sessions: each changes the entry it is about and puts back every other as it was,
\* though it rewrites the whole file from what it read (write_entries).  Only two
\* rewrites that overlap, or one that fails or is killed, may lose the map.
OneEntryAtATime == Kept!Spec
=============================================================================
