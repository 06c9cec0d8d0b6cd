------------------------- MODULE AuthSessionsProofs -------------------------
(***************************************************************************)
(* Theorems about AuthSessions, for any commands, environments and         *)
(* credentials: type correctness, that credentials stay with the server    *)
(* and the use they were issued for, that a request that may have an       *)
(* effect is sent once; then that what the credential file holds is good,  *)
(* no session is forgotten on a server, and a logout leaves nothing        *)
(* behind; and last that the file, which every command writes whole,       *)
(* changes as a map does, one entry at a time (SessionStore).              *)
(***************************************************************************)
EXTENDS AuthSessions, TLAPS

\* every entry is a credential issued for its key
Right(f) == \A k \in Keys : f[k] # NoCred => issued[f[k]] = k

\* What the label a run is at says of the run
Placed(r) ==
  /\ at[r] = "verify" => Command(r) = "login"
  /\ at[r] = "rotate" => Command(r) = "switch"
  /\ at[r] = "revoke" => Command(r) = "logout"
  /\ at[r] \in {"try", "send"} => Command(r) = "curl"
  /\ at[r] = "browser" => Command(r) \in {"login", "curl"}
  /\ at[r] = "store" => Command(r) \in {"login", "switch", "curl"}
  /\ at[r] = "drop" => Command(r) \in {"logout", "curl"}

\* how often it has sent the request, and whether it may again
Counted(r) ==
  /\ at[r] # "end" => sends[r] \in 0..1
  /\ at[r] = "idle" \/ Command(r) # "curl" \/ at[r] \in {"get", "try"} => sends[r] = 0
  /\ at[r] = "send" => sends[r] = 0 \/ job[r].safe

\* what it has in hand and is about to write
Holds(r) ==
  /\ at[r] \in {"verify", "rotate", "revoke", "store", "try", "send"} =>
       held[r] # NoCred /\ issued[held[r]] = Purpose(r)
  /\ at[r] \in {"open", "fill"} =>
       /\ Right(draft[r])
       /\ draft[r][StorageKey(r)] # NoCred => held[r] = draft[r][StorageKey(r)]
  /\ at[r] = "send" => held[r] = draft[r][StorageKey(r)]

Own(r) == Placed(r) /\ Counted(r) /\ Holds(r)

IInv ==
  /\ TypeOK
  /\ file # Torn => Right(file)
  /\ \A r \in Runs : Own(r)

-----------------------------------------------------------------------------
(***************************************************************************)
(* A run's control: Goto and End move it to a label, with a result at the  *)
(* end.                                                                    *)
(***************************************************************************)

Moves(r, label) ==
  /\ at' = [at EXCEPT ![r] = label]
  /\ result' \in [Runs -> Results]
  /\ label = "end" <=> result'[r] # "running"
  /\ \A s \in Runs \ {r} : result'[s] = result[s]
  /\ told' \subseteq Keys /\ troubled' \subseteq Envs

LEMMA JobsShape ==
  ASSUME TypeOK, NEW r \in Runs, at[r] # "idle"
  PROVE  /\ job[r] \in Jobs /\ job[r].env \in Envs
         /\ Command(r) \in {"login", "switch", "logout", "curl"}
         /\ Command(r) = "curl" => job[r].safe \in BOOLEAN
         /\ Purpose(r) \in Keys /\ StorageKey(r) \in Keys
<1>1. job[r] \in Jobs
  BY DEF TypeOK
<1>2. job[r].env \in Envs /\ Command(r) \in {"login", "switch", "logout", "curl"}
      /\ (Command(r) = "curl" => job[r].safe \in BOOLEAN)
  BY <1>1 DEF Jobs, Command
<1>3. kind[r] \in {"cli", "hosted"}
  BY DEF TypeOK
<1> QED
  BY <1>1, <1>2, <1>3 DEF Purpose, StorageKey, Keys

LEMMA GotoMoves ==
  ASSUME TypeOK, NEW r \in Runs, NEW label \in Labels \ {"end"}, Goto(r, label), at[r] # "end"
  PROVE  Moves(r, label)
<1>1. result[r] = "running"
  BY DEF TypeOK
<1> QED
  BY <1>1 DEF Goto, Moves, TypeOK

LEMMA EndMoves ==
  ASSUME TypeOK, NEW r \in Runs, NEW res \in Results \ {"running"}, End(r, res), at[r] # "idle"
  PROVE  Moves(r, "end")
<1>1. job[r].env \in Envs
  BY JobsShape
<1>2. result' \in [Runs -> Results] /\ result'[r] = res
  BY DEF End, TypeOK
<1>3. told' \subseteq Keys
  BY DEF End, TypeOK
<1>4. troubled' \subseteq Envs
  BY <1>1 DEF End, TypeOK
<1>5. \A s \in Runs \ {r} : result'[s] = result[s]
  BY DEF End, TypeOK
<1> QED
  BY <1>2, <1>3, <1>4, <1>5 DEF End, Moves

\* A run that has changed the file, or need not, goes on; `bl curl' sends with
\* the session that is in what it wrote.
LEMMA WrittenMoves ==
  ASSUME TypeOK, NEW r \in Runs, at[r] \in {"drop", "store", "open", "fill"}, Written(r)
  PROVE  /\ kind' \in [Runs -> {"cli", "hosted"}]
         /\ \A s \in Runs \ {r} : kind'[s] = kind[s]
         /\ Command(r) # "logout" => kind' = kind
         /\ \/ Moves(r, "end")
            \/ Moves(r, "get") /\ Command(r) = "logout"
            \/ Moves(r, "browser") /\ Command(r) = "curl"
            \/ /\ Moves(r, "send") /\ Command(r) = "curl"
               /\ sends[r] = 0 \/ job[r].safe
               /\ at[r] # "drop" /\ draft[r][StorageKey(r)] # NoCred
<1> USE DEF Labels
<1>k. /\ kind' \in [Runs -> {"cli", "hosted"}]
      /\ \A s \in Runs \ {r} : kind'[s] = kind[s]
      /\ Command(r) # "logout" => kind' = kind
  BY DEF Written, TypeOK
<1>1. CASE Command(r) = "login"
  <2>1. End(r, "done")
    BY <1>1 DEF Written
  <2> QED
    BY <2>1, <1>k, EndMoves DEF Results
<1>2. CASE Command(r) = "switch"
  <2>1. PICK res \in {"done", "failed"} : End(r, res)
    BY <1>2 DEF Written
  <2> QED
    BY <2>1, <1>k, EndMoves DEF Results
<1>3. CASE Command(r) = "curl"
  <2>1. IF at[r] = "drop" \/ draft[r][StorageKey(r)] = NoCred
          THEN Goto(r, "browser") ELSE Resend(r)
    BY <1>3 DEF Written
  <2>2. CASE Goto(r, "browser")
    BY <2>2, <1>3, <1>k, GotoMoves
  <2>3. CASE Resend(r) /\ at[r] # "drop" /\ draft[r][StorageKey(r)] # NoCred
    <3>1. CASE (sends[r] = 0 \/ job[r].safe) /\ Goto(r, "send")
      <4>1. Moves(r, "send")
        BY <3>1, GotoMoves
      <4> QED
        BY <4>1, <3>1, <2>3, <1>3, <1>k
    <3>2. CASE End(r, "rerun")
      BY <3>2, <1>k, EndMoves DEF Results
    <3> QED
      BY <2>3, <3>1, <3>2 DEF Resend
  <2> QED
    BY <2>1, <2>2, <2>3
<1>4. CASE Command(r) = "logout"
  <2>1. LogoutGoesOn(r)
    BY <1>4 DEF Written
  <2>2. CASE Goto(r, "get")
    BY <2>2, <1>4, <1>k, GotoMoves
  <2>3. CASE End(r, "warned") \/ End(r, "done")
    BY <2>3, <1>k, EndMoves DEF Results
  <2> QED
    BY <2>1, <2>2, <2>3 DEF LogoutGoesOn
<1> QED
  BY <1>1, <1>2, <1>3, <1>4, JobsShape

\* A run that could not change the file ends, unless it is a logout
LEMMA StorageFailsMoves ==
  ASSUME TypeOK, NEW r \in Runs, at[r] \in {"drop", "store", "open", "fill"}, StorageFails(r)
  PROVE  /\ kind' \in [Runs -> {"cli", "hosted"}]
         /\ \A s \in Runs \ {r} : kind'[s] = kind[s]
         /\ warned' \in [Runs -> BOOLEAN]
         /\ Command(r) # "logout" => kind' = kind
         /\ Moves(r, "end") \/ (Moves(r, "get") /\ Command(r) = "logout")
<1>1. CASE Command(r) = "logout"
  <2>1. warned' \in [Runs -> BOOLEAN] /\ Written(r)
    BY <1>1 DEF StorageFails, TypeOK
  <2> QED
    BY <2>1, <1>1, WrittenMoves
<1>2. CASE Command(r) # "logout"
  <2>1. UNCHANGED <<kind, warned>> /\ (End(r, "advised") \/ End(r, "failed"))
    BY <1>2 DEF StorageFails
  <2>2. Moves(r, "end")
    BY <2>1, EndMoves DEF Results
  <2>3. kind' = kind /\ warned' = warned
    BY <2>1
  <2>4. kind' \in [Runs -> {"cli", "hosted"}] /\ warned' \in [Runs -> BOOLEAN]
    BY <2>3 DEF TypeOK
  <2> QED
    BY <2>2, <2>3, <2>4, <1>2
<1> QED
  BY <1>1, <1>2

-----------------------------------------------------------------------------
(***************************************************************************)
(* The inductive invariant                                                 *)
(***************************************************************************)

\* A credential that was issued stays what it is
Grows == \A c \in Creds : issued[c] # NoKey => issued'[c] = issued[c]

\* the variables a step of run r may change, typed, and those of the other runs
\* left alone
Frame(r) ==
  /\ file' \in Contents \cup {Torn}
  /\ issued' \in [Creds -> Keys \cup {NoKey}]
  /\ live' \subseteq {c \in Creds : issued'[c] # NoKey}
  /\ kind' \in [Runs -> {"cli", "hosted"}]
  /\ held' \in [Runs -> Creds \cup {NoCred}]
  /\ draft' \in [Runs -> Contents]
  /\ sends' \in [Runs -> 0..2]
  /\ warned' \in [Runs -> BOOLEAN]
  /\ overlap' \in BOOLEAN
  /\ \A s \in Runs \ {r} : /\ kind'[s] = kind[s] /\ held'[s] = held[s]
                           /\ draft'[s] = draft[s] /\ sends'[s] = sends[s]

LEMMA RightStays ==
  ASSUME TypeOK, Grows, NEW f \in Contents, Right(f)
  PROVE  Right(f)'
<1> SUFFICES ASSUME NEW k \in Keys, f[k] # NoCred
             PROVE  issued'[f[k]] = k
  BY DEF Right
<1>1. f[k] \in Creds
  BY DEF Contents
<1>2. issued[f[k]] = k
  BY DEF Right
<1> QED
  BY <1>1, <1>2, NoKeyAssumption DEF Grows

LEMMA OthersKeep ==
  ASSUME TypeOK, Grows, NEW s \in Runs, Own(s),
         at'[s] = at[s], job'[s] = job[s], kind'[s] = kind[s], held'[s] = held[s],
         draft'[s] = draft[s], sends'[s] = sends[s]
  PROVE  Own(s)'
<1>1. Placed(s)'
  BY DEF Own, Placed, Command
<1>2. Counted(s)'
  BY DEF Own, Counted, Command
<1>3. StorageKey(s)' = StorageKey(s) /\ Purpose(s)' = Purpose(s)
  BY DEF StorageKey, Purpose
<1>4. ASSUME at[s] \in {"verify", "rotate", "revoke", "store", "try", "send"}
      PROVE  held'[s] # NoCred /\ issued'[held'[s]] = Purpose(s)'
  <2>1. held[s] \in Creds /\ issued[held[s]] = Purpose(s)
    BY <1>4 DEF Own, Holds, TypeOK
  <2>2. Purpose(s) \in Keys
    BY <1>4, JobsShape
  <2> QED
    BY <2>1, <2>2, <1>3, NoKeyAssumption, NoCredAssumption DEF Grows
<1>5. ASSUME at[s] \in {"open", "fill"}
      PROVE  (/\ Right(draft[s])
              /\ draft[s][StorageKey(s)] # NoCred => held[s] = draft[s][StorageKey(s)])'
  <2>1. draft[s] \in Contents /\ Right(draft[s])
    BY <1>5 DEF Own, Holds, TypeOK
  <2>2. \A k \in Keys : draft[s][k] # NoCred => issued'[draft[s][k]] = k
    BY <2>1, RightStays DEF Right
  <2>3. draft[s][StorageKey(s)] # NoCred => held[s] = draft[s][StorageKey(s)]
    BY <1>5 DEF Own, Holds
  <2> QED
    BY <2>2, <2>3, <1>3 DEF Right
<1>6. at[s] = "send" => held'[s] = draft'[s][StorageKey(s)']
  BY <1>3 DEF Own, Holds
<1>7. Holds(s)'
  BY <1>4, <1>5, <1>6 DEF Holds
<1> QED
  BY <1>1, <1>2, <1>7 DEF Own

\* Any step of a running run
LEMMA RunStep ==
  ASSUME IInv, NEW r \in Runs, at[r] # "idle", NEW label \in Labels \ {"idle"},
         Moves(r, label), Frame(r), Grows, UNCHANGED <<job, shared>>,
         file' # Torn => Right(file)', Own(r)'
  PROVE  IInv'
<1>1. job[r] # NoJob /\ at[r] \in Labels
  BY DEF IInv, TypeOK
<1>2. at' \in [Runs -> Labels] /\ at'[r] = label /\ \A s \in Runs \ {r} : at'[s] = at[s]
  BY DEF IInv, TypeOK, Moves
<1>3. TypeOK'
  <2>1. \A s \in Runs : /\ at'[s] = "end" <=> result'[s] # "running"
                        /\ at'[s] = "idle" <=> job'[s] = NoJob
    BY <1>1, <1>2 DEF IInv, TypeOK, Moves
  <2>2. job' \in [Runs -> Jobs \cup {NoJob}] /\ shared' \subseteq Envs
    BY DEF IInv, TypeOK
  <2> QED
    BY <1>2, <2>1, <2>2 DEF TypeOK, Frame, Moves
<1>4. \A s \in Runs : Own(s)'
  <2> TAKE s \in Runs
  <2>1. CASE s = r
    BY <2>1
  <2>2. CASE s # r
    <3>1. at'[s] = at[s] /\ job'[s] = job[s] /\ kind'[s] = kind[s] /\ held'[s] = held[s]
          /\ draft'[s] = draft[s] /\ sends'[s] = sends[s]
      BY <2>2, <1>2 DEF Frame
    <3>2. TypeOK /\ Own(s)
      BY DEF IInv
    <3> QED
      BY <3>1, <3>2, OthersKeep
  <2> QED
    BY <2>1, <2>2
<1> QED
  BY <1>3, <1>4 DEF IInv

\* What such a step has at hand
LEMMA Given ==
  ASSUME IInv, NEW r \in Runs, at[r] # "idle"
  PROVE  /\ TypeOK /\ Own(r) /\ Placed(r) /\ Counted(r) /\ Holds(r)
         /\ job[r] \in Jobs /\ Command(r) \in {"login", "switch", "logout", "curl"}
         /\ Purpose(r) \in Keys /\ StorageKey(r) \in Keys /\ StorageKey(r) = Purpose(r)
         /\ held[r] \in Creds \cup {NoCred} /\ draft[r] \in Contents
BY JobsShape DEF IInv, Own, TypeOK, StorageKey, Purpose

\* A run that has ended has nothing left to show
LEMMA AtTheEnd ==
  ASSUME IInv, NEW r \in Runs, at[r] # "idle", Moves(r, "end"), UNCHANGED job
  PROVE  /\ at'[r] = "end"
         /\ (Command(r) # "curl" /\ sends'[r] = sends[r] => Own(r)')
         /\ (Command(r) = "curl" => Own(r)')
<1>1. at'[r] = "end"
  BY DEF IInv, TypeOK, Moves
<1>2. Placed(r)' /\ Holds(r)'
  BY <1>1 DEF Placed, Holds
<1>3. Command(r)' = Command(r)
  BY DEF Command
<1>4. Command(r) # "curl" => sends[r] = 0
  BY DEF IInv, Own, Counted
<1> QED
  BY <1>1, <1>2, <1>3, <1>4 DEF Own, Counted

LEMMA NewRun ==
  ASSUME IInv, NEW r \in Runs, NEW j \in Jobs, Begin(r, j)
  PROVE  IInv'
<1>1. TypeOK /\ at[r] = "idle" /\ Own(r) /\ sends[r] = 0
  BY DEF IInv, Begin, Own, Counted
<1>2. at' = [at EXCEPT ![r] = "get"] /\ job' = [job EXCEPT ![r] = j] /\ j # NoJob
      /\ UNCHANGED <<file, issued, live, held, draft, sends, warned, overlap, result, told, troubled>>
  BY DEF Begin, Goto, Jobs, NoJob
<1>3. at'[r] = "get" /\ sends'[r] = 0 /\ job'[r] = j
  BY <1>1, <1>2 DEF TypeOK
<1>4. kind' \in [Runs -> {"cli", "hosted"}] /\ \A s \in Runs \ {r} : kind'[s] = kind[s]
  BY <1>1 DEF Begin, TypeOK
<1>5. shared' \subseteq Envs
  BY <1>1 DEF Begin, TypeOK, Jobs
<1>6. TypeOK'
  BY <1>1, <1>2, <1>4, <1>5 DEF TypeOK, Labels
<1>7. Own(r)'
  BY <1>3 DEF Own, Placed, Counted, Holds
<1>8. Grows /\ (file # Torn => Right(file))'
  BY <1>2 DEF Grows, IInv, Right
<1>9. ASSUME NEW s \in Runs, s # r  PROVE Own(s)'
  <2>1. at'[s] = at[s] /\ job'[s] = job[s] /\ kind'[s] = kind[s] /\ held'[s] = held[s]
        /\ draft'[s] = draft[s] /\ sends'[s] = sends[s]
    BY <1>1, <1>2, <1>4, <1>9 DEF TypeOK
  <2> QED
    BY <2>1, <1>1, <1>8, OthersKeep DEF IInv
<1> QED
  BY <1>6, <1>7, <1>8, <1>9 DEF IInv

LEMMA GetStep ==
  ASSUME IInv, NEW r \in Runs, Get(r)
  PROVE  IInv'
<1> USE DEF Labels
<1>1. at[r] = "get" /\ UNCHANGED <<file, issued, live, job, kind, draft, sends, shared, overlap>>
  BY DEF Get
<1>g. /\ TypeOK /\ Counted(r) /\ Command(r) \in {"login", "switch", "logout", "curl"}
      /\ StorageKey(r) \in Keys /\ StorageKey(r) = Purpose(r) /\ job[r] \in Jobs
      /\ (file # Torn => Right(file) /\ file \in Contents)
  BY <1>1, Given DEF IInv, TypeOK
<1>2. /\ held' \in [Runs -> Creds \cup {NoCred}] /\ warned' \in [Runs -> BOOLEAN]
      /\ \A s \in Runs \ {r} : held'[s] = held[s]
      /\ held'[r] # NoCred => issued[held'[r]] = Purpose(r)
  <2>1. PICK c \in Creds \cup {NoCred} :
          held' = [held EXCEPT ![r] = c] /\ (c # NoCred => issued[c] = Purpose(r))
    <3>1. CASE file = Torn
      BY <3>1 DEF Get
    <3>2. CASE file # Torn
      <4>1. held' = [held EXCEPT ![r] = file[StorageKey(r)]]
        BY <3>2 DEF Get
      <4>2. file[StorageKey(r)] \in Creds \cup {NoCred}
        BY <3>2, <1>g DEF Contents
      <4> QED
        BY <4>1, <4>2, <3>2, <1>g DEF Right
    <3> QED
      BY <3>1, <3>2
  <2>2. warned' \in [Runs -> BOOLEAN]
    BY <1>g DEF Get, TypeOK
  <2> QED
    BY <2>1, <2>2, <1>g DEF TypeOK
<1>3. Frame(r) /\ Grows /\ (file' # Torn => Right(file)')
  BY <1>1, <1>2, <1>g DEF Frame, Grows, TypeOK, Right
<1>4. Command(r)' = Command(r) /\ Purpose(r)' = Purpose(r)
  BY <1>1 DEF Command, Purpose
<1>5. \/ Moves(r, "end")
      \/ Moves(r, "browser") /\ Command(r) \in {"login", "curl"}
      \/ Moves(r, "verify") /\ Command(r) = "login" /\ held'[r] # NoCred
      \/ Moves(r, "rotate") /\ Command(r) = "switch" /\ held'[r] # NoCred
      \/ Moves(r, "revoke") /\ Command(r) = "logout" /\ held'[r] # NoCred
      \/ Moves(r, "drop") /\ Command(r) = "logout"
      \/ Moves(r, "try") /\ Command(r) = "curl" /\ held'[r] # NoCred
  <2>1. CASE file = Torn
    BY <2>1, <1>1, <1>g, GotoMoves, EndMoves DEF Get, Results
  <2>2. CASE file # Torn
    <3>1. Found(r)
      BY <2>2 DEF Get
    <3>2. CASE Command(r) = "login"
      <4>1. Goto(r, IF held'[r] = NoCred THEN "browser" ELSE "verify")
        BY <3>1, <3>2 DEF Found
      <4> QED
        BY <4>1, <3>2, <1>1, <1>g, GotoMoves
    <3>3. CASE Command(r) = "switch"
      <4>1. IF held'[r] = NoCred THEN End(r, "failed") ELSE Goto(r, "rotate")
        BY <3>1, <3>3 DEF Found
      <4> QED
        BY <4>1, <3>3, <1>1, <1>g, GotoMoves, EndMoves DEF Results
    <3>4. CASE Command(r) = "logout"
      <4>1. Goto(r, IF held'[r] = NoCred THEN "drop" ELSE "revoke")
        BY <3>1, <3>4 DEF Found
      <4> QED
        BY <4>1, <3>4, <1>1, <1>g, GotoMoves
    <3>5. CASE Command(r) = "curl"
      <4>1. (held'[r] # NoCred /\ Goto(r, "try")) \/ Goto(r, "browser")
        BY <3>1, <3>5 DEF Found
      <4> QED
        BY <4>1, <3>5, <1>1, <1>g, GotoMoves
    <3> QED
      BY <3>2, <3>3, <3>4, <3>5, <1>g
  <2> QED
    BY <2>1, <2>2
<1>6. ASSUME NEW label \in {"browser", "verify", "rotate", "revoke", "drop", "try"},
             Moves(r, label),
             label = "browser" => Command(r) \in {"login", "curl"},
             label = "verify" => Command(r) = "login" /\ held'[r] # NoCred,
             label = "rotate" => Command(r) = "switch" /\ held'[r] # NoCred,
             label = "revoke" => Command(r) = "logout" /\ held'[r] # NoCred,
             label = "drop" => Command(r) = "logout",
             label = "try" => Command(r) = "curl" /\ held'[r] # NoCred
      PROVE  IInv'
  <2>1. at'[r] = label
    BY <1>6, <1>g DEF Moves, TypeOK
  <2>2. Placed(r)'
    BY <2>1, <1>4, <1>6 DEF Placed
  <2>3. Counted(r)'
    BY <2>1, <1>1, <1>4, <1>g DEF Counted
  <2>4. Holds(r)'
    BY <2>1, <1>1, <1>2, <1>4, <1>6 DEF Holds
  <2> QED
    BY <2>2, <2>3, <2>4, <1>1, <1>3, <1>6, RunStep DEF Own
<1>7. CASE Moves(r, "end")
  BY <1>7, <1>1, <1>3, AtTheEnd, RunStep
<1> QED
  BY <1>5, <1>6, <1>7

LEMMA StoreStep ==
  ASSUME IInv, NEW r \in Runs, Store(r)
  PROVE  IInv'
<1> USE DEF Labels
<1>1. at[r] = "store" /\ UNCHANGED <<file, issued, live, job, held, sends, shared, overlap>>
  BY DEF Store
<1>g. /\ TypeOK /\ Counted(r) /\ Holds(r) /\ Command(r) \in {"login", "switch", "curl"}
      /\ StorageKey(r) \in Keys /\ StorageKey(r) = Purpose(r)
      /\ (file # Torn => Right(file) /\ file \in Contents)
      /\ held[r] \in Creds /\ issued[held[r]] = Purpose(r)
  BY <1>1, Given DEF IInv, TypeOK, Placed, Holds
<1>2. CASE file = Torn
  <2>1. StorageFails(r) /\ UNCHANGED draft
    BY <1>2 DEF Store
  <2>2. Moves(r, "end") /\ kind' = kind /\ warned' \in [Runs -> BOOLEAN]
    BY <2>1, <1>1, <1>g, StorageFailsMoves
  <2>3. Frame(r) /\ Grows /\ (file' # Torn => Right(file)')
    BY <2>1, <2>2, <1>1, <1>2, <1>g DEF Frame, Grows, TypeOK
  <2> QED
    BY <2>2, <2>3, <1>1, AtTheEnd, RunStep
<1>3. CASE file # Torn
  <2>1. /\ draft' = [draft EXCEPT ![r] = [file EXCEPT ![StorageKey(r)] = held[r]]]
        /\ Goto(r, "open") /\ UNCHANGED <<kind, warned>>
    BY <1>3 DEF Store
  <2>2. Moves(r, "open") /\ at'[r] = "open"
    BY <2>1, <1>1, <1>g, GotoMoves DEF Goto, TypeOK
  <2>3. draft'[r] = [file EXCEPT ![StorageKey(r)] = held[r]] /\ draft'[r] \in Contents
        /\ draft' \in [Runs -> Contents] /\ \A s \in Runs \ {r} : draft'[s] = draft[s]
    BY <2>1, <1>3, <1>g DEF TypeOK, Contents
  <2>4. Frame(r) /\ Grows /\ (file' # Torn => Right(file)')
    BY <2>1, <2>3, <1>1, <1>g DEF Frame, Grows, TypeOK, Right
  <2>5. \A k \in Keys : draft'[r][k] # NoCred => issued'[draft'[r][k]] = k
    BY <2>3, <1>1, <1>3, <1>g DEF Right, Contents
  <2>6. draft'[r][StorageKey(r)'] = held'[r]
    <3>1. StorageKey(r)' = StorageKey(r)
      BY <2>1, <1>1 DEF StorageKey
    <3> QED
      BY <3>1, <2>3, <1>1, <1>3, <1>g DEF Contents
  <2>7. Placed(r)' /\ Counted(r)'
    BY <2>2, <1>1, <1>g DEF Placed, Counted, Command
  <2>8. Holds(r)'
    BY <2>2, <2>5, <2>6 DEF Holds, Right
  <2> QED
    BY <2>2, <2>4, <2>7, <2>8, <1>1, RunStep DEF Own
<1> QED
  BY <1>2, <1>3

LEMMA DropStep ==
  ASSUME IInv, NEW r \in Runs, Drop(r)
  PROVE  IInv'
<1> USE DEF Labels
<1>1. at[r] = "drop" /\ UNCHANGED <<file, issued, live, job, held, sends, shared, overlap>>
  BY DEF Drop
<1>g. /\ TypeOK /\ Counted(r) /\ Command(r) \in {"logout", "curl"}
      /\ StorageKey(r) \in Keys
      /\ (file # Torn => Right(file) /\ file \in Contents)
  BY <1>1, Given DEF IInv, TypeOK, Placed
<1>2. CASE \/ file = Torn /\ StorageFails(r) /\ UNCHANGED draft
           \/ file # Torn /\ UNCHANGED <<draft, warned>> /\ Written(r)
  <2>1. /\ kind' \in [Runs -> {"cli", "hosted"}] /\ warned' \in [Runs -> BOOLEAN]
        /\ \A s \in Runs \ {r} : kind'[s] = kind[s]
        /\ \/ Moves(r, "end")
           \/ Moves(r, "get") /\ Command(r) = "logout"
           \/ Moves(r, "browser") /\ Command(r) = "curl"
    <3>1. CASE StorageFails(r)
      BY <3>1, <1>1, <1>g, StorageFailsMoves
    <3>2. CASE UNCHANGED warned /\ Written(r)
      <4>1. warned' \in [Runs -> BOOLEAN]
        BY <3>2, <1>g DEF TypeOK
      <4> QED
        BY <3>2, <4>1, <1>1, <1>g, WrittenMoves
    <3> QED
      BY <1>2, <3>1, <3>2
  <2>2. Frame(r) /\ Grows /\ (file' # Torn => Right(file)')
    BY <2>1, <1>1, <1>2, <1>g DEF Frame, Grows, TypeOK, Right
  <2>3. CASE Moves(r, "end")
    BY <2>2, <2>3, <1>1, AtTheEnd, RunStep
  <2>4. CASE \/ Moves(r, "get") /\ Command(r) = "logout"
             \/ Moves(r, "browser") /\ Command(r) = "curl"
    <3>1. PICK label \in {"get", "browser"} :
            /\ Moves(r, label)
            /\ label = "get" => Command(r) = "logout"
            /\ label = "browser" => Command(r) = "curl"
      BY <2>4
    <3>2. at'[r] = label
      BY <3>1, <1>g DEF Moves, TypeOK
    <3>3. Placed(r)' /\ Counted(r)' /\ Holds(r)'
      BY <3>1, <3>2, <1>1, <1>g DEF Placed, Counted, Holds, Command
    <3> QED
      BY <3>1, <3>3, <2>2, <1>1, RunStep DEF Own
  <2> QED
    BY <2>1, <2>3, <2>4
<1>3. CASE /\ file # Torn
           /\ draft' = [draft EXCEPT ![r] = [file EXCEPT ![StorageKey(r)] = NoCred]]
           /\ Goto(r, "open") /\ UNCHANGED <<kind, warned>>
  <2>2. Moves(r, "open") /\ at'[r] = "open"
    BY <1>3, <1>1, <1>g, GotoMoves DEF Goto, TypeOK
  <2>3. draft'[r] = [file EXCEPT ![StorageKey(r)] = NoCred] /\ draft'[r] \in Contents
        /\ draft' \in [Runs -> Contents] /\ \A s \in Runs \ {r} : draft'[s] = draft[s]
    BY <1>3, <1>g DEF TypeOK, Contents
  <2>4. Frame(r) /\ Grows /\ (file' # Torn => Right(file)')
    BY <1>3, <2>3, <1>1, <1>g DEF Frame, Grows, TypeOK, Right
  <2>5. \A k \in Keys : draft'[r][k] # NoCred => issued'[draft'[r][k]] = k
    BY <2>3, <1>1, <1>3, <1>g DEF Right, Contents
  <2>6. draft'[r][StorageKey(r)'] = NoCred
    <3>1. StorageKey(r)' = StorageKey(r)
      BY <1>3, <1>1 DEF StorageKey
    <3> QED
      BY <3>1, <2>3, <1>3, <1>g DEF Contents
  <2>7. Placed(r)' /\ Counted(r)'
    BY <2>2, <1>1, <1>g DEF Placed, Counted, Command
  <2>8. Holds(r)'
    BY <2>2, <2>5, <2>6 DEF Holds, Right
  <2> QED
    BY <2>2, <2>4, <2>7, <2>8, <1>1, <1>3, RunStep DEF Own
<1> QED
  BY <1>2, <1>3 DEF Drop

\* A run leaves the writing of the file, done or not
LEMMA GoesOn ==
  ASSUME IInv, NEW r \in Runs, at[r] \in {"open", "fill"},
         \/ UNCHANGED warned /\ Written(r)
         \/ StorageFails(r),
         file' \in Contents \cup {Torn}, file' # Torn => Right(file'),
         UNCHANGED <<issued, live, job, held, draft, sends, shared>>, overlap' \in BOOLEAN
  PROVE  IInv'
<1> USE DEF Labels
<1>g. /\ TypeOK /\ Counted(r) /\ Holds(r)
      /\ StorageKey(r) \in Keys /\ StorageKey(r) = Purpose(r)
      /\ draft[r] \in Contents /\ Right(draft[r])
  BY Given DEF Holds
<1>1. /\ kind' \in [Runs -> {"cli", "hosted"}] /\ warned' \in [Runs -> BOOLEAN]
      /\ \A s \in Runs \ {r} : kind'[s] = kind[s]
      /\ Command(r) # "logout" => kind' = kind
      /\ \/ Moves(r, "end")
         \/ Moves(r, "get") /\ Command(r) = "logout"
         \/ Moves(r, "browser") /\ Command(r) = "curl"
         \/ /\ Moves(r, "send") /\ Command(r) = "curl"
            /\ sends[r] = 0 \/ job[r].safe
            /\ draft[r][StorageKey(r)] # NoCred
  <2>1. CASE StorageFails(r)
    BY <2>1, <1>g, StorageFailsMoves
  <2>2. CASE UNCHANGED warned /\ Written(r)
    <3>1. warned' \in [Runs -> BOOLEAN]
      BY <2>2, <1>g DEF TypeOK
    <3> QED
      BY <2>2, <3>1, <1>g, WrittenMoves
  <2> QED
    BY <2>1, <2>2
<1>2. Frame(r) /\ Grows
  BY <1>1, <1>g DEF Frame, Grows, TypeOK
<1>3. file' # Torn => Right(file)'
  BY DEF Right
<1>4. CASE Moves(r, "end")
  BY <1>2, <1>3, <1>4, AtTheEnd, RunStep
<1>5. CASE \/ Moves(r, "get") /\ Command(r) = "logout"
           \/ Moves(r, "browser") /\ Command(r) = "curl"
  <2>1. PICK label \in {"get", "browser"} :
          /\ Moves(r, label)
          /\ label = "get" => Command(r) = "logout"
          /\ label = "browser" => Command(r) = "curl"
    BY <1>5
  <2>2. at'[r] = label
    BY <2>1, <1>g DEF Moves, TypeOK
  <2>3. Placed(r)' /\ Counted(r)' /\ Holds(r)'
    BY <2>1, <2>2, <1>g DEF Placed, Counted, Holds, Command
  <2> QED
    BY <2>1, <2>3, <1>2, <1>3, RunStep DEF Own
<1>6. CASE /\ Moves(r, "send") /\ Command(r) = "curl"
           /\ sends[r] = 0 \/ job[r].safe
           /\ draft[r][StorageKey(r)] # NoCred
  <2>1. at'[r] = "send"
    BY <1>6, <1>g DEF Moves, TypeOK
  <2>2. StorageKey(r)' = StorageKey(r) /\ Purpose(r)' = Purpose(r)
    BY <1>1, <1>6 DEF StorageKey, Purpose
  <2>3. held[r] = draft[r][StorageKey(r)]
    BY <1>6, <1>g DEF Holds
  <2>4. Placed(r)' /\ Counted(r)'
    BY <2>1, <1>6, <1>g DEF Placed, Counted, Command
  <2>5. held[r] # NoCred /\ issued[held[r]] = Purpose(r)
    BY <2>3, <1>6, <1>g DEF Right
  <2>6. Holds(r)'
    BY <2>1, <2>2, <2>3, <2>5 DEF Holds
  <2> QED
    BY <1>6, <2>4, <2>6, <1>2, <1>3, RunStep DEF Own
<1> QED
  BY <1>1, <1>4, <1>5, <1>6

LEMMA OpenStep ==
  ASSUME IInv, NEW r \in Runs, Open(r)
  PROVE  IInv'
<1>1. at[r] = "open" /\ UNCHANGED <<issued, live, job, held, draft, sends, shared>>
  BY DEF Open
<1>g. TypeOK /\ Counted(r) /\ Holds(r)
  BY <1>1, Given
<1>2. CASE /\ file' = Torn
           /\ overlap' = (overlap \/ \E s \in Runs \ {r} : at[s] \in {"open", "fill"})
           /\ Goto(r, "fill") /\ UNCHANGED <<kind, warned>>
  <2>1. Moves(r, "fill") /\ at'[r] = "fill"
    BY <1>1, <1>2, <1>g, GotoMoves DEF Goto, TypeOK, Labels
  <2>2. overlap' \in BOOLEAN
    BY <1>2
  <2>3. Frame(r) /\ Grows
    BY <2>2, <1>1, <1>2, <1>g DEF Frame, Grows, TypeOK
  <2>4. StorageKey(r)' = StorageKey(r)
    BY <1>1, <1>2 DEF StorageKey
  <2>5. Placed(r)' /\ Counted(r)'
    BY <2>1, <1>1, <1>g DEF Placed, Counted, Command
  <2>6. Holds(r)'
    BY <2>1, <2>4, <1>1, <1>g DEF Holds, Right
  <2> QED
    BY <2>1, <2>3, <2>5, <2>6, <1>1, <1>2, RunStep DEF Own, Labels
<1>3. CASE StorageFails(r) /\ UNCHANGED <<file, overlap>>
  <2>1. file' \in Contents \cup {Torn} /\ overlap' \in BOOLEAN /\ (file' # Torn => Right(file'))
    BY <1>3 DEF IInv, TypeOK
  <2> QED
    BY <2>1, <1>1, <1>3, GoesOn
<1> QED
  BY <1>2, <1>3 DEF Open

LEMMA FillStep ==
  ASSUME IInv, NEW r \in Runs, Fill(r)
  PROVE  IInv'
<1>1. at[r] = "fill" /\ UNCHANGED <<issued, live, job, held, draft, sends, shared, overlap>>
  BY DEF Fill
<1>2. file' \in {draft[r], file, Torn}
  BY DEF Fill
<1>3. draft[r] \in Contents /\ Right(draft[r])
  BY <1>1, Given DEF Holds
<1>4. file' \in Contents \cup {Torn} /\ overlap' \in BOOLEAN /\ (file' # Torn => Right(file'))
  BY <1>1, <1>2, <1>3 DEF IInv, TypeOK
<1>5. (UNCHANGED warned /\ Written(r)) \/ StorageFails(r)
  BY DEF Fill
<1> QED
  BY <1>1, <1>4, <1>5, GoesOn

LEMMA VerifyStep ==
  ASSUME IInv, NEW r \in Runs, Verify(r)
  PROVE  IInv'
<1> USE DEF Labels
<1>1. at[r] = "verify"
      /\ UNCHANGED <<file, issued, live, job, kind, held, draft, sends, warned, shared, overlap>>
  BY DEF Verify
<1>g. TypeOK /\ Counted(r) /\ Command(r) = "login"
  BY <1>1, Given DEF Placed
<1>2. Frame(r) /\ Grows /\ (file' # Torn => Right(file)')
  BY <1>1, <1>g DEF Frame, Grows, TypeOK, IInv, Right
<1>3. CASE End(r, "failed") \/ End(r, "done")
  <2>1. Moves(r, "end")
    BY <1>1, <1>3, <1>g, EndMoves DEF Results
  <2> QED
    BY <2>1, <1>1, <1>2, AtTheEnd, RunStep
<1>4. CASE Goto(r, "browser")
  <2>1. Moves(r, "browser") /\ at'[r] = "browser"
    BY <1>1, <1>4, <1>g, GotoMoves DEF Goto, TypeOK
  <2>2. Placed(r)' /\ Counted(r)' /\ Holds(r)'
    BY <2>1, <1>1, <1>g DEF Placed, Counted, Holds, Command
  <2> QED
    BY <2>1, <2>2, <1>1, <1>2, RunStep DEF Own
<1> QED
  BY <1>3, <1>4 DEF Verify

\* A new credential disturbs none that there is
LEMMA IssueGrows ==
  ASSUME TypeOK, NEW c \in Creds, NEW key \in Keys, Issue(c, key)
  PROVE  /\ Grows /\ issued' \in [Creds -> Keys \cup {NoKey}] /\ issued'[c] = key
         /\ \A d \in live \cup {c} : d \in Creds /\ issued'[d] # NoKey
BY NoKeyAssumption DEF Issue, Grows, TypeOK

\* A run gets a new credential, or gives up, perhaps after one was issued
LEMMA Obtain ==
  ASSUME IInv, NEW r \in Runs, at[r] \in {"browser", "rotate"},
         UNCHANGED <<file, job, kind, draft, sends, warned, shared, overlap>>,
         \/ UNCHANGED <<issued, live, held>>
              /\ \E res \in Results \ {"running"} : End(r, res)
         \/ \E c \in Creds :
              /\ Issue(c, Purpose(r))
              /\ live' \subseteq live \cup {c}
              /\ \/ held' = [held EXCEPT ![r] = c] /\ Goto(r, "store")
                 \/ (\E res \in Results \ {"running"} : End(r, res)) /\ UNCHANGED held
  PROVE  IInv'
<1> USE DEF Labels
<1>g. TypeOK /\ Counted(r) /\ Command(r) \in {"login", "switch", "curl"} /\ Purpose(r) \in Keys
  BY Given DEF Placed
<1>1. CASE UNCHANGED <<issued, live, held>>
             /\ \E res \in Results \ {"running"} : End(r, res)
  <2>1. Moves(r, "end")
    BY <1>1, <1>g, EndMoves
  <2>2. Frame(r) /\ Grows /\ (file' # Torn => Right(file)')
    BY <1>1, <1>g DEF Frame, Grows, TypeOK, IInv, Right
  <2> QED
    BY <2>1, <2>2, AtTheEnd, RunStep
<1>2. ASSUME NEW c \in Creds, Issue(c, Purpose(r)), live' \subseteq live \cup {c},
             \/ held' = [held EXCEPT ![r] = c] /\ Goto(r, "store")
             \/ (\E res \in Results \ {"running"} : End(r, res)) /\ UNCHANGED held
      PROVE  IInv'
  <2>1. /\ Grows /\ issued' \in [Creds -> Keys \cup {NoKey}] /\ issued'[c] = Purpose(r)
        /\ live' \subseteq {d \in Creds : issued'[d] # NoKey}
    BY <1>2, <1>g, IssueGrows
  <2>2. held' \in [Runs -> Creds \cup {NoCred}] /\ \A s \in Runs \ {r} : held'[s] = held[s]
    BY <1>2, <1>g DEF TypeOK
  <2>3. Frame(r)
    BY <2>1, <2>2, <1>g DEF Frame, TypeOK
  <2>4. file' # Torn => Right(file)'
    <3>1. ASSUME file # Torn  PROVE \A k \in Keys : file[k] # NoCred => issued'[file[k]] = k
      <4>1. file \in Contents /\ Right(file)
        BY <3>1, <1>g DEF IInv, TypeOK
      <4> QED
        BY <4>1, <2>1, <1>g, RightStays DEF Right
    <3> QED
      BY <3>1 DEF Right
  <2>5. CASE held' = [held EXCEPT ![r] = c] /\ Goto(r, "store")
    <3>1. Moves(r, "store") /\ at'[r] = "store" /\ held'[r] = c
      BY <2>5, <1>g, GotoMoves DEF Goto, TypeOK
    <3>2. Purpose(r)' = Purpose(r)
      BY DEF Purpose
    <3>3. Placed(r)' /\ Counted(r)'
      BY <3>1, <1>g DEF Placed, Counted, Command
    <3>4. Holds(r)'
      BY <3>1, <3>2, <2>1, NoCredAssumption DEF Holds
    <3> QED
      BY <3>1, <3>3, <3>4, <2>1, <2>3, <2>4, RunStep DEF Own
  <2>6. CASE \E res \in Results \ {"running"} : End(r, res)
    <3>1. Moves(r, "end")
      BY <2>6, <1>g, EndMoves
    <3> QED
      BY <3>1, <2>1, <2>3, <2>4, AtTheEnd, RunStep
  <2> QED
    BY <1>2, <2>5, <2>6
<1> QED
  BY <1>1, <1>2

LEMMA BrowserStep ==
  ASSUME IInv, NEW r \in Runs, Browser(r)
  PROVE  IInv'
<1>1. "failed" \in Results \ {"running"}
  BY DEF Results
<1> QED
  BY <1>1, Obtain DEF Browser

LEMMA RotateStep ==
  ASSUME IInv, NEW r \in Runs, Rotate(r)
  PROVE  IInv'
<1>1. {"failed", "done", "advised"} \subseteq Results \ {"running"}
  BY DEF Results
<1>2. at[r] = "rotate" /\ UNCHANGED <<file, job, kind, draft, sends, warned, shared, overlap>>
  BY DEF Rotate
<1>3. CASE \/ End(r, "failed") /\ UNCHANGED <<issued, live, held>>
           \/ End(r, "done") /\ UNCHANGED <<issued, live, held>>
  BY <1>1, <1>2, <1>3, Obtain
<1>4. ASSUME NEW c \in Creds, Issue(c, Purpose(r)), live' = (live \ {held[r]}) \cup {c},
             \/ held' = [held EXCEPT ![r] = c] /\ Goto(r, "store")
             \/ (\E res \in {"failed", "advised"} : End(r, res)) /\ UNCHANGED held
      PROVE  IInv'
  BY <1>1, <1>2, <1>4, Obtain
<1> QED
  BY <1>3, <1>4 DEF Rotate

LEMMA RevokeStep ==
  ASSUME IInv, NEW r \in Runs, Revoke(r)
  PROVE  IInv'
<1>1. at[r] = "revoke" /\ Goto(r, "drop")
      /\ UNCHANGED <<file, issued, job, kind, held, draft, sends, shared, overlap>>
  BY DEF Revoke
<1>g. TypeOK /\ Counted(r) /\ Command(r) = "logout"
  BY <1>1, Given DEF Placed
<1>2. live' \subseteq live /\ warned' \in [Runs -> BOOLEAN]
  BY <1>g DEF Revoke, TypeOK
<1>3. Frame(r) /\ Grows /\ (file' # Torn => Right(file)')
  BY <1>1, <1>2, <1>g DEF Frame, Grows, TypeOK, IInv, Right
<1>4. Moves(r, "drop") /\ at'[r] = "drop"
  BY <1>1, <1>g, GotoMoves DEF Goto, TypeOK, Labels
<1>5. Placed(r)' /\ Counted(r)' /\ Holds(r)'
  BY <1>1, <1>4, <1>g DEF Placed, Counted, Holds, Command
<1> QED
  BY <1>1, <1>3, <1>4, <1>5, RunStep DEF Own, Labels

LEMMA TryStep ==
  ASSUME IInv, NEW r \in Runs, Try(r)
  PROVE  IInv'
<1>1. at[r] = "try" /\ sends' = [sends EXCEPT ![r] = @ + 1]
      /\ UNCHANGED <<file, issued, live, job, kind, held, draft, warned, shared, overlap>>
  BY DEF Try
<1>g. TypeOK /\ Command(r) = "curl" /\ sends[r] = 0
  BY <1>1, Given DEF Placed, Counted
<1>2. sends' \in [Runs -> 0..2] /\ sends'[r] = 1 /\ \A s \in Runs \ {r} : sends'[s] = sends[s]
  BY <1>1, <1>g DEF TypeOK
<1>3. Frame(r) /\ Grows /\ (file' # Torn => Right(file)')
  BY <1>1, <1>2, <1>g DEF Frame, Grows, TypeOK, IInv, Right
<1>4. CASE End(r, "answered")
  <2>1. Moves(r, "end")
    BY <1>1, <1>4, <1>g, EndMoves DEF Results
  <2> QED
    BY <2>1, <1>1, <1>3, <1>g, AtTheEnd, RunStep DEF Labels
<1>5. CASE /\ at' = [at EXCEPT ![r] = "drop"]
           /\ troubled' = IF held[r] \in live THEN troubled \cup {job[r].env} ELSE troubled
           /\ UNCHANGED <<result, told>>
  <2>1. job[r].env \in Envs
    BY <1>1, <1>g, JobsShape
  <2>2. Moves(r, "drop") /\ at'[r] = "drop"
    BY <2>1, <1>1, <1>5, <1>g DEF Moves, TypeOK
  <2>3. Placed(r)' /\ Counted(r)' /\ Holds(r)'
    BY <2>2, <1>1, <1>2, <1>g DEF Placed, Counted, Holds, Command
  <2> QED
    BY <2>2, <2>3, <1>1, <1>3, RunStep DEF Own, Labels
<1> QED
  BY <1>4, <1>5 DEF Try

LEMMA SendStep ==
  ASSUME IInv, NEW r \in Runs, Send(r)
  PROVE  IInv'
<1>1. at[r] = "send" /\ sends' = [sends EXCEPT ![r] = @ + 1] /\ End(r, "answered")
      /\ UNCHANGED <<file, issued, live, job, kind, held, draft, warned, shared, overlap>>
  BY DEF Send
<1>g. TypeOK /\ Command(r) = "curl" /\ sends[r] \in 0..1
  BY <1>1, Given DEF Placed, Counted
<1>2. sends' \in [Runs -> 0..2] /\ \A s \in Runs \ {r} : sends'[s] = sends[s]
  BY <1>1, <1>g DEF TypeOK
<1>3. Frame(r) /\ Grows /\ (file' # Torn => Right(file)')
  BY <1>1, <1>2, <1>g DEF Frame, Grows, TypeOK, IInv, Right
<1>4. Moves(r, "end")
  BY <1>1, <1>g, EndMoves DEF Results
<1> QED
  BY <1>1, <1>3, <1>4, <1>g, AtTheEnd, RunStep DEF Labels

LEMMA CrashStep ==
  ASSUME IInv, NEW r \in Runs, Crash(r)
  PROVE  IInv'
<1>1. at[r] # "idle" /\ End(r, "crashed")
      /\ UNCHANGED <<file, issued, live, job, kind, held, draft, sends, warned, shared, overlap>>
  BY DEF Crash, Running
<1>2. TypeOK
  BY DEF IInv
<1>3. Frame(r) /\ Grows /\ (file' # Torn => Right(file)')
  BY <1>1, <1>2 DEF Frame, Grows, TypeOK, IInv, Right
<1>4. Moves(r, "end")
  BY <1>1, <1>2, EndMoves DEF Results
<1> QED
  BY <1>1, <1>3, <1>4, AtTheEnd, RunStep DEF Labels

LEMMA ExpireStep ==
  ASSUME IInv, NEW c \in Creds, Expire(c)
  PROVE  IInv'
<1>1. UNCHANGED <<file, issued, at, job, kind, held, draft, sends, warned, result,
                  troubled, shared, overlap>>
  BY DEF Expire
<1>2. TypeOK
  BY DEF IInv
<1>3. live' \subseteq live /\ told' \subseteq Keys
  BY <1>2 DEF Expire, TypeOK
<1>4. TypeOK'
  BY <1>1, <1>2, <1>3 DEF TypeOK
<1>5. Grows /\ (file' # Torn => Right(file)')
  BY <1>1 DEF Grows, IInv, Right
<1>6. \A s \in Runs : Own(s)'
  BY <1>1, <1>2, <1>5, OthersKeep DEF IInv
<1> QED
  BY <1>4, <1>5, <1>6 DEF IInv

-----------------------------------------------------------------------------
(***************************************************************************)
(* The theorems                                                            *)
(***************************************************************************)

LEMMA InitInv ==
  ASSUME Init
  PROVE  IInv
<1>1. file \in Contents /\ \A k, l \in Keys : file[k] = file[l] => k = l \/ file[k] = NoCred
  BY DEF Init
<1>2. \A k \in Keys : file[k] # NoCred => issued[file[k]] = k
  <2> SUFFICES ASSUME NEW k \in Keys, file[k] # NoCred
               PROVE  issued[file[k]] = k
    OBVIOUS
  <2>1. file[k] \in Creds
    BY <1>1 DEF Contents
  <2>2. issued[file[k]] = CHOOSE l \in Keys : file[l] = file[k]
    BY <2>1 DEF Init
  <2>3. (CHOOSE l \in Keys : file[l] = file[k]) \in Keys
        /\ file[CHOOSE l \in Keys : file[l] = file[k]] = file[k]
    OBVIOUS
  <2> QED
    BY <2>2, <2>3, <1>1
<1>3. issued \in [Creds -> Keys \cup {NoKey}]
  <2>1. ASSUME NEW c \in Creds, \E k \in Keys : file[k] = c
        PROVE  (CHOOSE k \in Keys : file[k] = c) \in Keys
    BY <2>1
  <2> QED
    BY <2>1 DEF Init
<1>4. Empty \in Contents
  BY DEF Empty, Contents
<1>5. TypeOK
  <2>1. at \in [Runs -> Labels] /\ job \in [Runs -> Jobs \cup {NoJob}]
        /\ result \in [Runs -> Results]
    BY DEF Init, Labels, Results
  <2>2. live \subseteq {c \in Creds : issued[c] # NoKey}
    BY DEF Init
  <2>5. sends \in [Runs -> 0..2]
    BY DEF Init
  <2>3. /\ kind \in [Runs -> {"cli", "hosted"}] /\ held \in [Runs -> Creds \cup {NoCred}]
        /\ draft \in [Runs -> Contents]
        /\ warned \in [Runs -> BOOLEAN] /\ overlap \in BOOLEAN
        /\ told \subseteq Keys /\ troubled \subseteq Envs /\ shared \subseteq Envs
    BY <1>4 DEF Init
  <2>4. \A r \in Runs : /\ at[r] = "end" <=> result[r] # "running"
                        /\ at[r] = "idle" <=> job[r] = NoJob
    BY DEF Init
  <2> QED
    BY <1>1, <1>3, <2>1, <2>2, <2>3, <2>4, <2>5 DEF TypeOK
<1>6. \A r \in Runs : Own(r)
  BY DEF Init, Own, Placed, Counted, Holds
<1> QED
  BY <1>2, <1>5, <1>6 DEF IInv, Right

LEMMA NextInv ==
  ASSUME IInv, [Next]_vars
  PROVE  IInv'
<1>1. CASE UNCHANGED vars
  <2>1. UNCHANGED <<file, issued, live, at, job, kind, held, draft, sends, warned, result,
                    told, troubled, shared, overlap>>
    BY <1>1 DEF vars, histories
  <2>2. TypeOK'
    BY <2>1 DEF IInv, TypeOK
  <2>3. Grows /\ (file' # Torn => Right(file)')
    BY <2>1 DEF Grows, IInv, Right
  <2>4. \A s \in Runs : Own(s)'
    BY <2>1, <2>3, OthersKeep DEF IInv
  <2> QED
    BY <2>2, <2>3, <2>4 DEF IInv
<1>2. ASSUME NEW r \in Runs,
             \/ \E j \in Jobs : Begin(r, j)
             \/ Get(r) \/ Store(r) \/ Drop(r) \/ Open(r) \/ Fill(r)
             \/ Verify(r) \/ Browser(r) \/ Rotate(r) \/ Revoke(r) \/ Try(r) \/ Send(r)
             \/ Crash(r)
      PROVE  IInv'
  BY <1>2, NewRun, GetStep, StoreStep, DropStep, OpenStep, FillStep, VerifyStep, BrowserStep,
     RotateStep, RevokeStep, TryStep, SendStep, CrashStep
<1>3. ASSUME NEW c \in Creds, Expire(c)
      PROVE  IInv'
  BY <1>3, ExpireStep
<1> QED
  BY <1>1, <1>2, <1>3 DEF Next, Finished

\* The inductive invariant: where each run is, what it holds and sends, and that
\* the file and the drafts have credentials at their own keys only.
THEOREM Invariance == Spec => []IInv
<1>1. Init => IInv
  BY InitInv
<1>2. IInv /\ [Next]_vars => IInv'
  BY NextInv
<1> QED
  BY <1>1, <1>2, PTL DEF Spec

\* The type invariant: among others, `bl curl' never sends a request more than
\* twice, whatever it is answered.
THEOREM TypeCorrect == Spec => []TypeOK
<1>1. IInv => TypeOK
  BY DEF IInv
<1> QED
  BY <1>1, Invariance, PTL

\* What is stored under a key, and what a run sends, was issued for that server
\* and that use, however the commands are interleaved, fail or crash.
THEOREM CredentialsStayApart == Spec => []RightServer
<1>1. IInv => RightServer
  BY DEF IInv, Own, Holds, Right, RightServer
<1> QED
  BY <1>1, Invariance, PTL

LEMMA SendsOnce ==
  ASSUME IInv, [Next]_vars, NEW r \in Runs, sends'[r] > sends[r], sends[r] > 0
  PROVE  sends[r] = 1 /\ job[r].safe /\ held[r] = draft[r][StorageKey(r)]
<1>1. sends[r] \in 0..2
  BY DEF IInv, TypeOK
<1>2. sends' # sends
  BY <1>1
<1>3. PICK s \in Runs : (Try(s) \/ Send(s)) /\ sends' = [sends EXCEPT ![s] = @ + 1]
  <2>1. ~UNCHANGED vars /\ ~Finished /\ ~\E c \in Creds : Expire(c)
    BY <1>2 DEF vars, Finished, Expire
  <2>2. \A s \in Runs : ~Get(s) /\ ~Store(s) /\ ~Drop(s) /\ ~Open(s) /\ ~Fill(s) /\ ~Crash(s)
    BY <1>2 DEF Get, Store, Drop, Open, Fill, Crash
  <2>3. \A s \in Runs : ~Verify(s) /\ ~Browser(s) /\ ~Rotate(s) /\ ~Revoke(s)
    BY <1>2 DEF Verify, Browser, Rotate, Revoke
  <2>4. \A s \in Runs : ~\E j \in Jobs : Begin(s, j)
    BY <1>2 DEF Begin
  <2>5. PICK s \in Runs : Try(s) \/ Send(s)
    BY <2>1, <2>2, <2>3, <2>4 DEF Next
  <2> QED
    BY <2>5 DEF Try, Send
<1>4. s = r
  BY <1>1, <1>3 DEF IInv, TypeOK
<1>5. ~Try(r)
  <2>1. ASSUME Try(r)  PROVE sends[r] = 0
    BY <2>1, Given DEF Try, Counted
  <2> QED
    BY <2>1, <1>1
<1>6. at[r] = "send"
  BY <1>3, <1>4, <1>5 DEF Send
<1> QED
  BY <1>1, <1>6, Given DEF Counted, Holds

\* A request that may have had an effect is not sent again, and one that is, is
\* sent with the session its own login stored.
THEOREM SentOnce == Spec => ResentOnlyIfSafe
<1>1. IInv /\ [Next]_vars =>
        [\A r \in Runs : sends'[r] > sends[r] /\ sends[r] > 0 =>
           /\ sends[r] = 1
           /\ job[r].safe
           /\ held[r] = draft[r][StorageKey(r)]]_vars
  BY SendsOnce
<1> QED
  BY <1>1, Invariance, PTL DEF Spec, ResentOnlyIfSafe

-----------------------------------------------------------------------------
(***************************************************************************)
(* The file and the servers                                                *)
(***************************************************************************)

\* what the file holds, or will hold when the run that cut it off is done
Images == ({file} \ {Torn}) \cup {draft[s] : s \in {s \in Runs : at[s] = "fill"}}

\* a run between reading the file and having written it, and what for
Writing(r) == at[r] \in {"open", "fill"}

Storing(r) == at[r] = "store" \/ (Writing(r) /\ draft[r][StorageKey(r)] # NoCred)

Removing(r) == at[r] = "drop" \/ (Writing(r) /\ draft[r][StorageKey(r)] = NoCred)

\* Without an overlap, one run at a time writes, and writes what was there but
\* for its own entry.
InTurn ==
  ~overlap =>
    \A r \in Runs :
      /\ at[r] = "fill" => file = Torn /\ \A s \in Runs \ {r} : ~Writing(s)
      /\ at[r] = "open" => file # Torn /\ \A k \in Keys \ {StorageKey(r)} : draft[r][k] = file[k]

\* which commands store, remove and warn
Writes(r) ==
  /\ Storing(r) => Command(r) # "logout"
  /\ Removing(r) => Command(r) \in {"logout", "curl"}
  /\ warned[r] => at[r] # "idle" /\ Command(r) = "logout"

\* The session a run is about to store is good, and none other knows it.
Fresh(r) ==
  Storing(r) =>
    /\ held[r] \in live
    /\ file # Torn => file[StorageKey(r)] # held[r]
    /\ \A s \in Runs : s # r =>
         /\ at[s] \in {"verify", "rotate", "revoke", "store", "try", "send"} => held[s] # held[r]
         /\ Writing(s) => draft[s][StorageKey(r)] # held[r]

\* An environment that is not shared has one running command.
Alone ==
  \A r, s \in Runs :
    r # s /\ Running(r) /\ Running(s) /\ job[r].env = job[s].env => job[r].env \in shared

\* A run that ended the session stored under a key and has still to store the
\* new one, to remove it, or to say so.
Mending(r, k) ==
  \/ Storing(r) /\ Command(r) = "switch" /\ StorageKey(r) = k
  \/ Removing(r) /\ Command(r) = "logout" /\ StorageKey(r) = k
  \/ Running(r) /\ warned[r] /\ job[r].env = k[1]

\* what is stored under a key is good, or it is known why not
SoundAt(k) ==
  \A f \in Images :
    f[k] \in live \cup {NoCred} \/ k \in told \/ \E s \in Runs : Mending(s, k)

Sound == ~overlap => \A k \in Keys : SoundAt(k)

LiveFor(k) == {c \in live : issued[c] = k}

Disturbed == troubled \cup shared

\* a run knows the sessions that the file does not hold
Knows(r, k) ==
  /\ Running(r) /\ job[r].env = k[1]
  /\ warned[r] \/ (Storing(r) /\ StorageKey(r) = k /\ LiveFor(k) \subseteq {held[r]})

\* of the sessions of a key, the file holds the one that is good, or a run does
TrackedAt(k) ==
  k[1] \notin Disturbed =>
    \A f \in Images : LiveFor(k) \subseteq {f[k]} \/ \E s \in Runs : Knows(s, k)

Tracked == ~overlap => \A k \in Keys : TrackedAt(k)

CliKey(r) == <<job[r].env, "cli">>

\* What a run has in hand is what is stored, until it has ended that session;
\* where it logs in or removes the entry, there is no good session.
Follows(r) ==
  ~overlap /\ Running(r) /\ job[r].env \notin Disturbed /\ ~warned[r] =>
    /\ at[r] \in {"verify", "rotate", "revoke", "try"} =>
         LiveFor(StorageKey(r)) \subseteq {held[r]} /\ \A f \in Images : f[StorageKey(r)] = held[r]
    /\ at[r] = "browser" \/ Removing(r) => LiveFor(StorageKey(r)) = {}
    /\ Command(r) = "logout" /\ kind[r] = "hosted" =>
         LiveFor(CliKey(r)) = {} /\ \A f \in Images : f[CliKey(r)] = NoCred

Inv ==
  /\ IInv /\ InTurn /\ Alone /\ Sound /\ Tracked
  /\ \A r \in Runs : Writes(r) /\ Fresh(r) /\ Follows(r)

-----------------------------------------------------------------------------
(***************************************************************************)
(* A step of one run                                                       *)
(***************************************************************************)

\* what the step of a run leaves of the others
Others(r) ==
  /\ UNCHANGED <<job, shared>>
  /\ \A s \in Runs \ {r} : /\ at'[s] = at[s] /\ kind'[s] = kind[s] /\ held'[s] = held[s]
                           /\ draft'[s] = draft[s] /\ warned'[s] = warned[s]

\* nothing is taken for good that the run has said is not
Careful(r) ==
  /\ told \ {StorageKey(r)} \subseteq told'
  /\ troubled \subseteq troubled'
  /\ overlap => overlap'

\* the run reports that something went wrong
Loud(r) == job[r].env \in troubled' /\ \A k \in Keys : k[1] = job[r].env => k \in told'

\* a logout that has something to report still has, or has reported it
Remembers(r) == warned[r] => (Running(r)' /\ warned'[r]) \/ Loud(r)

\* what the file holds or will hold is as before, but for the run's own entry
Copies(r) ==
  ~overlap' =>
    \A f \in Images' : \E g \in Images : \A k \in Keys \ {StorageKey(r)} : f[k] = g[k]

\* sessions of other keys are not touched
Minds(r) == \A k \in Keys \ {StorageKey(r)} : LiveFor(k)' = LiveFor(k)

LEMMA ImagesRight ==
  ASSUME IInv, NEW f \in Images
  PROVE  f \in Contents /\ Right(f)
<1>1. CASE f = file /\ file # Torn
  BY <1>1 DEF IInv, TypeOK
<1>2. ASSUME NEW s \in Runs, at[s] = "fill", f = draft[s] PROVE f \in Contents /\ Right(f)
  BY <1>2 DEF IInv, Own, Holds, TypeOK
<1> QED
  BY <1>1, <1>2 DEF Images

LEMMA OthersSame ==
  ASSUME NEW r \in Runs, Others(r), NEW s \in Runs \ {r}
  PROVE  /\ at'[s] = at[s] /\ job'[s] = job[s] /\ warned'[s] = warned[s] /\ kind'[s] = kind[s]
         /\ Writing(s)' = Writing(s) /\ Storing(s)' = Storing(s) /\ Removing(s)' = Removing(s)
         /\ Running(s)' = Running(s) /\ Command(s)' = Command(s)
         /\ StorageKey(s)' = StorageKey(s) /\ Purpose(s)' = Purpose(s)
         /\ \A k \in Keys : Mending(s, k)' = Mending(s, k)
<1>1. /\ at'[s] = at[s] /\ job'[s] = job[s] /\ warned'[s] = warned[s] /\ kind'[s] = kind[s]
      /\ draft'[s] = draft[s]
  BY DEF Others
<1>2. StorageKey(s)' = StorageKey(s) /\ Purpose(s)' = Purpose(s) /\ Command(s)' = Command(s)
  BY <1>1 DEF StorageKey, Purpose, Command
<1>3. Writing(s)' = Writing(s) /\ Running(s)' = Running(s)
  BY <1>1 DEF Writing, Running
<1>4. Storing(s)' = Storing(s) /\ Removing(s)' = Removing(s)
  BY <1>1, <1>2, <1>3 DEF Storing, Removing
<1>5. \A k \in Keys : Mending(s, k)' = Mending(s, k)
  BY <1>1, <1>2, <1>3, <1>4 DEF Mending
<1> QED
  BY <1>1, <1>2, <1>3, <1>4, <1>5

\* of another key, what was sound and tracked stays so
LEMMA OtherKeys ==
  ASSUME Inv, NEW r \in Runs, Running(r), Others(r), Careful(r), Remembers(r),
         Copies(r), Minds(r), NEW k \in Keys \ {StorageKey(r)}, ~overlap'
  PROVE  SoundAt(k)' /\ TrackedAt(k)'
<1>1. SoundAt(k) /\ TrackedAt(k) /\ LiveFor(k)' = LiveFor(k)
  BY DEF Inv, Sound, Tracked, Careful, Minds
<1>2. Mending(r, k) => Mending(r, k)' \/ k \in told'
  BY DEF Mending, Remembers, Loud, Others
<1>3. \A s \in Runs : Mending(s, k) => Mending(s, k)' \/ k \in told'
  BY <1>2, OthersSame
<1>4. SoundAt(k)'
  <2> SUFFICES ASSUME NEW f \in Images'
               PROVE  f[k] \in live' \cup {NoCred} \/ k \in told' \/ \E s \in Runs : Mending(s, k)'
    BY DEF SoundAt
  <2>1. PICK g \in Images : f[k] = g[k]
    BY DEF Copies
  <2>2. g[k] \in live => g[k] \in live'
    <3>1. g[k] \in live => g[k] \in LiveFor(k)
      BY ImagesRight, NoCredAssumption DEF Right, LiveFor, Inv, IInv, TypeOK
    <3> QED
      BY <1>1, <3>1 DEF LiveFor
  <2>3. g[k] \in live \cup {NoCred} \/ k \in told \/ \E s \in Runs : Mending(s, k)
    BY <1>1 DEF SoundAt
  <2>4. k \in told => k \in told'
    BY DEF Careful
  <2> QED
    BY <1>3, <2>1, <2>2, <2>3, <2>4
<1>5. TrackedAt(k)'
  <2> SUFFICES ASSUME k[1] \notin Disturbed', NEW f \in Images'
               PROVE  LiveFor(k)' \subseteq {f[k]} \/ \E s \in Runs : Knows(s, k)'
    BY DEF TrackedAt
  <2>1. PICK g \in Images : f[k] = g[k]
    BY DEF Copies
  <2>2. k[1] \notin Disturbed
    BY DEF Disturbed, Careful, Others
  <2>3. ASSUME NEW s \in Runs, Knows(s, k) PROVE Knows(s, k)'
    <3>1. CASE s # r
      <4>1. held'[s] = held[s]
        BY <3>1 DEF Others
      <4> QED
        BY <1>1, <2>3, <3>1, <4>1, OthersSame DEF Knows
    <3>2. CASE s = r
      <4>1. warned[r] /\ job[r].env = k[1]
        BY <2>3, <3>2 DEF Knows
      <4>2. Running(r)' /\ warned'[r]
        BY <4>1 DEF Remembers, Loud, Disturbed
      <4> QED
        BY <3>2, <4>1, <4>2 DEF Knows, Others
    <3> QED
      BY <3>1, <3>2
  <2>4. LiveFor(k) \subseteq {g[k]} \/ \E s \in Runs : Knows(s, k)
    BY <1>1, <2>2 DEF TrackedAt
  <2> QED
    BY <1>1, <2>1, <2>3, <2>4
<1> QED
  BY <1>4, <1>5

\* a run of another environment goes on as before
LEMMA OthersFollow ==
  ASSUME Inv, NEW r \in Runs, Running(r), Others(r), Careful(r), Copies(r), Minds(r),
         NEW s \in Runs \ {r}
  PROVE  Follows(s)'
<1> SUFFICES ASSUME ~overlap', Running(s)', job'[s].env \notin Disturbed', ~warned'[s]
             PROVE  /\ at'[s] \in {"verify", "rotate", "revoke", "try"} =>
                         /\ LiveFor(StorageKey(s))' \subseteq {held'[s]}
                         /\ \A f \in Images' : f[StorageKey(s)'] = held'[s]
                    /\ at'[s] = "browser" \/ Removing(s)' => LiveFor(StorageKey(s))' = {}
                    /\ Command(s)' = "logout" /\ kind'[s] = "hosted" =>
                         LiveFor(CliKey(s))' = {} /\ \A f \in Images' : f[CliKey(s)'] = NoCred
  BY DEF Follows
<1>1. /\ at'[s] = at[s] /\ kind'[s] = kind[s] /\ held'[s] = held[s] /\ Running(s)
      /\ Removing(s)' = Removing(s) /\ Command(s)' = Command(s)
      /\ StorageKey(s)' = StorageKey(s) /\ CliKey(s)' = CliKey(s) /\ job'[s] = job[s]
      /\ ~warned[s] /\ ~overlap
  BY OthersSame DEF Others, CliKey, Careful
<1>2. job[s].env \notin Disturbed /\ job[s].env # job[r].env
  BY <1>1 DEF Disturbed, Careful, Others, Inv, Alone
<1>3. /\ StorageKey(s) \in Keys \ {StorageKey(r)} /\ CliKey(s) \in Keys \ {StorageKey(r)}
  <2>1. StorageKey(s) \in Keys /\ CliKey(s) \in Keys
    BY <1>1, JobsShape DEF Inv, IInv, Running, CliKey, Keys
  <2> QED
    BY <1>2, <2>1 DEF StorageKey, CliKey
<1>4. LiveFor(StorageKey(s))' = LiveFor(StorageKey(s)) /\ LiveFor(CliKey(s))' = LiveFor(CliKey(s))
  BY <1>1, <1>3 DEF Minds, LiveFor
<1>5. \A f \in Images' : \E g \in Images :
        f[StorageKey(s)] = g[StorageKey(s)] /\ f[CliKey(s)] = g[CliKey(s)]
  BY <1>3 DEF Copies
<1>6. /\ at[s] \in {"verify", "rotate", "revoke", "try"} =>
           LiveFor(StorageKey(s)) \subseteq {held[s]} /\ \A f \in Images : f[StorageKey(s)] = held[s]
      /\ at[s] = "browser" \/ Removing(s) => LiveFor(StorageKey(s)) = {}
      /\ Command(s) = "logout" /\ kind[s] = "hosted" =>
           LiveFor(CliKey(s)) = {} /\ \A f \in Images : f[CliKey(s)] = NoCred
  BY <1>1, <1>2 DEF Inv, Follows
<1> QED
  BY <1>1, <1>4, <1>5, <1>6

\* labels of a run that has a session in hand
InHand == {"verify", "rotate", "revoke", "store", "try", "send"}

\* where a run's knowledge of sessions comes from
Learns(r) ==
  /\ \A c \in live \ live' : c = held[r] /\ at[r] \in {"rotate", "revoke"}
  /\ file' \in {file, Torn} \/ (Writing(r) /\ file' = draft[r])
  /\ at'[r] \in InHand =>
       \/ held'[r] = held[r] /\ at[r] \in InHand
       \/ held'[r] = draft[r][StorageKey(r)] /\ Writing(r)
       \/ file # Torn /\ held'[r] = file[StorageKey(r)]
       \/ issued[held'[r]] = NoKey
  /\ at'[r] \in {"open", "fill"} =>
       \/ Writing(r) /\ draft'[r] = draft[r]
       \/ /\ file # Torn
          /\ \E x \in Creds \cup {NoCred} :
               /\ draft'[r] = [file EXCEPT ![StorageKey(r)] = x]
               /\ x = NoCred \/ (x = held[r] /\ at[r] = "store")

LEMMA StoringIssued ==
  ASSUME IInv, NEW s \in Runs, Storing(s)
  PROVE  /\ held[s] \in Creds /\ issued[held[s]] = StorageKey(s)
         /\ StorageKey(s) \in Keys /\ StorageKey(s) # NoKey
<1>1. at[s] \in {"store", "open", "fill"}
  BY DEF Storing, Writing
<1>2. StorageKey(s) \in Keys /\ StorageKey(s) = Purpose(s) /\ Holds(s)
      /\ held[s] \in Creds \cup {NoCred}
  BY <1>1, Given
<1>3. held[s] # NoCred /\ issued[held[s]] = StorageKey(s)
  BY <1>1, <1>2 DEF Holds, Storing, Writing, Right
<1> QED
  BY <1>2, <1>3, NoKeyAssumption

LEMMA OthersFresh ==
  ASSUME Inv, NEW r \in Runs, at[r] # "idle", Others(r), Learns(r), NEW s \in Runs \ {r}
  PROVE  Fresh(s)'
<1> USE DEF InHand, Writing
<1> SUFFICES ASSUME Storing(s)
             PROVE  /\ held'[s] \in live'
                    /\ file' # Torn => file'[StorageKey(s)] # held'[s]
                    /\ \A q \in Runs : q # s =>
                         /\ at'[q] \in InHand => held'[q] # held'[s]
                         /\ Writing(q)' => draft'[q][StorageKey(s)] # held'[s]
  BY OthersSame DEF Fresh
<1> DEFINE mine == held[s]
           key == StorageKey(s)
<1>1. held'[s] = mine
  BY DEF Others
<1>2. /\ mine \in Creds /\ issued[mine] = key /\ key \in Keys /\ key # NoKey
      /\ mine \in live /\ (file # Torn => file[key] # mine)
      /\ \A q \in Runs : q # s => /\ at[q] \in InHand => held[q] # mine
                                  /\ Writing(q) => draft[q][key] # mine
  BY StoringIssued DEF Inv, Fresh
<1>3. /\ StorageKey(r) \in Keys /\ mine # NoCred
      /\ file # Torn => file \in Contents /\ Right(file)
      /\ Writing(r) => draft[r] \in Contents /\ Right(draft[r])
  BY <1>2, Given, NoCredAssumption DEF Inv, IInv, Holds, Writing, TypeOK
<1> HIDE DEF mine, key
<1>r. /\ at[r] \in InHand => held[r] # mine
      /\ Writing(r) => draft[r][key] # mine
  BY <1>2
<1>4. file # Torn => file[StorageKey(r)] # mine
  BY <1>2, <1>3 DEF Right
<1>5. Writing(r) => draft[r][StorageKey(r)] # mine
  BY <1>2, <1>r, <1>3 DEF Right
<1>6. mine \in live'
  BY <1>2, <1>r DEF Learns
<1>7. file' # Torn => file'[key] # mine
  BY <1>2, <1>r DEF Learns
<1>8. at'[r] \in InHand => held'[r] # mine
  BY <1>2, <1>r, <1>4, <1>5 DEF Learns
<1>9. Writing(r)' => draft'[r][key] # mine
  <2> SUFFICES ASSUME at'[r] \in {"open", "fill"} PROVE draft'[r][key] # mine
    BY DEF Writing
  <2>1. CASE Writing(r) /\ draft'[r] = draft[r]
    BY <1>r, <2>1
  <2>2. ASSUME file # Torn, NEW x \in Creds \cup {NoCred},
               draft'[r] = [file EXCEPT ![StorageKey(r)] = x],
               x = NoCred \/ (x = held[r] /\ at[r] = "store")
        PROVE  draft'[r][key] # mine
    <3>1. x # mine
      BY <1>r, <1>3, <2>2
    <3> QED
      BY <1>2, <1>3, <2>2, <3>1 DEF Contents
  <2> QED
    BY <2>1, <2>2 DEF Learns
<1>10. \A q \in Runs : q # s /\ q # r => /\ at'[q] \in InHand => held'[q] # mine
                                         /\ Writing(q)' => draft'[q][key] # mine
  BY <1>2, OthersSame DEF Others
<1> QED
  BY <1>1, <1>6, <1>7, <1>8, <1>9, <1>10 DEF key

\* A session issued just now is known to this run alone.
LEMMA NewIsFresh ==
  ASSUME Inv, NEW r \in Runs, at[r] # "idle", Others(r), NEW c \in Creds, issued[c] = NoKey,
         at'[r] = "store", held'[r] = c, c \in live', file' = file, kind' = kind
  PROVE  Fresh(r)'
<1> USE DEF InHand
<1>2. IInv
  BY DEF Inv
<1>3. \A k \in Keys : file # Torn => file[k] # c
  BY <1>2, NoKeyAssumption, NoCredAssumption DEF IInv, Right
<1>4. \A q \in Runs : at[q] \in InHand => held[q] # c
  <2> SUFFICES ASSUME NEW q \in Runs, at[q] \in InHand PROVE held[q] # c
    OBVIOUS
  <2>1. issued[held[q]] = Purpose(q) /\ Purpose(q) \in Keys
    BY <1>2, Given DEF Holds
  <2> QED
    BY <2>1, NoKeyAssumption
<1>5. \A q \in Runs : Writing(q) => \A k \in Keys : draft[q][k] # c
  <2> SUFFICES ASSUME NEW q \in Runs, Writing(q), NEW k \in Keys PROVE draft[q][k] # c
    OBVIOUS
  <2>1. Right(draft[q])
    BY <1>2, Given DEF Holds, Writing
  <2> QED
    BY <2>1, NoKeyAssumption, NoCredAssumption DEF Right
<1> DEFINE key == StorageKey(r)'
<1>6. key \in Keys
  BY <1>2, Given DEF Others, StorageKey
<1>7. \A q \in Runs : q # r => /\ at'[q] \in InHand => held'[q] # c
                               /\ Writing(q)' => draft'[q][key] # c
  BY <1>4, <1>5, <1>6 DEF Others, Writing
<1> HIDE DEF key
<1> QED
  BY <1>3, <1>6, <1>7 DEF Fresh, key

\* what has to be shown of a step of a running run
LEMMA Step ==
  ASSUME Inv, IInv', NEW r \in Runs, Running(r),
         Others(r), Careful(r), Remembers(r), Copies(r), Minds(r), Learns(r),
         InTurn', Writes(r)', Fresh(r)', Follows(r)',
         NEW key \in Keys, key = StorageKey(r), ~overlap' => SoundAt(key)' /\ TrackedAt(key)'
  PROVE  Inv'
<1>1. Sound' /\ Tracked'
  BY OtherKeys DEF Sound, Tracked
<1>2. Alone'
  <2> SUFFICES ASSUME NEW p \in Runs, NEW q \in Runs, p # q, Running(p)', Running(q)',
                      job[p].env = job[q].env
               PROVE  job[p].env \in shared
    BY DEF Alone, Others
  <2>1. Running(p) /\ Running(q)
    BY OthersSame
  <2> QED
    BY <2>1 DEF Inv, Alone
<1>3. \A s \in Runs : Writes(s)' /\ Fresh(s)' /\ Follows(s)'
  <2> SUFFICES ASSUME NEW s \in Runs \ {r} PROVE Writes(s)' /\ Fresh(s)' /\ Follows(s)'
    OBVIOUS
  <2>1. Writes(s)'
    BY OthersSame DEF Inv, Writes
  <2> QED
    BY <2>1, OthersFresh, OthersFollow DEF Running
<1> QED
  BY <1>1, <1>2, <1>3 DEF Inv

\* A run that does not write leaves the turn to the others.
LEMMA TurnStays ==
  ASSUME Inv, NEW r \in Runs, Others(r), overlap' = overlap, at'[r] \notin {"open", "fill"},
         file' = file \/ at[r] = "fill"
  PROVE  InTurn'
<1> SUFFICES ASSUME ~overlap, NEW s \in Runs, Writing(s)'
             PROVE  /\ at'[s] = "fill" => file' = Torn /\ \A q \in Runs \ {s} : ~Writing(q)'
                    /\ at'[s] = "open" =>
                         file' # Torn /\ \A k \in Keys \ {StorageKey(s)'} : draft'[s][k] = file'[k]
  BY DEF InTurn, Writing
<1>1. s # r /\ Writing(s) /\ at'[s] = at[s] /\ draft'[s] = draft[s] /\ StorageKey(s)' = StorageKey(s)
  <2>1. s # r
    BY DEF Writing
  <2> QED
    BY <2>1, OthersSame DEF Others
<1>2. file' = file
  BY <1>1 DEF Inv, InTurn
<1>3. \A q \in Runs : Writing(q)' => Writing(q)
  BY OthersSame DEF Writing
<1> QED
  BY <1>1, <1>2, <1>3 DEF Inv, InTurn

\* Where no run writes, the file is what there is.
LEMMA FileIsImage ==
  ASSUME Inv, ~overlap, file # Torn
  PROVE  Images = {file}
BY DEF Images, Inv, InTurn

LEMMA DraftIsImage ==
  ASSUME Inv, ~overlap, NEW r \in Runs, at[r] = "fill"
  PROVE  Images = {draft[r]} /\ file = Torn
BY DEF Images, Inv, InTurn, Writing

\* The next two are about a key that a step leaves alone.
LEMMA SoundStays ==
  ASSUME Inv, NEW r \in Runs, Others(r), Remembers(r), ~overlap,
         live \subseteq live', told \subseteq told', Images' \subseteq Images,
         NEW key \in Keys, key = StorageKey(r),
         \/ ~Storing(r) /\ ~(Removing(r) /\ Command(r) = "logout")
         \/ Mending(r, key) => Mending(r, key)'
  PROVE  SoundAt(key)'
<1>1. Mending(r, key) => Mending(r, key)' \/ key \in told'
  BY DEF Mending, Remembers, Loud, Others
<1>2. \A s \in Runs : Mending(s, key) => Mending(s, key)' \/ key \in told'
  BY <1>1, OthersSame
<1>3. SoundAt(key)
  BY DEF Inv, Sound
<1> QED
  BY <1>2, <1>3 DEF SoundAt

LEMMA TrackedStays ==
  ASSUME Inv, NEW r \in Runs, Running(r), Others(r), Careful(r), Remembers(r), ~overlap,
         NEW key \in Keys, key = StorageKey(r), LiveFor(key)' \subseteq LiveFor(key),
         Images' \subseteq Images,
         \/ ~Storing(r)
         \/ Storing(r)' /\ Running(r)' /\ StorageKey(r)' = key /\ held'[r] = held[r]
         \/ \A f \in Images' : f[key] = held[r]
  PROVE  TrackedAt(key)'
<1> SUFFICES ASSUME key[1] \notin Disturbed', NEW f \in Images'
             PROVE  LiveFor(key)' \subseteq {f[key]} \/ \E s \in Runs : Knows(s, key)'
  BY DEF TrackedAt
<1>1. key[1] \notin Disturbed /\ key[1] = job[r].env
  BY DEF Disturbed, Careful, Others, StorageKey
<1>2. LiveFor(key) \subseteq {f[key]} \/ \E s \in Runs : Knows(s, key)
  BY <1>1 DEF Inv, Tracked, TrackedAt
<1>3. ASSUME NEW s \in Runs, Knows(s, key) PROVE s = r
  BY <1>1, <1>3 DEF Knows, Inv, Alone, Disturbed
<1>4. Knows(r, key) => LiveFor(key)' \subseteq {f[key]} \/ Knows(r, key)'
  BY <1>1 DEF Knows, Remembers, Loud, Disturbed, Others
<1> QED
  BY <1>2, <1>3, <1>4

\* An ended run has nothing left to show, and what was reported excuses the rest.
LEMMA AtEnd ==
  ASSUME Inv, NEW r \in Runs, at'[r] = "end", warned'[r] => Command(r) = "logout",
         UNCHANGED job
  PROVE  Writes(r)' /\ Fresh(r)' /\ Follows(r)'
BY DEF Writes, Fresh, Follows, Storing, Removing, Writing, Running, Command

LEMMA LoudKey ==
  ASSUME NEW r \in Runs, Loud(r), NEW key \in Keys, key = StorageKey(r)
  PROVE  SoundAt(key)' /\ TrackedAt(key)'
BY DEF Loud, SoundAt, TrackedAt, StorageKey, Disturbed

-----------------------------------------------------------------------------
(***************************************************************************)
(* What a run's control does to the histories                              *)
(***************************************************************************)

LEMMA GotoDoes ==
  ASSUME IInv, NEW r \in Runs, NEW label, Goto(r, label)
  PROVE  /\ at'[r] = label /\ \A s \in Runs \ {r} : at'[s] = at[s]
         /\ told' = told /\ troubled' = troubled
BY DEF Goto, IInv, TypeOK

LEMMA EndDoes ==
  ASSUME IInv, NEW r \in Runs, at[r] # "idle", NEW res, End(r, res)
  PROVE  /\ at'[r] = "end" /\ \A s \in Runs \ {r} : at'[s] = at[s]
         /\ told \ {StorageKey(r)} \subseteq told' /\ troubled \subseteq troubled'
         /\ res \notin Plain => Loud(r)
         /\ res \notin Plain \/ Command(r) # "login" \/ ~Vouches(r) => told \subseteq told'
<1>1. at'[r] = "end" /\ \A s \in Runs \ {r} : at'[s] = at[s]
  BY DEF End, IInv, TypeOK
<1>2. StorageKey(r) = Purpose(r) /\ told \subseteq Keys
  BY DEF StorageKey, Purpose, IInv, TypeOK
<1>3. troubled \subseteq troubled'
  BY DEF End
<1>4. res \notin Plain => Loud(r)
  BY DEF End, Loud
<1>5. /\ told \ {StorageKey(r)} \subseteq told'
      /\ res \notin Plain \/ Command(r) # "login" \/ ~Vouches(r) => told \subseteq told'
  BY <1>2 DEF End
<1> QED
  BY <1>1, <1>3, <1>4, <1>5

\* what the control of a writing run comes to
LEMMA WrittenDoes ==
  ASSUME IInv, NEW r \in Runs, at[r] \in {"drop", "open", "fill"}, Written(r)
  PROVE  /\ \A s \in Runs \ {r} : at'[s] = at[s] /\ kind'[s] = kind[s]
         /\ told \ {StorageKey(r)} \subseteq told' /\ troubled \subseteq troubled'
         /\ Command(r) # "login" => told \subseteq told'
         /\ Command(r) # "logout" => kind' = kind
         /\ Command(r) \in {"login", "switch"} => at'[r] = "end"
         /\ Command(r) = "curl" =>
              IF at[r] = "drop" \/ draft[r][StorageKey(r)] = NoCred THEN at'[r] = "browser"
              ELSE at'[r] \in {"send", "end"}
         /\ Command(r) = "logout" =>
              /\ kind'[r] = "hosted"
              /\ \/ at'[r] = "get" /\ kind[r] = "cli"
                 \/ at'[r] = "end" /\ kind[r] = "hosted" /\ (warned'[r] => Loud(r))
<1>1. /\ \A s \in Runs \ {r} : kind'[s] = kind[s]
      /\ Command(r) # "logout" => kind' = kind
      /\ Command(r) = "logout" => kind'[r] = "hosted"
  BY DEF Written, IInv, TypeOK
<1>2. CASE Command(r) \in {"login", "switch"}
  <2>1. PICK res \in {"done", "failed"} : End(r, res)
    BY <1>2 DEF Written
  <2>2. Command(r) # "login" => told \subseteq told'
    BY <2>1, EndDoes
  <2> QED
    BY <1>1, <1>2, <2>1, <2>2, EndDoes
<1>3. CASE Command(r) = "curl"
  <2>1. IF at[r] = "drop" \/ draft[r][StorageKey(r)] = NoCred
          THEN Goto(r, "browser") ELSE Resend(r)
    BY <1>3 DEF Written
  <2>2. CASE Goto(r, "browser") /\ (at[r] = "drop" \/ draft[r][StorageKey(r)] = NoCred)
    BY <1>1, <1>3, <2>2, GotoDoes
  <2>3. CASE Goto(r, "send") /\ ~(at[r] = "drop" \/ draft[r][StorageKey(r)] = NoCred)
    BY <1>1, <1>3, <2>3, GotoDoes
  <2>4. CASE End(r, "rerun") /\ ~(at[r] = "drop" \/ draft[r][StorageKey(r)] = NoCred)
    BY <1>1, <1>3, <2>4, EndDoes
  <2> QED
    BY <2>1, <2>2, <2>3, <2>4 DEF Resend
<1>4. CASE Command(r) = "logout"
  <2>1. LogoutGoesOn(r)
    BY <1>4 DEF Written
  <2>2. CASE kind[r] = "cli" /\ Goto(r, "get")
    BY <1>1, <1>4, <2>2, GotoDoes
  <2>3. CASE kind[r] = "hosted" /\ End(r, IF warned'[r] THEN "warned" ELSE "done")
    <3>1. warned'[r] => Loud(r)
      BY <2>3, EndDoes DEF Plain
    <3> QED
      BY <1>1, <1>4, <2>3, <3>1, EndDoes
  <2> QED
    BY <1>1, <2>1, <2>2, <2>3 DEF LogoutGoesOn, IInv, TypeOK
<1> QED
  BY <1>2, <1>3, <1>4, Given

-----------------------------------------------------------------------------
(***************************************************************************)
(* The steps                                                               *)
(***************************************************************************)

LEMMA ImagesStay ==
  ASSUME Inv, NEW r \in Runs, Others(r), at'[r] # "fill",
         file' \in {file, Torn} \/ (at[r] = "fill" /\ file' = draft[r])
  PROVE  Images' \subseteq Images
<1>1. \A s \in Runs : at'[s] = "fill" => s # r /\ at[s] = "fill" /\ draft'[s] = draft[s]
  BY DEF Others
<1> QED
  BY <1>1 DEF Images

LEMMA StayingCopies ==
  ASSUME Images' \subseteq Images, NEW r \in Runs
  PROVE  Copies(r)
BY DEF Copies

LEMMA SameMinds ==
  ASSUME UNCHANGED <<live, issued>>, NEW r \in Runs
  PROVE  Minds(r) /\ \A k \in Keys : LiveFor(k)' = LiveFor(k)
BY DEF Minds, LiveFor

\* the file could not be read or written
LEMMA FailStep ==
  ASSUME Inv, IInv', NEW r \in Runs, at[r] \in {"drop", "store", "open", "fill"}, StorageFails(r),
         UNCHANGED <<issued, live, job, held, draft, shared, overlap>>,
         file' = file \/ (at[r] = "fill" /\ file' \in {draft[r], file, Torn})
  PROVE  Inv'
<1>k. PICK key \in Keys : key = StorageKey(r)
  BY Given DEF Inv
<1>1. /\ IInv /\ Running(r) /\ key \in Keys /\ key[1] = job[r].env
      /\ Command(r) \in {"login", "switch", "logout", "curl"} /\ Placed(r) /\ Writes(r)
  BY <1>k, Given DEF Inv, Running, StorageKey
<1>2. /\ \A s \in Runs \ {r} : at'[s] = at[s] /\ kind'[s] = kind[s] /\ warned'[s] = warned[s]
      /\ told \ {key} \subseteq told' /\ troubled \subseteq troubled'
      /\ warned'[r] => Command(r) = "logout"
      /\ \/ at'[r] = "end" /\ Loud(r)
         \/ at'[r] = "get" /\ warned'[r]
  <2>1. CASE Command(r) = "logout"
    <3>1. Written(r) /\ warned' = [warned EXCEPT ![r] = TRUE] /\ at[r] # "store"
      BY <1>1, <2>1 DEF StorageFails, Placed
    <3>2. warned'[r] /\ \A s \in Runs \ {r} : warned'[s] = warned[s]
      BY <1>1, <3>1 DEF IInv, TypeOK
    <3> QED
      BY <1>k, <1>1, <2>1, <3>1, <3>2, WrittenDoes
  <2>2. CASE Command(r) # "logout"
    <3>1. PICK res \in {"advised", "failed"} : End(r, res)
      BY <2>2 DEF StorageFails
    <3>2. kind' = kind /\ warned' = warned /\ ~warned[r]
      BY <1>1, <2>2 DEF StorageFails, Writes
    <3> QED
      BY <1>k, <1>1, <3>1, <3>2, EndDoes DEF Plain
  <2> QED
    BY <1>k, <2>1, <2>2
<1>3. Others(r) /\ Careful(r) /\ Remembers(r)
  BY <1>k, <1>2 DEF Others, Careful, Remembers, Running
<1>4. Copies(r) /\ Minds(r) /\ Learns(r)
  <2>1. Learns(r)
    BY <1>2 DEF Learns, InHand, Writing
  <2>2. Copies(r)
    BY <1>2, <1>3, ImagesStay, StayingCopies
  <2> QED
    BY <1>k, <2>1, <2>2, SameMinds
<1>5. InTurn'
  BY <1>2, <1>3, TurnStays
<1>6. Writes(r)' /\ Fresh(r)' /\ Follows(r)'
  <2>1. CASE at'[r] = "end"
    BY <1>2, <2>1, AtEnd
  <2>2. CASE at'[r] = "get" /\ warned'[r]
    BY <1>2, <2>2 DEF Writes, Fresh, Follows, Storing, Removing, Writing, Command
  <2> QED
    BY <1>k, <1>2, <2>1, <2>2
<1>7. SoundAt(key)' /\ TrackedAt(key)'
  <2>1. CASE Loud(r)
    BY <1>k, <1>1, <2>1, LoudKey
  <2>2. CASE at'[r] = "get" /\ warned'[r]
    <3>1. Mending(r, key)' /\ Knows(r, key)'
      BY <1>k, <1>1, <2>2 DEF Mending, Knows, Running
    <3> QED
      BY <1>k, <3>1 DEF SoundAt, TrackedAt
  <2> QED
    BY <1>k, <1>2, <2>1, <2>2
<1> QED
  BY <1>k, <1>1, <1>3, <1>4, <1>5, <1>6, <1>7, Step

\* the file has been changed, or need not be
LEMMA WrittenStep ==
  ASSUME Inv, IInv', NEW r \in Runs, at[r] \in {"drop", "fill"}, Written(r),
         UNCHANGED <<issued, live, job, held, draft, shared, overlap, warned>>,
         \/ at[r] = "drop" /\ file' = file /\ file # Torn /\ file[StorageKey(r)] = NoCred
         \/ at[r] = "fill" /\ file' \in {draft[r], Torn}
  PROVE  Inv'
<1>k. PICK key \in Keys : key = StorageKey(r)
  BY Given DEF Inv
<1>1. /\ IInv /\ Running(r) /\ key \in Keys /\ key[1] = job[r].env /\ Placed(r) /\ Holds(r)
      /\ Command(r) \in {"login", "switch", "logout", "curl"} /\ Writes(r) /\ Follows(r)
      /\ Fresh(r)
  BY <1>k, Given DEF Inv, Running, StorageKey
<1>2. /\ \A s \in Runs \ {r} : at'[s] = at[s] /\ kind'[s] = kind[s]
      /\ told \ {key} \subseteq told' /\ troubled \subseteq troubled'
      /\ Command(r) # "login" => told \subseteq told'
      /\ Command(r) # "logout" => kind' = kind
      /\ Command(r) \in {"login", "switch"} => at'[r] = "end"
      /\ Command(r) = "curl" =>
           IF at[r] = "drop" \/ draft[r][key] = NoCred THEN at'[r] = "browser"
           ELSE at'[r] \in {"send", "end"}
      /\ Command(r) = "logout" =>
           /\ kind'[r] = "hosted"
           /\ \/ at'[r] = "get" /\ kind[r] = "cli"
              \/ at'[r] = "end" /\ kind[r] = "hosted" /\ (warned'[r] => Loud(r))
  BY <1>k, <1>1, WrittenDoes
<1>3. /\ Storing(r) <=> at[r] = "fill" /\ draft[r][key] # NoCred
      /\ Removing(r) <=> ~Storing(r)
  BY <1>k DEF Storing, Removing, Writing
<1>4. at'[r] \in {"get", "browser", "send", "end"} /\ at'[r] \notin {"open", "fill", "store", "drop"}
  BY <1>1, <1>2
<1>5. Others(r) /\ Careful(r) /\ Remembers(r)
  <2>1. Others(r) /\ Careful(r)
    BY <1>k, <1>2 DEF Others, Careful
  <2>2. warned[r] => (Running(r)' /\ warned'[r]) \/ Loud(r)
    BY <1>1, <1>2 DEF Writes, Running
  <2> QED
    BY <1>k, <2>1, <2>2 DEF Remembers
<1>6. Images' \subseteq Images
  BY <1>4, <1>5, ImagesStay
<1>7. ~overlap => \A f \in Images : f[key] = IF Storing(r) THEN held[r] ELSE NoCred
  <2>1. CASE at[r] = "drop"
    BY <1>k, <1>3, <2>1, FileIsImage
  <2>2. CASE at[r] = "fill"
    BY <1>k, <1>1, <1>3, <2>2, DraftIsImage DEF Holds
  <2> QED
    BY <1>k, <2>1, <2>2
<1>8. Learns(r)
  <2>1. at'[r] = "send" => held'[r] = draft[r][key] /\ Writing(r)
    BY <1>k, <1>1, <1>2, <1>4 DEF Holds, Writing
  <2>2. file' \in {file, Torn} \/ (Writing(r) /\ file' = draft[r])
    BY DEF Writing
  <2> QED
    BY <1>k, <1>4, <2>1, <2>2 DEF Learns, InHand
<1>9. Copies(r) /\ Minds(r) /\ InTurn' /\ LiveFor(key)' = LiveFor(key)
  BY <1>k, <1>1, <1>4, <1>5, <1>6, StayingCopies, SameMinds, TurnStays
<1>10. Writes(r)' /\ Fresh(r)'
  BY <1>1, <1>4 DEF Writes, Fresh, Storing, Removing, Writing, Command
<1>11. ~overlap => TrackedAt(key)'
  <2>1. ASSUME ~overlap, Storing(r) PROVE \A f \in Images' : f[key] = held[r]
    BY <1>k, <1>6, <1>7, <2>1
  <2> QED
    BY <1>k, <1>1, <1>5, <1>6, <1>9, <2>1, TrackedStays
<1>12. ~overlap => SoundAt(key)'
  <2> SUFFICES ASSUME ~overlap, NEW f \in Images' PROVE f[key] \in live' \cup {NoCred}
    BY <1>k DEF SoundAt
  <2>1. f[key] = IF Storing(r) THEN held[r] ELSE NoCred
    BY <1>k, <1>6, <1>7
  <2>2. Storing(r) => held[r] \in live
    BY <1>1 DEF Fresh
  <2> QED
    BY <1>k, <2>1, <2>2
<1>13. Follows(r)'
  <2> SUFFICES ASSUME ~overlap', Running(r)', job'[r].env \notin Disturbed', ~warned'[r]
               PROVE  /\ at'[r] \in {"verify", "rotate", "revoke", "try"} =>
                           /\ LiveFor(StorageKey(r))' \subseteq {held'[r]}
                           /\ \A f \in Images' : f[StorageKey(r)'] = held'[r]
                      /\ at'[r] = "browser" \/ Removing(r)' => LiveFor(StorageKey(r))' = {}
                      /\ Command(r)' = "logout" /\ kind'[r] = "hosted" =>
                           LiveFor(CliKey(r))' = {} /\ \A f \in Images' : f[CliKey(r)'] = NoCred
    BY <1>k DEF Follows
  <2>1. /\ ~overlap /\ job[r].env \notin Disturbed /\ ~warned[r]
        /\ Command(r)' = Command(r) /\ CliKey(r)' = CliKey(r)
    BY <1>k, <1>2 DEF Disturbed, Command, CliKey
  <2>2. Removing(r) => LiveFor(key) = {}
    BY <1>k, <1>1, <2>1 DEF Follows
  <2>3. ~Removing(r)'
    BY <1>4 DEF Removing, Writing
  <2>4. at'[r] = "browser" => LiveFor(StorageKey(r))' = {}
    <3>1. ASSUME at'[r] = "browser" PROVE Command(r) = "curl" /\ ~Storing(r)
      BY <1>1, <1>2, <1>3, <3>1
    <3>2. ASSUME at'[r] = "browser" PROVE StorageKey(r)' = key
      BY <1>k, <1>2, <3>1, <3>2 DEF StorageKey
    <3>3. ASSUME at'[r] = "browser" PROVE LiveFor(StorageKey(r)') = {}
      BY <1>k, <1>3, <2>2, <3>1, <3>2, <3>3
    <3> QED
      BY <1>k, <3>3 DEF LiveFor
  <2>5. ASSUME Command(r) = "logout"
        PROVE  LiveFor(CliKey(r))' = {} /\ \A f \in Images' : f[CliKey(r)'] = NoCred
    <3>1. kind[r] = "cli" /\ ~Storing(r)
      BY <1>1, <1>2, <2>5 DEF Writes, Running
    <3>2. CliKey(r) = key
      BY <1>k, <3>1 DEF CliKey, StorageKey
    <3>3. LiveFor(key)' = {} /\ \A f \in Images' : f[key] = NoCred
      BY <1>k, <1>3, <1>6, <1>7, <1>9, <2>1, <2>2, <3>1
    <3> QED
      BY <1>k, <2>1, <3>2, <3>3 DEF LiveFor
  <2> QED
    BY <1>k, <1>4, <2>1, <2>3, <2>4, <2>5
<1> QED
  BY <1>k, <1>1, <1>5, <1>8, <1>9, <1>10, <1>11, <1>12, <1>13, Step

\* an end that is reported as one
LEMMA LoudStep ==
  ASSUME Inv, IInv', NEW r \in Runs, Running(r), NEW res, End(r, res), res \notin Plain,
         UNCHANGED <<file, job, kind, draft, warned, shared, overlap>>,
         \A s \in Runs \ {r} : held'[s] = held[s],
         \A c \in live \ live' : c = held[r] /\ at[r] \in {"rotate", "revoke"},
         Minds(r)
  PROVE  Inv'
<1>k. PICK key \in Keys : key = StorageKey(r)
  BY Given DEF Inv, Running
<1>1. /\ at'[r] = "end" /\ Loud(r) /\ \A s \in Runs \ {r} : at'[s] = at[s]
      /\ told \ {StorageKey(r)} \subseteq told' /\ troubled \subseteq troubled'
  BY EndDoes DEF Inv, Running
<1>2. Others(r) /\ Careful(r) /\ Remembers(r)
  BY <1>1 DEF Others, Careful, Remembers
<1>3. Copies(r) /\ Learns(r) /\ InTurn'
  <2>1. Learns(r)
    BY <1>1 DEF Learns, InHand
  <2> QED
    BY <1>1, <1>2, <2>1, ImagesStay, StayingCopies, TurnStays
<1>4. Writes(r)' /\ Fresh(r)' /\ Follows(r)'
  <2>1. warned'[r] => Command(r) = "logout"
    BY DEF Inv, Writes
  <2> QED
    BY <1>1, <2>1, AtEnd
<1>5. SoundAt(key)' /\ TrackedAt(key)'
  BY <1>k, <1>1, LoudKey
<1> QED
  BY <1>k, <1>2, <1>3, <1>4, <1>5, Step

LEMMA CrashInv ==
  ASSUME Inv, IInv', NEW r \in Runs, Crash(r)
  PROVE  Inv'
<1>1. "crashed" \notin Plain
  BY DEF Plain
<1> QED
  BY <1>1, LoudStep, SameMinds DEF Crash

\* a step that has nothing to do with the file
LEMMA QuietStep ==
  ASSUME Inv, NEW r \in Runs, Running(r), at[r] \notin {"open", "fill"},
         at'[r] \notin {"open", "fill"}, Others(r), UNCHANGED <<file, overlap>>
  PROVE  Images' \subseteq Images /\ Copies(r) /\ InTurn'
BY ImagesStay, StayingCopies, TurnStays

\* What a run found in the file is the one good session of the key.
LEMMA FoundIsAll ==
  ASSUME Inv, NEW r \in Runs, at[r] = "get", file # Torn, ~overlap,
         job[r].env \notin Disturbed, ~warned[r], NEW key \in Keys, key = StorageKey(r)
  PROVE  LiveFor(key) \subseteq {file[key]} /\ Images = {file}
<1>1. Images = {file}
  BY FileIsImage
<1>2. key[1] = job[r].env /\ Running(r)
  BY DEF StorageKey, Running
<1>3. LiveFor(key) \subseteq {file[key]} \/ \E s \in Runs : Knows(s, key)
  BY <1>1, <1>2 DEF Inv, Tracked, TrackedAt
<1>4. ASSUME NEW s \in Runs, Knows(s, key) PROVE FALSE
  <2>1. s = r
    BY <1>2, <1>4 DEF Knows, Inv, Alone, Disturbed
  <2> QED
    BY <1>4, <2>1 DEF Knows, Storing, Writing
<1> QED
  BY <1>1, <1>3, <1>4

LEMMA FoundGoes ==
  ASSUME Inv, NEW r \in Runs, at[r] = "get", file # Torn, Found(r),
         held'[r] = file[StorageKey(r)]
  PROVE  /\ \A s \in Runs \ {r} : at'[s] = at[s]
         /\ told \subseteq told' /\ troubled \subseteq troubled'
         /\ \/ at'[r] = "end" /\ Loud(r)
            \/ /\ at'[r] \in {"verify", "rotate", "revoke", "try"}
               /\ Command(r) = "logout" => at'[r] = "revoke"
            \/ at'[r] = "browser" /\ held'[r] \notin live /\ Command(r) # "logout"
            \/ at'[r] = "drop" /\ held'[r] \notin live /\ Command(r) = "logout"
<1>1. NoCred \notin live /\ Command(r) \in {"login", "switch", "logout", "curl"} /\ IInv
  BY Given, NoCredAssumption DEF Inv, IInv, TypeOK
<1>2. CASE Command(r) = "login"
  <2>1. Goto(r, IF held'[r] = NoCred THEN "browser" ELSE "verify")
    BY <1>2 DEF Found
  <2> QED
    BY <1>1, <1>2, <2>1, GotoDoes
<1>3. CASE Command(r) = "switch"
  <2>1. IF held'[r] = NoCred THEN End(r, "failed") ELSE Goto(r, "rotate")
    BY <1>3 DEF Found
  <2>2. "failed" \notin Plain
    BY DEF Plain
  <2> QED
    BY <1>1, <1>3, <2>1, <2>2, GotoDoes, EndDoes
<1>4. CASE Command(r) = "logout"
  <2>1. Goto(r, IF held'[r] = NoCred THEN "drop" ELSE "revoke")
    BY <1>4 DEF Found
  <2> QED
    BY <1>1, <1>4, <2>1, GotoDoes
<1>5. CASE Command(r) = "curl"
  <2>1. \/ held'[r] # NoCred /\ Goto(r, "try")
        \/ held'[r] \notin live /\ Goto(r, "browser")
    BY <1>5 DEF Found
  <2> QED
    BY <1>1, <1>5, <2>1, GotoDoes
<1> QED
  BY <1>1, <1>2, <1>3, <1>4, <1>5

LEMMA GetInv ==
  ASSUME Inv, IInv', NEW r \in Runs, Get(r)
  PROVE  Inv'
<1>k. PICK key \in Keys : key = StorageKey(r)
  BY Given DEF Inv, Get
<1>1. /\ at[r] = "get" /\ UNCHANGED <<file, issued, live, job, kind, draft, shared, overlap>>
      /\ IInv /\ Running(r) /\ Writes(r) /\ Follows(r)
      /\ Command(r) \in {"login", "switch", "logout", "curl"}
      /\ ~Storing(r) /\ ~Removing(r) /\ key \in Keys
  BY Given DEF Get, Running, Inv, Storing, Removing, Writing
<1>2. \A s \in Runs \ {r} : held'[s] = held[s]
  BY <1>1 DEF Get, IInv, TypeOK
<1>3. CASE file = Torn /\ Command(r) # "logout"
  <2>1. End(r, "failed") /\ UNCHANGED warned
    BY <1>3 DEF Get
  <2>2. "failed" \notin Plain
    BY DEF Plain
  <2> QED
    BY <1>1, <1>2, <2>1, <2>2, LoudStep, SameMinds
<1>4. CASE file = Torn /\ Command(r) = "logout"
  <2>1. Goto(r, "drop") /\ warned' = [warned EXCEPT ![r] = TRUE]
    BY <1>4 DEF Get
  <2>2. /\ at'[r] = "drop" /\ \A s \in Runs \ {r} : at'[s] = at[s] /\ warned'[s] = warned[s]
        /\ warned'[r] /\ told' = told /\ troubled' = troubled
    BY <1>1, <2>1, GotoDoes DEF IInv, TypeOK
  <2>3. Others(r) /\ Careful(r) /\ Remembers(r)
    BY <1>1, <1>2, <2>2 DEF Others, Careful, Remembers, Running
  <2>4. Images' \subseteq Images /\ Copies(r) /\ InTurn'
    BY <1>1, <2>2, <2>3, QuietStep
  <2>5. Learns(r) /\ Minds(r) /\ LiveFor(key)' = LiveFor(key)
    <3>1. Learns(r)
      BY <1>1, <2>2 DEF Learns, InHand
    <3> QED
      BY <1>1, <3>1, SameMinds
  <2>6. Writes(r)' /\ Fresh(r)' /\ Follows(r)'
    BY <1>1, <1>4, <2>2 DEF Writes, Fresh, Follows, Storing, Removing, Writing, Command
  <2>7. ~overlap' => SoundAt(key)' /\ TrackedAt(key)'
    BY <1>k, <1>1, <2>2, <2>3, <2>4, <2>5, SoundStays, TrackedStays
  <2> QED
    BY <1>k, <1>1, <2>3, <2>4, <2>5, <2>6, <2>7, Step
<1>5. CASE file # Torn
  <2>1. held'[r] = file[key] /\ Found(r) /\ UNCHANGED warned
    BY <1>k, <1>1, <1>5 DEF Get, IInv, TypeOK
  <2>2. /\ \A s \in Runs \ {r} : at'[s] = at[s]
        /\ told \subseteq told' /\ troubled \subseteq troubled'
        /\ \/ at'[r] = "end" /\ Loud(r)
           \/ /\ at'[r] \in {"verify", "rotate", "revoke", "try"}
              /\ Command(r) = "logout" => at'[r] = "revoke"
           \/ at'[r] = "browser" /\ held'[r] \notin live /\ Command(r) # "logout"
           \/ at'[r] = "drop" /\ held'[r] \notin live /\ Command(r) = "logout"
    BY <1>k, <1>1, <1>5, <2>1, FoundGoes
  <2>3. Others(r) /\ Careful(r) /\ Remembers(r)
    <3>1. Running(r)' \/ Loud(r)
      BY <2>2 DEF Running
    <3> QED
      BY <1>1, <1>2, <2>1, <2>2, <3>1 DEF Others, Careful, Remembers
  <2>4. Images' \subseteq Images /\ Copies(r) /\ InTurn'
    BY <1>1, <2>2, <2>3, QuietStep
  <2>5. Learns(r) /\ Minds(r) /\ LiveFor(key)' = LiveFor(key)
    <3>1. Learns(r)
      BY <1>k, <1>1, <1>5, <2>1, <2>2 DEF Learns, InHand
    <3> QED
      BY <1>1, <3>1, SameMinds
  <2>6. Writes(r)' /\ Fresh(r)'
    BY <1>1, <2>1, <2>2 DEF Writes, Fresh, Storing, Removing, Writing, Command
  <2>7. ~overlap' => SoundAt(key)' /\ TrackedAt(key)'
    BY <1>k, <1>1, <2>2, <2>3, <2>4, <2>5, SoundStays, TrackedStays
  <2>8. Follows(r)'
    <3> SUFFICES ASSUME ~overlap, Running(r)', job[r].env \notin Disturbed', ~warned[r]
                 PROVE  /\ at'[r] \in {"verify", "rotate", "revoke", "try"} =>
                             /\ LiveFor(key)' \subseteq {held'[r]}
                             /\ \A f \in Images' : f[key] = held'[r]
                        /\ at'[r] = "browser" \/ Removing(r)' => LiveFor(key)' = {}
                        /\ Command(r) = "logout" /\ kind[r] = "hosted" =>
                             LiveFor(CliKey(r))' = {} /\ \A f \in Images' : f[CliKey(r)] = NoCred
      <4>1. /\ StorageKey(r)' = key /\ CliKey(r)' = CliKey(r) /\ Command(r)' = Command(r)
            /\ LiveFor(StorageKey(r))' = LiveFor(key)'
        BY <1>k, <1>1 DEF StorageKey, CliKey, Command, LiveFor
      <4> QED
        BY <1>1, <2>1, <4>1 DEF Follows
    <3>1. job[r].env \notin Disturbed
      BY <1>1, <2>2 DEF Disturbed
    <3>2. LiveFor(key) \subseteq {file[key]} /\ Images = {file}
      BY <1>k, <1>1, <1>5, <3>1, FoundIsAll
    <3>3. held'[r] \notin live => LiveFor(key)' = {}
      BY <2>1, <2>5, <3>2 DEF LiveFor
    <3>4. Removing(r)' => at'[r] = "drop"
      BY <2>2 DEF Removing, Writing
    <3>5. at'[r] # "end"
      BY DEF Running
    <3>6. LiveFor(CliKey(r))' = LiveFor(CliKey(r))
      BY <1>1 DEF LiveFor, CliKey
    <3>7. Command(r) = "logout" /\ kind[r] = "hosted" =>
            LiveFor(CliKey(r)) = {} /\ \A f \in Images : f[CliKey(r)] = NoCred
      BY <1>1, <3>1 DEF Follows
    <3> QED
      BY <2>1, <2>2, <2>4, <2>5, <3>2, <3>3, <3>4, <3>5, <3>6, <3>7
  <2> QED
    BY <1>k, <1>1, <2>3, <2>4, <2>5, <2>6, <2>7, <2>8, Step
<1> QED
  BY <1>1, <1>3, <1>4, <1>5

\* an end that changes neither the file nor a session
LEMMA CalmEnd ==
  ASSUME Inv, IInv', NEW r \in Runs, at[r] \in {"verify", "rotate", "try", "send"},
         NEW res, End(r, res), at[r] = "verify" /\ res \in Plain => held[r] \in live,
         UNCHANGED <<file, issued, live, job, kind, held, draft, warned, shared, overlap>>
  PROVE  Inv'
<1>k. PICK key \in Keys : key = StorageKey(r)
  BY Given DEF Inv
<1>1. /\ IInv /\ Running(r) /\ Writes(r) /\ Placed(r) /\ ~Storing(r) /\ ~Removing(r)
      /\ StorageKey(r) = Purpose(r)
  BY Given DEF Running, Inv, Storing, Removing, Writing
<1>2. /\ at'[r] = "end" /\ \A s \in Runs \ {r} : at'[s] = at[s]
      /\ told \ {key} \subseteq told' /\ troubled \subseteq troubled'
      /\ res \notin Plain => Loud(r)
      /\ res \notin Plain \/ Command(r) # "login" \/ ~Vouches(r) => told \subseteq told'
  BY <1>k, <1>1, EndDoes DEF Running
<1>3. CASE res \notin Plain
  BY <1>1, <1>3, LoudStep, SameMinds
<1>4. CASE res \in Plain
  <2>1. ~warned[r]
    BY <1>1, <1>4 DEF Writes, Placed
  <2>2. Others(r) /\ Careful(r) /\ Remembers(r)
    BY <1>k, <1>2, <2>1 DEF Others, Careful, Remembers
  <2>3. Images' \subseteq Images /\ Copies(r) /\ InTurn'
    BY <1>1, <1>2, <2>2, QuietStep
  <2>4. Learns(r) /\ Minds(r) /\ LiveFor(key)' = LiveFor(key)
    <3>1. Learns(r)
      BY <1>2 DEF Learns, InHand
    <3> QED
      BY <3>1, SameMinds
  <2>5. Writes(r)' /\ Fresh(r)' /\ Follows(r)'
    BY <1>2, <2>1, AtEnd
  <2>6. ~overlap => TrackedAt(key)'
    BY <1>k, <1>1, <2>2, <2>3, <2>4, TrackedStays
  <2>7. ~overlap => SoundAt(key)'
    <3>1. CASE told \subseteq told'
      BY <1>k, <1>1, <2>2, <2>3, <3>1, SoundStays
    <3>2. CASE Command(r) = "login" /\ Vouches(r) /\ ~(told \subseteq told')
      <4>1. at[r] = "verify"
        BY <1>1, <3>2 DEF Placed
      <4>2. held[r] \in live /\ file # Torn /\ file[key] = held[r]
        BY <1>k, <1>1, <1>4, <3>2, <4>1 DEF Vouches
      <4>3. ~overlap => Images' \subseteq {file}
        BY <2>3, <4>2, FileIsImage
      <4> QED
        BY <4>2, <4>3 DEF SoundAt
    <3> QED
      BY <1>2, <3>1, <3>2
  <2> QED
    BY <1>k, <1>1, <2>2, <2>3, <2>4, <2>5, <2>6, <2>7, Step
<1> QED
  BY <1>3, <1>4

LEMMA SendInv ==
  ASSUME Inv, IInv', NEW r \in Runs, Send(r)
  PROVE  Inv'
BY CalmEnd DEF Send

\* What a run that drops, or logs in, has in hand has ended: nothing is left.
LEMMA HeldIsAll ==
  ASSUME Inv, NEW r \in Runs, at[r] \in {"verify", "rotate", "revoke", "try"}, ~overlap,
         job[r].env \notin Disturbed, ~warned[r], NEW key \in Keys, key = StorageKey(r)
  PROVE  LiveFor(key) \subseteq {held[r]}
<1>1. Running(r)
  BY DEF Running
<1> QED
  BY <1>1 DEF Inv, Follows

\* on to the browser or to removing, with nothing left that is stored and good
LEMMA NothingLeft ==
  ASSUME Inv, IInv', NEW r \in Runs, at[r] \in {"verify", "try", "send", "drop"}, Command(r) # "logout",
         at'[r] \in {"browser", "drop"}, at'[r] = "drop" => Command(r) = "curl",
         \A s \in Runs \ {r} : at'[s] = at[s],
         told' = told, troubled \subseteq troubled',
         UNCHANGED <<file, issued, live, job, kind, held, draft, warned, shared, overlap>>,
         ~Storing(r), ~(Removing(r) /\ Command(r) = "logout"),
         ~overlap /\ job[r].env \notin Disturbed' => LiveFor(StorageKey(r)) = {}
  PROVE  Inv'
<1>k. PICK key \in Keys : key = StorageKey(r)
  BY Given DEF Inv
<1>1. IInv /\ Running(r) /\ Writes(r) /\ Running(r)'
  BY DEF Running, Inv
<1>2. Others(r) /\ Careful(r) /\ Remembers(r)
  BY <1>1 DEF Others, Careful, Remembers
<1>3. Images' \subseteq Images /\ Copies(r) /\ InTurn'
  BY <1>1, <1>2, QuietStep
<1>4. Learns(r) /\ Minds(r) /\ LiveFor(key)' = LiveFor(key)
  <2>1. Learns(r)
    BY DEF Learns, InHand
  <2> QED
    BY <2>1, SameMinds
<1>5. Writes(r)' /\ Fresh(r)'
  BY <1>1 DEF Writes, Fresh, Storing, Removing, Writing, Command
<1>6. ~overlap' => SoundAt(key)' /\ TrackedAt(key)'
  BY <1>k, <1>1, <1>2, <1>3, <1>4, SoundStays, TrackedStays
<1>7. Follows(r)'
  <2>1. /\ StorageKey(r)' = key /\ Command(r)' = Command(r)
        /\ LiveFor(StorageKey(r))' = LiveFor(key)'
    BY <1>k DEF StorageKey, Command, LiveFor
  <2> QED
    BY <1>k, <1>4, <2>1 DEF Follows
<1> QED
  BY <1>k, <1>1, <1>2, <1>3, <1>4, <1>5, <1>6, <1>7, Step

LEMMA VerifyInv ==
  ASSUME Inv, IInv', NEW r \in Runs, Verify(r)
  PROVE  Inv'
<1>1. /\ at[r] = "verify" /\ Command(r) = "login" /\ ~Storing(r) /\ IInv
      /\ UNCHANGED <<file, issued, live, job, kind, held, draft, warned, shared, overlap>>
  BY Given DEF Verify, Inv, Placed, Storing, Writing
<1>2. CASE End(r, "failed")
  BY <1>1, <1>2, CalmEnd DEF Plain
<1>3. CASE held[r] \in live /\ End(r, "done")
  BY <1>1, <1>3, CalmEnd
<1>4. CASE held[r] \notin live /\ Goto(r, "browser")
  <2>1. /\ at'[r] = "browser" /\ \A s \in Runs \ {r} : at'[s] = at[s]
        /\ told' = told /\ troubled' = troubled
    BY <1>1, <1>4, GotoDoes
  <2>2. ~warned[r]
    BY <1>1 DEF Inv, Writes
  <2>3. ASSUME ~overlap, job[r].env \notin Disturbed' PROVE LiveFor(StorageKey(r)) = {}
    <3>1. LiveFor(StorageKey(r)) \subseteq {held[r]}
      BY <1>1, <2>1, <2>2, <2>3, Given, HeldIsAll DEF Disturbed
    <3> QED
      BY <1>4, <3>1 DEF LiveFor
  <2> QED
    BY <1>1, <2>1, <2>3, NothingLeft
<1> QED
  BY <1>2, <1>3, <1>4 DEF Verify

LEMMA TryInv ==
  ASSUME Inv, IInv', NEW r \in Runs, Try(r)
  PROVE  Inv'
<1>1. /\ at[r] = "try" /\ Command(r) = "curl" /\ ~Storing(r) /\ IInv
      /\ UNCHANGED <<file, issued, live, job, kind, held, draft, warned, shared, overlap>>
  BY Given DEF Try, Inv, Placed, Storing, Writing
<1>2. CASE End(r, "answered")
  BY <1>1, <1>2, CalmEnd
<1>3. CASE /\ at' = [at EXCEPT ![r] = "drop"] /\ told' = told
           /\ troubled' = IF held[r] \in live THEN troubled \cup {job[r].env} ELSE troubled
  <2>1. /\ at'[r] = "drop" /\ \A s \in Runs \ {r} : at'[s] = at[s]
        /\ told' = told /\ troubled \subseteq troubled'
        /\ held[r] \in live => job[r].env \in troubled'
    BY <1>1, <1>3 DEF IInv, TypeOK
  <2>2. ~warned[r]
    BY <1>1 DEF Inv, Writes
  <2>3. ASSUME ~overlap, job[r].env \notin Disturbed' PROVE LiveFor(StorageKey(r)) = {}
    <3>1. LiveFor(StorageKey(r)) \subseteq {held[r]}
      BY <1>1, <2>1, <2>2, <2>3, Given, HeldIsAll DEF Disturbed
    <3> QED
      BY <2>1, <2>3, <3>1 DEF LiveFor, Disturbed
  <2> QED
    BY <1>1, <2>1, <2>3, NothingLeft
<1> QED
  BY <1>2, <1>3 DEF Try

LEMMA RevokeInv ==
  ASSUME Inv, IInv', NEW r \in Runs, Revoke(r)
  PROVE  Inv'
<1>k. PICK key \in Keys : key = StorageKey(r)
  BY Given DEF Inv, Revoke
<1>1. /\ at[r] = "revoke" /\ Command(r) = "logout" /\ ~Storing(r) /\ ~Removing(r) /\ IInv
      /\ Goto(r, "drop") /\ Running(r) /\ Follows(r)
      /\ UNCHANGED <<file, issued, job, kind, held, draft, shared, overlap>>
  BY Given DEF Revoke, Inv, Placed, Storing, Removing, Writing, Running
<1>2. /\ at'[r] = "drop" /\ \A s \in Runs \ {r} : at'[s] = at[s]
      /\ told' = told /\ troubled' = troubled
  BY <1>1, GotoDoes
<1>3. /\ \A s \in Runs \ {r} : warned'[s] = warned[s]
      /\ live' \in {live, live \ {held[r]}}
      /\ warned[r] => warned'[r]
      /\ ~warned'[r] => live' = live \ {held[r]}
  <2>1. CASE live' = live \ {held[r]} /\ UNCHANGED warned
    BY <2>1
  <2>2. CASE live' \in {live, live \ {held[r]}} /\ warned' = [warned EXCEPT ![r] = TRUE]
    BY <1>1, <2>2 DEF IInv, TypeOK
  <2> QED
    BY <2>1, <2>2 DEF Revoke
<1>4. Others(r) /\ Careful(r) /\ Remembers(r)
  BY <1>1, <1>2, <1>3 DEF Others, Careful, Remembers, Running
<1>5. Images' \subseteq Images /\ Copies(r) /\ InTurn'
  BY <1>1, <1>2, <1>4, QuietStep
<1>6. Learns(r) /\ Minds(r) /\ \A k \in Keys : LiveFor(k)' \subseteq LiveFor(k)
  <2>1. Learns(r)
    BY <1>1, <1>2, <1>3 DEF Learns, InHand
  <2>2. issued[held[r]] = key
    BY <1>k, <1>1, Given DEF Holds
  <2> QED
    BY <1>k, <1>1, <1>3, <2>1, <2>2 DEF Minds, LiveFor
<1>7. Writes(r)' /\ Fresh(r)'
  <2>1. ~Storing(r)' /\ Command(r)' = Command(r)
    BY <1>1, <1>2 DEF Storing, Writing, Command
  <2> QED
    BY <1>1, <1>2, <2>1 DEF Writes, Fresh
<1>8. ~overlap => SoundAt(key)'
  <2>1. Mending(r, key)'
    BY <1>k, <1>1, <1>2 DEF Mending, Removing, Command, StorageKey
  <2> QED
    BY <2>1 DEF SoundAt
<1>9. ~overlap => TrackedAt(key)'
  BY <1>k, <1>1, <1>4, <1>5, <1>6, TrackedStays
<1>10. Follows(r)'
  <2> SUFFICES ASSUME ~overlap, job[r].env \notin Disturbed', ~warned'[r]
               PROVE  /\ LiveFor(key)' = {}
                      /\ kind[r] = "hosted" =>
                           LiveFor(CliKey(r))' = {} /\ \A f \in Images' : f[CliKey(r)] = NoCred
    <3>1. /\ StorageKey(r)' = key /\ CliKey(r)' = CliKey(r)
          /\ LiveFor(StorageKey(r))' = LiveFor(key)'
      BY <1>k, <1>1 DEF StorageKey, CliKey, LiveFor
    <3> QED
      BY <1>1, <1>2, <3>1 DEF Follows
  <2>1. job[r].env \notin Disturbed /\ ~warned[r] /\ live' = live \ {held[r]}
    BY <1>1, <1>2, <1>3 DEF Disturbed
  <2>2. LiveFor(key) \subseteq {held[r]}
    BY <1>k, <1>1, <2>1, HeldIsAll
  <2>3. LiveFor(key)' = {}
    BY <1>1, <2>1, <2>2 DEF LiveFor
  <2>4. kind[r] = "hosted" =>
          LiveFor(CliKey(r)) = {} /\ \A f \in Images : f[CliKey(r)] = NoCred
    BY <1>1, <2>1 DEF Follows
  <2>5. LiveFor(CliKey(r))' \subseteq LiveFor(CliKey(r))
    BY <1>1, <2>1 DEF LiveFor, CliKey
  <2> QED
    BY <1>5, <2>3, <2>4, <2>5
<1> QED
  BY <1>k, <1>1, <1>4, <1>5, <1>6, <1>7, <1>8, <1>9, <1>10, Step

\* of the sessions, those of the run's own key change
LEMMA IssueMinds ==
  ASSUME IInv, NEW r \in Runs, at[r] # "idle", NEW c \in Creds, Issue(c, Purpose(r)),
         NEW key \in Keys, key = StorageKey(r),
         \/ live' = live \cup {c}
         \/ issued[held[r]] = key /\ live' = (live \ {held[r]}) \cup {c}
  PROVE  /\ Minds(r) /\ c \notin live /\ c \in live' /\ issued[c] = NoKey
         /\ LiveFor(key)' \subseteq LiveFor(key) \cup {c}
         /\ live' # live \cup {c} => LiveFor(key)' \subseteq (LiveFor(key) \ {held[r]}) \cup {c}
<1>1. /\ issued[c] = NoKey /\ issued'[c] = key /\ key # NoKey
      /\ \A d \in Creds : d # c => issued'[d] = issued[d]
      /\ live \subseteq Creds /\ c \notin live
  BY Given, NoKeyAssumption DEF Issue, IInv, TypeOK
<1>2. Minds(r)
  BY <1>1 DEF Minds, LiveFor
<1> QED
  BY <1>1, <1>2 DEF LiveFor

\* A run has a new session to store, the one good one of its key.
LEMMA NewSession ==
  ASSUME Inv, IInv', NEW r \in Runs, at[r] \in {"browser", "rotate"}, NEW c \in Creds,
         Issue(c, Purpose(r)), held' = [held EXCEPT ![r] = c], Goto(r, "store"),
         UNCHANGED <<file, job, kind, draft, warned, shared, overlap>>,
         \/ at[r] = "browser" /\ live' = live \cup {c}
         \/ at[r] = "rotate" /\ live' = (live \ {held[r]}) \cup {c}
  PROVE  Inv'
<1>k. PICK key \in Keys : key = StorageKey(r)
  BY Given DEF Inv
<1>1. /\ ~Storing(r) /\ ~Removing(r) /\ IInv /\ Running(r) /\ Follows(r) /\ ~warned[r]
      /\ at[r] = "rotate" => Command(r) = "switch"
      /\ at[r] = "browser" => Command(r) \in {"login", "curl"}
      /\ at[r] = "rotate" => issued[held[r]] = key
  <2>1. /\ IInv /\ Placed(r) /\ Holds(r) /\ Purpose(r) = StorageKey(r) /\ Follows(r) /\ Writes(r)
    BY Given DEF Inv
  <2> QED
    BY <1>k, <2>1 DEF Placed, Holds, Storing, Removing, Writing, Running, Writes
<1>2. /\ at'[r] = "store" /\ \A s \in Runs \ {r} : at'[s] = at[s]
      /\ told' = told /\ troubled' = troubled
      /\ held'[r] = c /\ \A s \in Runs \ {r} : held'[s] = held[s]
  BY <1>1, GotoDoes DEF IInv, TypeOK
<1>3. Others(r) /\ Careful(r) /\ Remembers(r)
  BY <1>1, <1>2 DEF Others, Careful, Remembers
<1>4. Images' \subseteq Images /\ Copies(r) /\ InTurn'
  BY <1>1, <1>2, <1>3, QuietStep
<1>5. /\ Minds(r) /\ c \in live' /\ issued[c] = NoKey
      /\ LiveFor(key)' \subseteq LiveFor(key) \cup {c}
      /\ at[r] = "rotate" => LiveFor(key)' \subseteq (LiveFor(key) \ {held[r]}) \cup {c}
  <2>1. /\ Minds(r) /\ c \notin live /\ c \in live' /\ issued[c] = NoKey
        /\ LiveFor(key)' \subseteq LiveFor(key) \cup {c}
        /\ live' # live \cup {c} => LiveFor(key)' \subseteq (LiveFor(key) \ {held[r]}) \cup {c}
    BY <1>k, <1>1, IssueMinds
  <2>2. at[r] = "rotate" => held[r] \notin live' \/ held[r] = c
    OBVIOUS
  <2> QED
    BY <2>1, <2>2 DEF LiveFor
<1>6. Learns(r)
  BY <1>2, <1>5 DEF Learns, InHand
<1>7. Writes(r)' /\ Fresh(r)'
  <2>1. Fresh(r)'
    BY <1>2, <1>3, <1>5, NewIsFresh
  <2>2. Command(r)' = Command(r) /\ ~Removing(r)' /\ Command(r) # "logout"
    BY <1>1, <1>2 DEF Command, Removing, Writing
  <2> QED
    BY <1>1, <2>1, <2>2 DEF Writes
<1>8. ~overlap => SoundAt(key)'
  <2>1. CASE at[r] = "rotate"
    <3>1. Mending(r, key)'
      BY <1>k, <1>1, <1>2, <2>1 DEF Mending, Storing, Command, StorageKey
    <3> QED
      BY <3>1 DEF SoundAt
  <2>2. CASE at[r] = "browser"
    <3>1. live \subseteq live'
      BY <2>2
    <3> QED
      BY <1>k, <1>1, <1>2, <1>3, <1>4, <3>1, SoundStays
  <2> QED
    BY <2>1, <2>2
<1>9. ~overlap => TrackedAt(key)'
  <2> SUFFICES ASSUME ~overlap, key[1] \notin Disturbed'
               PROVE  Knows(r, key)'
    BY DEF TrackedAt
  <2>1. key[1] = job[r].env /\ job[r].env \notin Disturbed
    BY <1>k, <1>2 DEF StorageKey, Disturbed
  <2>2. CASE at[r] = "browser"
    <3>1. LiveFor(key) = {}
      BY <1>k, <1>1, <2>1, <2>2 DEF Follows
    <3>2. LiveFor(key)' \subseteq {c}
      BY <1>5, <3>1
    <3> QED
      BY <1>k, <1>2, <2>1, <3>2 DEF Knows, Storing, Running, StorageKey
  <2>3. CASE at[r] = "rotate"
    <3>1. LiveFor(key) \subseteq {held[r]}
      BY <1>k, <1>1, <2>1, <2>3, HeldIsAll
    <3>2. LiveFor(key)' \subseteq {c}
      BY <1>5, <2>3, <3>1
    <3> QED
      BY <1>k, <1>2, <2>1, <3>2 DEF Knows, Storing, Running, StorageKey
  <2> QED
    BY <2>2, <2>3
<1>10. Follows(r)'
  BY <1>1, <1>2 DEF Follows, Removing, Writing, Command
<1> QED
  BY <1>k, <1>1, <1>3, <1>4, <1>5, <1>6, <1>7, <1>8, <1>9, <1>10, Step

LEMMA BrowserInv ==
  ASSUME Inv, IInv', NEW r \in Runs, Browser(r)
  PROVE  Inv'
<1>k. PICK key \in Keys : key = StorageKey(r)
  BY Given DEF Inv, Browser
<1>1. /\ at[r] = "browser" /\ IInv /\ Running(r) /\ "failed" \notin Plain
      /\ UNCHANGED <<file, job, kind, draft, warned, shared, overlap>>
  BY DEF Browser, Inv, Running, Plain
<1>2. CASE End(r, "failed") /\ UNCHANGED <<issued, live, held>>
  BY <1>1, <1>2, LoudStep, SameMinds
<1>3. ASSUME NEW c \in Creds, Issue(c, Purpose(r)), live' = live \cup {c},
             \/ held' = [held EXCEPT ![r] = c] /\ Goto(r, "store")
             \/ End(r, "failed") /\ UNCHANGED held
      PROVE  Inv'
  <2>1. CASE held' = [held EXCEPT ![r] = c] /\ Goto(r, "store")
    BY <1>1, <1>3, <2>1, NewSession
  <2>2. CASE End(r, "failed") /\ UNCHANGED held
    <3>1. Minds(r)
      BY <1>k, <1>1, <1>3, IssueMinds
    <3> QED
      BY <1>1, <1>3, <2>2, <3>1, LoudStep
  <2> QED
    BY <1>3, <2>1, <2>2
<1> QED
  BY <1>2, <1>3 DEF Browser

LEMMA RotateInv ==
  ASSUME Inv, IInv', NEW r \in Runs, Rotate(r)
  PROVE  Inv'
<1>k. PICK key \in Keys : key = StorageKey(r)
  BY Given DEF Inv, Rotate
<1>1. /\ at[r] = "rotate" /\ IInv /\ Running(r)
      /\ UNCHANGED <<file, job, kind, draft, warned, shared, overlap>>
      /\ issued[held[r]] = key /\ {"failed", "advised"} \cap Plain = {}
  BY <1>k, Given DEF Rotate, Inv, Running, Plain, Holds
<1>2. CASE End(r, "failed") /\ UNCHANGED <<issued, live, held>>
  BY <1>1, <1>2, LoudStep, SameMinds
<1>3. CASE held[r] \in live /\ End(r, "done") /\ UNCHANGED <<issued, live, held>>
  BY <1>1, <1>3, CalmEnd
<1>4. ASSUME NEW c \in Creds, Issue(c, Purpose(r)), live' = (live \ {held[r]}) \cup {c},
             \/ held' = [held EXCEPT ![r] = c] /\ Goto(r, "store")
             \/ (\E res \in {"failed", "advised"} : End(r, res)) /\ UNCHANGED held
      PROVE  Inv'
  <2>1. CASE held' = [held EXCEPT ![r] = c] /\ Goto(r, "store")
    BY <1>1, <1>4, <2>1, NewSession
  <2>2. ASSUME NEW res \in {"failed", "advised"}, End(r, res), UNCHANGED held PROVE Inv'
    <3>1. Minds(r)
      BY <1>k, <1>1, <1>4, IssueMinds
    <3>2. \A d \in live \ live' : d = held[r] /\ at[r] \in {"rotate", "revoke"}
      BY <1>1, <1>4
    <3> QED
      BY <1>1, <2>2, <3>1, <3>2, LoudStep
  <2> QED
    BY <1>4, <2>1, <2>2
<1> QED
  BY <1>2, <1>3, <1>4 DEF Rotate

\* The file has been read again, and is to be written with another entry.
LEMMA DraftStep ==
  ASSUME Inv, IInv', NEW r \in Runs, at[r] \in {"store", "drop"}, file # Torn,
         NEW x, x = (IF at[r] = "store" THEN held[r] ELSE NoCred),
         draft' = [draft EXCEPT ![r] = [file EXCEPT ![StorageKey(r)] = x]], Goto(r, "open"),
         UNCHANGED <<file, issued, live, job, kind, held, warned, shared, overlap>>
  PROVE  Inv'
<1>k. PICK key \in Keys : key = StorageKey(r)
  BY Given DEF Inv
<1>1. /\ IInv /\ Running(r) /\ Writes(r) /\ Fresh(r) /\ Follows(r) /\ file \in Contents
      /\ x \in Creds \cup {NoCred} /\ draft \in [Runs -> Contents]
      /\ (x # NoCred <=> at[r] = "store") /\ NoCred \notin Creds
  <2>1. IInv /\ Holds(r) /\ held[r] \in Creds \cup {NoCred}
    BY Given DEF Inv
  <2> QED
    BY <2>1, NoCredAssumption DEF Inv, Running, IInv, TypeOK, Holds
<1>2. /\ at'[r] = "open" /\ \A s \in Runs \ {r} : at'[s] = at[s]
      /\ told' = told /\ troubled' = troubled
  BY <1>1, GotoDoes
<1>3. /\ \A s \in Runs \ {r} : draft'[s] = draft[s]
      /\ draft'[r] = [file EXCEPT ![key] = x] /\ draft'[r][key] = x
      /\ \A k \in Keys \ {key} : draft'[r][k] = file[k]
  BY <1>k, <1>1 DEF Contents
<1>4. Others(r) /\ Careful(r) /\ Remembers(r)
  BY <1>1, <1>2, <1>3 DEF Others, Careful, Remembers, Running
<1>5. /\ Storing(r)' = (at[r] = "store") /\ Storing(r) = (at[r] = "store")
      /\ Removing(r)' = (at[r] = "drop") /\ Removing(r) = (at[r] = "drop")
      /\ StorageKey(r)' = key /\ Command(r)' = Command(r)
  BY <1>k, <1>1, <1>2, <1>3 DEF Storing, Removing, Writing, StorageKey, Command
<1>6. Images' \subseteq Images /\ Copies(r)
  BY <1>2, <1>4, ImagesStay, StayingCopies
<1>7. Learns(r) /\ Minds(r) /\ \A k \in Keys : LiveFor(k)' = LiveFor(k)
  <2>1. Learns(r)
    BY <1>k, <1>1, <1>2, <1>3 DEF Learns, InHand
  <2> QED
    BY <2>1, SameMinds
<1>8. InTurn'
  <2> SUFFICES ASSUME ~overlap, NEW s \in Runs, Writing(s)'
               PROVE  /\ at'[s] = "open"
                      /\ \A k \in Keys \ {StorageKey(s)'} : draft'[s][k] = file[k]
    BY DEF InTurn, Writing
  <2>1. CASE s = r
    BY <1>2, <1>3, <1>5, <2>1
  <2>2. CASE s # r
    <3>1. Writing(s) /\ at'[s] = at[s] /\ draft'[s] = draft[s] /\ StorageKey(s)' = StorageKey(s)
      BY <1>2, <1>3, <1>4, <2>2, OthersSame
    <3> QED
      BY <3>1 DEF Inv, InTurn, Writing
  <2> QED
    BY <2>1, <2>2
<1>9. Writes(r)' /\ Fresh(r)'
  <2>1. Writes(r)'
    BY <1>1, <1>2, <1>5 DEF Writes
  <2>2. ASSUME at[r] = "store"
        PROVE  /\ held[r] \in live /\ file[key] # held[r]
               /\ \A s \in Runs : s # r =>
                    /\ at'[s] \in InHand => held[s] # held[r]
                    /\ Writing(s)' => draft'[s][key] # held[r]
    <3>1. /\ held[r] \in live /\ file[key] # held[r]
          /\ \A s \in Runs : s # r =>
               /\ at[s] \in InHand => held[s] # held[r]
               /\ Writing(s) => draft[s][key] # held[r]
      BY <1>k, <1>1, <1>5, <2>2 DEF Fresh, InHand
    <3>2. \A s \in Runs : s # r =>
            at'[s] = at[s] /\ draft'[s] = draft[s] /\ (Writing(s)' => Writing(s))
      BY <1>2, <1>3 DEF Writing
    <3> QED
      BY <3>1, <3>2
  <2> QED
    BY <1>5, <2>1, <2>2 DEF Fresh, InHand
<1>10. ~overlap => SoundAt(key)' /\ TrackedAt(key)'
  <2>1. Mending(r, key) => Mending(r, key)'
    BY <1>k, <1>2, <1>5 DEF Mending, Running
  <2>2. Storing(r) => Storing(r)' /\ Running(r)' /\ StorageKey(r)' = key /\ held'[r] = held[r]
    BY <1>2, <1>5 DEF Running
  <2> QED
    BY <1>k, <1>1, <1>2, <1>4, <1>6, <1>7, <2>1, <2>2, SoundStays, TrackedStays
<1>11. Follows(r)'
  <2>1. CliKey(r)' = CliKey(r) /\ CliKey(r) \in Keys
    BY <1>1, JobsShape DEF CliKey, IInv, Running, Keys
  <2>2. LiveFor(StorageKey(r))' = LiveFor(key) /\ LiveFor(CliKey(r))' = LiveFor(CliKey(r))
    BY <1>k, <1>5, <2>1 DEF LiveFor
  <2>3. Disturbed' = Disturbed
    BY <1>2 DEF Disturbed
  <2> QED
    BY <1>k, <1>1, <1>2, <1>5, <1>6, <2>1, <2>2, <2>3 DEF Follows
<1> QED
  BY <1>k, <1>1, <1>4, <1>6, <1>7, <1>8, <1>9, <1>10, <1>11, Step

LEMMA StoreInv ==
  ASSUME Inv, IInv', NEW r \in Runs, Store(r)
  PROVE  Inv'
<1>1. at[r] = "store" /\ UNCHANGED <<file, issued, live, job, held, shared, overlap>>
  BY DEF Store
<1>2. CASE file = Torn
  BY <1>1, <1>2, FailStep DEF Store
<1>3. CASE file # Torn
  BY <1>1, <1>3, DraftStep DEF Store
<1> QED
  BY <1>2, <1>3

LEMMA DropInv ==
  ASSUME Inv, IInv', NEW r \in Runs, Drop(r)
  PROVE  Inv'
<1>1. at[r] = "drop" /\ UNCHANGED <<file, issued, live, job, held, shared, overlap>>
  BY DEF Drop
<1>2. CASE file = Torn
  BY <1>1, <1>2, FailStep DEF Drop
<1>3. CASE file # Torn /\ file[StorageKey(r)] = NoCred
  BY <1>1, <1>3, WrittenStep DEF Drop
<1>4. CASE file # Torn /\ file[StorageKey(r)] # NoCred
  BY <1>1, <1>4, DraftStep DEF Drop
<1> QED
  BY <1>2, <1>3, <1>4

LEMMA FillInv ==
  ASSUME Inv, IInv', NEW r \in Runs, Fill(r)
  PROVE  Inv'
<1>1. at[r] = "fill" /\ UNCHANGED <<issued, live, job, held, draft, shared, overlap>>
  BY DEF Fill
<1>2. CASE file' \in {draft[r], Torn} /\ UNCHANGED warned /\ Written(r)
  BY <1>1, <1>2, WrittenStep
<1>3. CASE file' \in {draft[r], file, Torn} /\ StorageFails(r)
  BY <1>1, <1>3, FailStep
<1> QED
  BY <1>2, <1>3 DEF Fill

\* The file is cut off: what it will hold is what the run has in mind.
LEMMA CutOff ==
  ASSUME Inv, IInv', NEW r \in Runs, at[r] = "open", file' = Torn,
         overlap' = (overlap \/ \E s \in Runs \ {r} : at[s] \in {"open", "fill"}),
         Goto(r, "fill"),
         UNCHANGED <<kind, warned, issued, live, job, held, draft, shared>>
  PROVE  Inv'
<1>k. PICK key \in Keys : key = StorageKey(r)
  BY Given DEF Inv
<1>1. /\ IInv /\ Running(r) /\ Writes(r) /\ Fresh(r) /\ Follows(r) /\ Holds(r)
  BY Given DEF Inv, Running
<1>2. /\ at'[r] = "fill" /\ \A s \in Runs \ {r} : at'[s] = at[s]
      /\ told' = told /\ troubled' = troubled
  BY <1>1, GotoDoes
<1>3. Others(r) /\ Careful(r) /\ Remembers(r)
  BY <1>1, <1>2 DEF Others, Careful, Remembers, Running
<1>4. /\ Storing(r)' = Storing(r) /\ Removing(r)' = Removing(r) /\ Writing(r)' /\ Writing(r)
      /\ StorageKey(r)' = key /\ Command(r)' = Command(r)
      /\ Storing(r) <=> draft[r][key] # NoCred
      /\ Removing(r) <=> draft[r][key] = NoCred
  BY <1>k, <1>2 DEF Storing, Removing, Writing, StorageKey, Command
<1>5. ~overlap' => /\ ~overlap /\ \A s \in Runs \ {r} : ~Writing(s) /\ ~Writing(s)'
                   /\ Images' = {draft[r]} /\ Images = {file} /\ file # Torn
                   /\ \A k \in Keys \ {key} : draft[r][k] = file[k]
  <2> SUFFICES ASSUME ~overlap' PROVE
                   /\ ~overlap /\ \A s \in Runs \ {r} : ~Writing(s) /\ ~Writing(s)'
                   /\ Images' = {draft[r]} /\ Images = {file} /\ file # Torn
                   /\ \A k \in Keys \ {key} : draft[r][k] = file[k]
    OBVIOUS
  <2>1. ~overlap /\ \A s \in Runs \ {r} : ~Writing(s) /\ ~Writing(s)'
    BY <1>2 DEF Writing
  <2>2. file # Torn /\ \A k \in Keys \ {key} : draft[r][k] = file[k]
    BY <1>k, <2>1 DEF Inv, InTurn
  <2>3. Images = {file}
    BY <2>1, <2>2, FileIsImage
  <2>4. \A s \in Runs : at'[s] = "fill" <=> s = r
    BY <1>2, <2>1 DEF Writing
  <2>5. Images' = {draft[r]}
    BY <2>4 DEF Images
  <2> QED
    BY <2>1, <2>2, <2>3, <2>5
<1>6. Copies(r)
  BY <1>k, <1>5 DEF Copies
<1>7. Learns(r) /\ Minds(r) /\ \A k \in Keys : LiveFor(k)' = LiveFor(k)
  <2>1. Learns(r)
    BY <1>2, <1>4 DEF Learns, InHand
  <2> QED
    BY <2>1, SameMinds
<1>8. InTurn'
  BY <1>2, <1>5 DEF InTurn, Writing
<1>9. Writes(r)' /\ Fresh(r)'
  <2>1. Writes(r)'
    BY <1>1, <1>2, <1>4 DEF Writes
  <2>2. ASSUME Storing(r)
        PROVE  /\ held[r] \in live
               /\ \A s \in Runs : s # r =>
                    /\ at'[s] \in InHand => held[s] # held[r]
                    /\ Writing(s)' => draft[s][key] # held[r]
    BY <1>k, <1>1, <1>2, <2>2 DEF Fresh, InHand, Writing
  <2> QED
    BY <1>4, <2>1, <2>2 DEF Fresh, InHand
<1>10. ~overlap' => SoundAt(key)'
  <2>1. Storing(r) => draft[r][key] \in live
    BY <1>k, <1>1, <1>4 DEF Holds, Fresh, Writing
  <2> QED
    BY <1>4, <1>5, <2>1 DEF SoundAt
<1>11. ~overlap' => TrackedAt(key)'
  <2> SUFFICES ASSUME ~overlap', key[1] \notin Disturbed'
               PROVE  LiveFor(key)' \subseteq {draft[r][key]} \/ Knows(r, key)'
    BY <1>5 DEF TrackedAt
  <2>1. key[1] = job[r].env /\ job[r].env \notin Disturbed /\ Running(r)'
    BY <1>k, <1>2 DEF StorageKey, Disturbed, Running
  <2>2. CASE warned[r]
    BY <2>1, <2>2 DEF Knows
  <2>3. CASE Removing(r) /\ ~warned[r]
    <3>1. LiveFor(key) = {}
      BY <1>k, <1>1, <1>5, <2>1, <2>3 DEF Follows
    <3> QED
      BY <1>7, <3>1
  <2>4. CASE Storing(r) /\ ~warned[r]
    <3>1. LiveFor(key) \subseteq {file[key]} \/ \E s \in Runs : Knows(s, key)
      BY <1>5, <2>1 DEF Inv, Tracked, TrackedAt
    <3>2. held[r] \in LiveFor(key) /\ file[key] # held[r]
      <4>1. held[r] \in live /\ file[key] # held[r]
        BY <1>k, <1>1, <1>5, <2>4 DEF Fresh
      <4> QED
        BY <1>k, <1>1, <2>4, <4>1, StoringIssued DEF LiveFor
    <3>3. ASSUME NEW s \in Runs, Knows(s, key) PROVE s = r
      BY <1>1, <2>1, <3>3 DEF Knows, Inv, Alone, Disturbed
    <3>4. Knows(r, key)
      BY <3>1, <3>2, <3>3
    <3> QED
      BY <1>k, <1>4, <1>7, <2>1, <2>4, <3>4 DEF Knows
  <2> QED
    BY <1>4, <2>2, <2>3, <2>4
<1>12. Follows(r)'
  <2> SUFFICES ASSUME ~overlap', job[r].env \notin Disturbed', ~warned[r]
               PROVE  /\ Removing(r) => LiveFor(key) = {}
                      /\ Command(r) = "logout" /\ kind[r] = "hosted" =>
                           LiveFor(CliKey(r)) = {} /\ draft[r][CliKey(r)] = NoCred
    <3>1. CliKey(r)' = CliKey(r) /\ CliKey(r) \in Keys
      BY <1>1, JobsShape DEF CliKey, IInv, Running, Keys
    <3>2. LiveFor(StorageKey(r))' = LiveFor(key) /\ LiveFor(CliKey(r))' = LiveFor(CliKey(r))
      BY <1>4, <3>1 DEF LiveFor
    <3> QED
      BY <1>2, <1>4, <1>5, <3>1, <3>2 DEF Follows
  <2>1. job[r].env \notin Disturbed /\ ~overlap
    BY <1>2, <1>5 DEF Disturbed
  <2>2. /\ Removing(r) => LiveFor(key) = {}
        /\ Command(r) = "logout" /\ kind[r] = "hosted" =>
             LiveFor(CliKey(r)) = {} /\ \A f \in Images : f[CliKey(r)] = NoCred
    BY <1>k, <1>1, <2>1 DEF Follows
  <2>3. kind[r] = "hosted" => CliKey(r) \in Keys \ {key}
    <3>1. CliKey(r) \in Keys
      BY <1>1, JobsShape DEF CliKey, IInv, Running, Keys
    <3> QED
      BY <1>k, <3>1 DEF CliKey, StorageKey
  <2> QED
    BY <1>5, <2>2, <2>3
<1> QED
  BY <1>k, <1>1, <1>3, <1>6, <1>7, <1>8, <1>9, <1>10, <1>11, <1>12, Step

LEMMA OpenInv ==
  ASSUME Inv, IInv', NEW r \in Runs, Open(r)
  PROVE  Inv'
<1>1. at[r] = "open" /\ UNCHANGED <<issued, live, job, held, draft, shared>>
  BY DEF Open
<1>2. CASE /\ file' = Torn
           /\ overlap' = (overlap \/ \E s \in Runs \ {r} : at[s] \in {"open", "fill"})
           /\ Goto(r, "fill") /\ UNCHANGED <<kind, warned>>
  BY <1>1, <1>2, CutOff
<1>3. CASE StorageFails(r) /\ UNCHANGED <<file, overlap>>
  BY <1>1, <1>3, FailStep
<1> QED
  BY <1>2, <1>3 DEF Open

\* a new command
LEMMA BeginInv ==
  ASSUME Inv, IInv', NEW r \in Runs, NEW j \in Jobs, Begin(r, j)
  PROVE  Inv'
<1>1. /\ at[r] = "idle" /\ IInv /\ Writes(r) /\ ~warned[r] /\ ~Running(r)
      /\ ~Storing(r) /\ ~Removing(r) /\ ~Writing(r)
      /\ UNCHANGED <<file, issued, live, held, draft, warned, overlap, told, troubled>>
  BY DEF Begin, Goto, Inv, Running, Storing, Removing, Writing, Writes
<1>2. /\ at'[r] = "get" /\ job'[r] = j /\ kind'[r] = (IF j.command = "curl" THEN "hosted" ELSE "cli")
      /\ \A s \in Runs \ {r} : at'[s] = at[s] /\ job'[s] = job[s] /\ kind'[s] = kind[s]
  BY <1>1 DEF Begin, Goto, IInv, TypeOK
<1>3. /\ shared \subseteq shared'
      /\ \A s \in Runs : Running(s) /\ job[s].env = j.env => j.env \in shared'
  BY <1>1 DEF Begin
<1>4. ASSUME NEW s \in Runs \ {r}
      PROVE  /\ Writing(s)' = Writing(s) /\ Storing(s)' = Storing(s) /\ Removing(s)' = Removing(s)
             /\ Running(s)' = Running(s) /\ Command(s)' = Command(s) /\ CliKey(s)' = CliKey(s)
             /\ StorageKey(s)' = StorageKey(s)
             /\ \A k \in Keys : Mending(s, k)' = Mending(s, k) /\ Knows(s, k)' = Knows(s, k)
  <2>1. StorageKey(s)' = StorageKey(s) /\ Command(s)' = Command(s) /\ CliKey(s)' = CliKey(s)
    BY <1>2 DEF StorageKey, Command, CliKey
  <2>2. Writing(s)' = Writing(s) /\ Running(s)' = Running(s)
    BY <1>2 DEF Writing, Running
  <2>3. Storing(s)' = Storing(s) /\ Removing(s)' = Removing(s)
    BY <1>1, <1>2, <2>1, <2>2 DEF Storing, Removing
  <2> QED
    BY <1>1, <1>2, <2>1, <2>2, <2>3 DEF Mending, Knows, LiveFor
<1>5. ~Writing(r)' /\ ~Storing(r)' /\ ~Removing(r)'
  BY <1>2 DEF Writing, Storing, Removing
<1>6. Images' = Images /\ \A k \in Keys : LiveFor(k)' = LiveFor(k)
  <2>1. \A s \in Runs : at'[s] = "fill" <=> at[s] = "fill"
    BY <1>1, <1>2
  <2> QED
    BY <1>1, <2>1 DEF Images, LiveFor
<1>7. \A k \in Keys : ~Mending(r, k) /\ ~Knows(r, k)
  BY <1>1 DEF Mending, Knows
<1>8. InTurn'
  <2> SUFFICES ASSUME ~overlap, NEW s \in Runs, Writing(s)'
               PROVE  /\ at'[s] = "fill" => file = Torn /\ \A q \in Runs \ {s} : ~Writing(q)'
                      /\ at'[s] = "open" =>
                           file # Torn /\ \A k \in Keys \ {StorageKey(s)'} : draft[s][k] = file[k]
    BY <1>1 DEF InTurn, Writing
  <2>1. s # r /\ Writing(s) /\ at'[s] = at[s] /\ StorageKey(s)' = StorageKey(s)
    BY <1>2, <1>4, <1>5
  <2> QED
    BY <1>4, <1>5, <2>1 DEF Inv, InTurn
<1>9. Alone'
  <2> SUFFICES ASSUME NEW p \in Runs, NEW q \in Runs, p # q, Running(p)', Running(q)',
                      job'[p].env = job'[q].env
               PROVE  job'[p].env \in shared'
    BY DEF Alone
  <2>1. CASE p # r /\ q # r
    BY <1>2, <1>3, <1>4, <2>1 DEF Inv, Alone
  <2>2. CASE p = r \/ q = r
    BY <1>2, <1>3, <1>4, <2>2
  <2> QED
    BY <2>1, <2>2
<1>10. Sound'
  <2>1. \A k \in Keys, s \in Runs : Mending(s, k) => Mending(s, k)'
    BY <1>4, <1>7
  <2> QED
    BY <1>1, <1>6, <2>1 DEF Inv, Sound, SoundAt
<1>11. Tracked'
  <2>1. \A k \in Keys, s \in Runs : Knows(s, k) => Knows(s, k)'
    BY <1>4, <1>7
  <2>2. Disturbed \subseteq Disturbed'
    BY <1>1, <1>3 DEF Disturbed
  <2> QED
    BY <1>1, <1>6, <2>1, <2>2 DEF Inv, Tracked, TrackedAt
<1>12. Writes(r)' /\ Fresh(r)'
  BY <1>1, <1>5 DEF Writes, Fresh
<1>13. Follows(r)'
  <2>1. Command(r)' = "logout" => kind'[r] = "cli"
    BY <1>2 DEF Command
  <2> QED
    BY <1>2, <1>5, <2>1 DEF Follows
<1>14. ASSUME NEW s \in Runs \ {r} PROVE Writes(s)' /\ Fresh(s)' /\ Follows(s)'
  <2>1. Writes(s)'
    BY <1>1, <1>2, <1>4 DEF Inv, Writes
  <2>2. Fresh(s)'
    <3>1. \A q \in Runs : /\ Writing(q)' => Writing(q)
                          /\ at'[q] \in InHand => at[q] \in InHand
      BY <1>2, <1>4, <1>5 DEF InHand
    <3> QED
      BY <1>1, <1>4, <3>1 DEF Inv, Fresh, InHand
  <2>3. Follows(s)'
    <3>1. Disturbed \subseteq Disturbed'
      BY <1>1, <1>3 DEF Disturbed
    <3>2. /\ LiveFor(StorageKey(s))' = LiveFor(StorageKey(s)) /\ LiveFor(CliKey(s))' = LiveFor(CliKey(s))
      BY <1>1, <1>4 DEF LiveFor
    <3> QED
      BY <1>1, <1>2, <1>4, <1>6, <3>1, <3>2 DEF Inv, Follows
  <2> QED
    BY <2>1, <2>2, <2>3
<1> QED
  BY <1>8, <1>9, <1>10, <1>11, <1>12, <1>13, <1>14 DEF Inv

LEMMA ExpireInv ==
  ASSUME Inv, IInv', NEW c \in Creds, Expire(c)
  PROVE  Inv'
<1>1. /\ UNCHANGED <<file, issued, at, job, kind, held, draft, warned, troubled, shared, overlap>>
      /\ live' = live \ {c} /\ told' = told \cup {issued[c]}
      /\ \A r \in Runs : at[r] \in {"store", "open", "fill"} => held[r] # c
  BY DEF Expire
<1>2. \A r \in Runs : /\ Storing(r)' = Storing(r) /\ Removing(r)' = Removing(r)
                      /\ Writing(r)' = Writing(r) /\ Running(r)' = Running(r)
                      /\ StorageKey(r)' = StorageKey(r) /\ Command(r)' = Command(r)
                      /\ CliKey(r)' = CliKey(r)
                      /\ Storing(r) => held[r] # c
  BY <1>1 DEF Storing, Removing, Writing, Running, StorageKey, Command, CliKey
<1>3. Images' = Images /\ Disturbed' = Disturbed
  BY <1>1 DEF Images, Disturbed
<1>4. /\ \A k \in Keys : LiveFor(k)' \subseteq LiveFor(k)
      /\ \A r \in Runs : /\ LiveFor(StorageKey(r))' \subseteq LiveFor(StorageKey(r))
                         /\ LiveFor(CliKey(r))' \subseteq LiveFor(CliKey(r))
  BY <1>1, <1>2 DEF LiveFor
<1>5. InTurn' /\ Alone'
  BY <1>1, <1>2 DEF Inv, InTurn, Alone
<1>6. Sound'
  <2> SUFFICES ASSUME ~overlap, NEW k \in Keys, NEW f \in Images
               PROVE  f[k] \in live' \cup {NoCred} \/ k \in told' \/ \E s \in Runs : Mending(s, k)'
    BY <1>1, <1>3 DEF Sound, SoundAt
  <2>1. f[k] \in live \cup {NoCred} \/ k \in told \/ \E s \in Runs : Mending(s, k)
    BY DEF Inv, Sound, SoundAt
  <2>2. CASE f[k] = c
    <3>1. issued[c] = k
      BY <2>2, ImagesRight, NoCredAssumption DEF Inv, Right
    <3> QED
      BY <1>1, <3>1
  <2>3. CASE f[k] # c
    <3>1. \A s \in Runs : Mending(s, k) => Mending(s, k)'
      BY <1>1, <1>2 DEF Mending
    <3> QED
      BY <1>1, <2>1, <2>3, <3>1
  <2> QED
    BY <2>2, <2>3
<1>7. Tracked'
  <2>1. \A s \in Runs, k \in Keys : Knows(s, k) => Knows(s, k)'
    BY <1>1, <1>2, <1>4 DEF Knows
  <2> QED
    BY <1>1, <1>3, <1>4, <2>1 DEF Inv, Tracked, TrackedAt
<1>8. ASSUME NEW r \in Runs PROVE Writes(r)' /\ Fresh(r)' /\ Follows(r)'
  <2>1. Writes(r)'
    BY <1>1, <1>2 DEF Inv, Writes
  <2>2. Fresh(r)'
    BY <1>1, <1>2 DEF Inv, Fresh
  <2>3. Follows(r)'
    BY <1>1, <1>2, <1>3, <1>4 DEF Inv, Follows
  <2> QED
    BY <2>1, <2>2, <2>3
<1> QED
  BY <1>5, <1>6, <1>7, <1>8 DEF Inv

-----------------------------------------------------------------------------
(***************************************************************************)
(* The theorems                                                            *)
(***************************************************************************)

LEMMA InitSessions ==
  ASSUME Init
  PROVE  Inv
<1>1. IInv
  BY InitInv
<1>2. \A r \in Runs : /\ at[r] = "idle" /\ ~warned[r]
                      /\ ~Writing(r) /\ ~Storing(r) /\ ~Removing(r) /\ ~Running(r)
  BY DEF Init, Writing, Storing, Removing, Running
<1>3. file \in Contents /\ Right(file) /\ Images = {file}
  <2>1. file \in Contents
    BY DEF Init
  <2> QED
    BY <1>1, <1>2, <2>1, TornAssumption DEF IInv, Images
<1>4. InTurn /\ Alone /\ \A r \in Runs : Writes(r) /\ Fresh(r) /\ Follows(r)
  BY <1>2 DEF InTurn, Alone, Writes, Fresh, Follows, Writing
<1>5. Sound
  <2> SUFFICES ASSUME NEW k \in Keys, file[k] # NoCred PROVE file[k] \in live
    BY <1>3 DEF Sound, SoundAt
  <2>1. file[k] \in Creds /\ issued[file[k]] = k
    BY <1>3 DEF Contents, Right
  <2> QED
    BY <2>1, NoKeyAssumption DEF Init
<1>6. Tracked
  <2> SUFFICES ASSUME NEW k \in Keys, NEW c \in Creds, issued[c] = k PROVE file[k] = c
    BY <1>1, <1>3 DEF Tracked, TrackedAt, LiveFor, IInv, TypeOK
  <2>1. PICK l \in Keys : file[l] = c
    BY NoKeyAssumption DEF Init
  <2> QED
    BY <1>3, <2>1, NoCredAssumption DEF Right
<1> QED
  BY <1>1, <1>4, <1>5, <1>6 DEF Inv

LEMMA NextSessions ==
  ASSUME Inv, [Next]_vars
  PROVE  Inv'
<1>1. IInv'
  BY NextInv DEF Inv
<1>2. CASE UNCHANGED vars
  <2>1. UNCHANGED <<file, issued, live, at, job, kind, held, draft, warned,
                    told, troubled, shared, overlap>>
    BY <1>2 DEF vars, histories
  <2>2. Images' = Images /\ Disturbed' = Disturbed
    BY <2>1 DEF Images, Disturbed
  <2>3. \A r \in Runs : /\ Storing(r)' = Storing(r) /\ Removing(r)' = Removing(r)
                        /\ Writing(r)' = Writing(r) /\ Running(r)' = Running(r)
                        /\ StorageKey(r)' = StorageKey(r) /\ Command(r)' = Command(r)
                        /\ CliKey(r)' = CliKey(r)
    BY <2>1 DEF Storing, Removing, Writing, Running, StorageKey, Command, CliKey
  <2>4. /\ \A k \in Keys : LiveFor(k)' = LiveFor(k)
        /\ \A r \in Runs : /\ LiveFor(StorageKey(r))' = LiveFor(StorageKey(r))
                           /\ LiveFor(CliKey(r))' = LiveFor(CliKey(r))
    BY <2>1, <2>3 DEF LiveFor
  <2>5. InTurn' /\ Alone'
    BY <2>1, <2>3 DEF Inv, InTurn, Alone
  <2>6. Sound'
    <3>1. \A s \in Runs, k \in Keys : Mending(s, k) => Mending(s, k)'
      BY <2>1, <2>3 DEF Mending
    <3> QED
      BY <2>1, <2>2, <3>1 DEF Inv, Sound, SoundAt
  <2>7. Tracked'
    <3>1. \A s \in Runs, k \in Keys : Knows(s, k) => Knows(s, k)'
      BY <2>1, <2>3, <2>4 DEF Knows
    <3> QED
      BY <2>1, <2>2, <2>4, <3>1 DEF Inv, Tracked, TrackedAt
  <2>8. ASSUME NEW r \in Runs PROVE Writes(r)' /\ Fresh(r)' /\ Follows(r)'
    <3>1. Writes(r)'
      BY <2>1, <2>3 DEF Inv, Writes
    <3>2. Fresh(r)'
      BY <2>1, <2>3 DEF Inv, Fresh
    <3>3. Follows(r)'
      BY <2>1, <2>2, <2>3, <2>4 DEF Inv, Follows
    <3> QED
      BY <3>1, <3>2, <3>3
  <2> QED
    BY <1>1, <2>5, <2>6, <2>7, <2>8 DEF Inv
<1>3. ASSUME NEW r \in Runs,
             \/ \E j \in Jobs : Begin(r, j)
             \/ Get(r) \/ Store(r) \/ Drop(r) \/ Open(r) \/ Fill(r)
             \/ Verify(r) \/ Browser(r) \/ Rotate(r) \/ Revoke(r) \/ Try(r) \/ Send(r)
             \/ Crash(r)
      PROVE  Inv'
  BY <1>1, <1>3, BeginInv, GetInv, StoreInv, DropInv, OpenInv, FillInv, VerifyInv, BrowserInv,
     RotateInv, RevokeInv, TryInv, SendInv, CrashInv
<1>4. ASSUME NEW c \in Creds, Expire(c)
      PROVE  Inv'
  BY <1>1, <1>4, ExpireInv
<1> QED
  BY <1>2, <1>3, <1>4 DEF Next, Finished

LEMMA SessionsInvariance == Spec => []Inv
<1>1. Init => Inv
  BY InitSessions
<1>2. Inv /\ [Next]_vars => Inv'
  BY NextSessions
<1> QED
  BY <1>1, <1>2, PTL DEF Spec

\* While no command is at work on an environment, the sessions the credential
\* file holds for it are good ones, or a command has said that something went
\* wrong: a login replaces what had ended, a switch what it ends itself, and a
\* logout removes what it revokes.
THEOREM StoredSessionsAreLive == Spec => []StoredIsLive
<1>1. ASSUME Inv PROVE StoredIsLive
  <2> SUFFICES ASSUME ~overlap, file # Torn, NEW k \in Keys
               PROVE  \/ file[k] \in live \cup {NoCred}
                      \/ k \in told
                      \/ \E r \in Runs : Running(r) /\ job[r].env = k[1]
    BY DEF StoredIsLive
  <2>1. file[k] \in live \cup {NoCred} \/ k \in told \/ \E s \in Runs : Mending(s, k)
    BY <1>1 DEF Inv, Sound, SoundAt, Images
  <2>2. ASSUME NEW s \in Runs, Mending(s, k) PROVE Running(s) /\ job[s].env = k[1]
    BY <2>2 DEF Mending, Storing, Removing, Writing, Running, StorageKey
  <2> QED
    BY <2>1, <2>2
<1> QED
  BY <1>1, SessionsInvariance, PTL

\* No session is forgotten on a server: the file holds it or a command at work
\* does, as long as nothing went wrong in the environment and its commands ran
\* one after the other.
THEOREM NothingIsForgotten == Spec => []NoOrphans
<1>1. ASSUME Inv PROVE NoOrphans
  <2> SUFFICES ASSUME ~overlap, file # Torn, NEW c \in live, issued[c][1] \notin Disturbed
               PROVE  \/ file[issued[c]] = c
                      \/ \E r \in Runs : /\ Running(r) /\ job[r].env = issued[c][1]
                                         /\ held[r] = c \/ warned[r]
    BY DEF NoOrphans, Disturbed
  <2>1. PICK k \in Keys : k = issued[c]
    BY <1>1 DEF Inv, IInv, TypeOK
  <2>2. c \in LiveFor(k)
    BY <2>1 DEF LiveFor
  <2>3. LiveFor(k) \subseteq {file[k]} \/ \E s \in Runs : Knows(s, k)
    BY <1>1, <2>1 DEF Inv, Tracked, TrackedAt, Images
  <2>4. ASSUME NEW s \in Runs, Knows(s, k)
        PROVE  Running(s) /\ job[s].env = k[1] /\ (held[s] = c \/ warned[s])
    BY <2>2, <2>4 DEF Knows
  <2> QED
    BY <2>1, <2>2, <2>3, <2>4
<1> QED
  BY <1>1, SessionsInvariance, PTL

\* A step of one run reports nothing for another, and a logout is done when the
\* file no longer has its last session, and nothing was wrong.
LEMMA OwnResult ==
  ASSUME IInv, NEW s \in Runs, at[s] # "idle",
         \/ Get(s) \/ Store(s) \/ Drop(s) \/ Open(s) \/ Fill(s)
         \/ Verify(s) \/ Browser(s) \/ Rotate(s) \/ Revoke(s) \/ Try(s) \/ Send(s)
         \/ Crash(s)
  PROVE  \A r \in Runs \ {s} : result'[r] = result[r]
<1>1. TypeOK /\ Command(s) \in {"login", "switch", "logout", "curl"}
  BY Given
<1>2. \A res : End(s, res) => \A r \in Runs \ {s} : result'[r] = result[r]
  BY <1>1 DEF End, TypeOK
<1>3. \A label : Goto(s, label) => result' = result
  BY DEF Goto
<1>4. ASSUME at[s] \in {"drop", "store", "open", "fill"}, Written(s) \/ StorageFails(s)
      PROVE  \A r \in Runs \ {s} : result'[r] = result[r]
  BY <1>1, <1>4, WrittenMoves, StorageFailsMoves DEF Moves
<1>5. CASE Get(s)
  <2>1. CASE file # Torn
    <3>1. Found(s)
      BY <1>5, <2>1 DEF Get
    <3>2. CASE Command(s) = "login"
      BY <1>3, <3>1, <3>2 DEF Found
    <3>3. CASE Command(s) = "switch"
      BY <1>2, <1>3, <3>1, <3>3 DEF Found
    <3>4. CASE Command(s) = "logout"
      BY <1>3, <3>1, <3>4 DEF Found
    <3>5. CASE Command(s) = "curl"
      BY <1>3, <3>1, <3>5 DEF Found
    <3> QED
      BY <1>1, <3>2, <3>3, <3>4, <3>5
  <2>2. CASE file = Torn
    BY <1>2, <1>3, <1>5, <2>2 DEF Get
  <2> QED
    BY <2>1, <2>2
<1>6. CASE Store(s) \/ Drop(s) \/ Open(s) \/ Fill(s)
  BY <1>3, <1>4, <1>6 DEF Store, Drop, Open, Fill
<1>7. CASE Verify(s) \/ Browser(s) \/ Rotate(s) \/ Revoke(s) \/ Try(s) \/ Send(s) \/ Crash(s)
  BY <1>2, <1>3, <1>7 DEF Verify, Browser, Rotate, Revoke, Try, Send, Crash
<1> QED
  BY <1>5, <1>6, <1>7

LEMMA LogoutDone ==
  ASSUME IInv, [Next]_vars, NEW r \in Runs, Command(r) = "logout",
         result[r] = "running", result'[r] = "done"
  PROVE  /\ Drop(r) \/ Fill(r)
         /\ Written(r) /\ UNCHANGED warned /\ kind[r] = "hosted" /\ ~warned[r]
<1>1. PICK s \in Runs :
        \/ Get(s) \/ Store(s) \/ Drop(s) \/ Open(s) \/ Fill(s)
        \/ Verify(s) \/ Browser(s) \/ Rotate(s) \/ Revoke(s) \/ Try(s) \/ Send(s)
        \/ Crash(s)
  <2>1. result' # result
    OBVIOUS
  <2>2. /\ ~UNCHANGED vars /\ ~Finished /\ ~\E c \in Creds : Expire(c)
        /\ ~\E s \in Runs, j \in Jobs : Begin(s, j)
    BY <2>1 DEF vars, Finished, Expire, Begin, Goto
  <2> QED
    BY <2>2 DEF Next
<1>2. at[s] # "idle"
  BY <1>1 DEF Get, Store, Drop, Open, Fill, Verify, Browser, Rotate, Revoke, Try, Send, Crash,
              Running
<1>3. s = r
  BY <1>1, <1>2, OwnResult
<1>4. TypeOK /\ Placed(r)
  BY <1>2, <1>3, Given
<1>5. \A res : End(r, res) => result'[r] = res
  BY <1>4 DEF End, TypeOK
<1>6. \A label : ~Goto(r, label)
  BY DEF Goto
<1>7. ~Get(r)
  BY <1>4, <1>6 DEF Get, Found
<1>8. /\ ~Store(r) /\ ~Verify(r) /\ ~Browser(r) /\ ~Rotate(r) /\ ~Revoke(r) /\ ~Try(r) /\ ~Send(r)
  BY <1>4, <1>6 DEF Placed, Store, Verify, Browser, Rotate, Revoke, Try, Send
<1>9. ~Crash(r)
  BY <1>5 DEF Crash
<1>10. ASSUME Written(r) PROVE kind[r] = "hosted" /\ ~warned'[r]
  <2>1. LogoutGoesOn(r)
    BY <1>10 DEF Written
  <2> QED
    BY <1>4, <1>5, <1>6, <2>1 DEF LogoutGoesOn, TypeOK
<1>11. ~StorageFails(r)
  <2> SUFFICES ASSUME StorageFails(r) PROVE FALSE
    OBVIOUS
  <2>1. Written(r) /\ warned'[r]
    BY <1>4 DEF StorageFails, TypeOK
  <2> QED
    BY <1>10, <2>1
<1>12. Drop(r) \/ Fill(r)
  BY <1>1, <1>3, <1>6, <1>7, <1>8, <1>9, <1>11 DEF Open
<1>13. Written(r) /\ UNCHANGED warned
  BY <1>6, <1>11, <1>12 DEF Drop, Fill
<1> QED
  BY <1>10, <1>12, <1>13

\* A logout that reports no trouble leaves no session of its environment, neither
\* in the file nor on the servers, as long as nothing went wrong there before and
\* no command of the environment ran beside it.
THEOREM LogoutIsComplete == Spec => LogoutLeavesNothing
<1>1. ASSUME Inv, [Next]_vars
      PROVE  [\A r \in Runs :
                /\ Command(r) = "logout" /\ result[r] = "running" /\ result'[r] = "done"
                /\ job[r].env \notin troubled \cup shared /\ ~overlap /\ file' # Torn
                => /\ \A k \in Keys : k[1] = job[r].env => file'[k] = NoCred
                   /\ \A c \in live' : issued'[c][1] # job[r].env]_vars
  <2> SUFFICES ASSUME NEW r \in Runs, Command(r) = "logout", result[r] = "running",
                      result'[r] = "done", job[r].env \notin Disturbed, ~overlap, file' # Torn
               PROVE  /\ \A k \in Keys : k[1] = job[r].env => file'[k] = NoCred
                      /\ \A c \in live' : issued'[c][1] # job[r].env
    BY DEF Disturbed
  <2>1. /\ Drop(r) \/ Fill(r)
        /\ Written(r) /\ UNCHANGED warned /\ kind[r] = "hosted" /\ ~warned[r] /\ IInv
    BY <1>1, LogoutDone DEF Inv
  <2>2. /\ at[r] \in {"drop", "fill"} /\ UNCHANGED <<live, issued>> /\ Running(r) /\ Removing(r)
        /\ Follows(r)
    BY <1>1, <2>1, Given DEF Drop, Fill, Running, Removing, Writing, Inv, Writes, Storing
  <2>3. PICK key \in Keys : key = StorageKey(r)
    BY <2>1, <2>2, Given
  <2>4. /\ LiveFor(key) = {} /\ LiveFor(CliKey(r)) = {}
        /\ \A f \in Images : f[CliKey(r)] = NoCred
    BY <2>1, <2>2, <2>3 DEF Follows
  <2>5. file' \in Images /\ file'[key] = NoCred
    <3>1. CASE Drop(r)
      <4>1. file # Torn
        BY <3>1 DEF Drop
      <4>2. file[key] = NoCred
        <5>1. CASE file[key] # NoCred
          <6>1. Goto(r, "open")
            BY <2>3, <3>1, <4>1, <5>1 DEF Drop
          <6> QED
            BY <6>1 DEF Goto
        <5> QED
          BY <5>1
      <4> QED
        BY <3>1, <4>1, <4>2 DEF Drop, Images
    <3>2. CASE Fill(r)
      <4>1. at[r] = "fill" /\ file = Torn
        BY <1>1, <3>2, DraftIsImage DEF Fill
      <4>2. file' = draft[r]
        BY <3>2, <4>1 DEF Fill
      <4> QED
        BY <2>2, <2>3, <4>1, <4>2 DEF Images, Removing, Writing
    <3> QED
      BY <2>1, <3>1, <3>2
  <2>6. \A k \in Keys : k[1] = job[r].env => k \in {key, CliKey(r)}
    BY <2>1, <2>3 DEF Keys, CliKey, StorageKey
  <2>7. \A k \in Keys : k[1] = job[r].env => file'[k] = NoCred
    BY <2>4, <2>5, <2>6
  <2>8. ASSUME NEW c \in live, issued[c][1] = job[r].env PROVE FALSE
    <3>1. issued[c] \in Keys /\ c \in Creds
      BY <2>1 DEF IInv, TypeOK
    <3>2. issued[c] \in {key, CliKey(r)}
      BY <2>6, <2>8, <3>1
    <3> QED
      BY <2>4, <3>2 DEF LiveFor
  <2> QED
    BY <2>2, <2>7, <2>8
<1> QED
  BY <1>1, SessionsInvariance, PTL DEF Spec, LogoutLeavesNothing


-----------------------------------------------------------------------------
(***************************************************************************)
(* The abstract specification                                              *)
(***************************************************************************)

LEMMA MovesAt ==
  ASSUME IInv, NEW r \in Runs, NEW label, Moves(r, label)
  PROVE  at'[r] = label /\ \A s \in Runs \ {r} : at'[s] = at[s]
BY DEF Moves, IInv, TypeOK

\* what a step of a running run does to the labels; it may be the last
Steps(r) ==
  /\ Running(r) /\ job' = job
  /\ at'[r] # "idle" /\ \A s \in Runs \ {r} : at'[s] = at[s]

\* a step that leaves the file alone
Spares(r) ==
  /\ at[r] # "fill" /\ at'[r] # "fill" /\ file' = file /\ overlap' = overlap
  /\ \A s \in Runs \ {r} : at'[s] = at[s] /\ draft'[s] = draft[s]

LEMMA GotoSteps ==
  ASSUME IInv, NEW r \in Runs, NEW label, Goto(r, label)
  PROVE  at'[r] = label /\ \A s \in Runs \ {r} : at'[s] = at[s]
BY GotoDoes

LEMMA EndSteps ==
  ASSUME IInv, NEW r \in Runs, at[r] # "idle", NEW res, End(r, res)
  PROVE  at'[r] = "end" /\ \A s \in Runs \ {r} : at'[s] = at[s]
BY EndDoes

LEMMA WrittenSteps ==
  ASSUME IInv, NEW r \in Runs, at[r] \in {"drop", "store", "open", "fill"},
         Written(r) \/ StorageFails(r)
  PROVE  at'[r] \notin {"idle", "fill"} /\ \A s \in Runs \ {r} : at'[s] = at[s]
<1>1. TypeOK
  BY DEF IInv
<1>2. PICK label \in {"end", "get", "browser", "send"} : Moves(r, label)
  BY <1>1, WrittenMoves, StorageFailsMoves
<1> QED
  BY <1>2, MovesAt

LEMMA GetSpares ==
  ASSUME IInv, NEW r \in Runs, Get(r)
  PROVE  Steps(r) /\ Spares(r)
<1>1. at[r] = "get" /\ UNCHANGED <<file, job, draft, overlap>>
  BY DEF Get
<1>2. \/ \E label \in {"browser", "verify", "rotate", "drop", "revoke", "try"} : Goto(r, label)
      \/ End(r, "failed")
  BY <1>1, Given DEF Get, Found
<1>3. at'[r] \notin {"idle", "fill"} /\ \A s \in Runs \ {r} : at'[s] = at[s]
  BY <1>1, <1>2, GotoSteps, EndSteps
<1> QED
  BY <1>1, <1>3 DEF Spares, Steps, Running

LEMMA StoreDropSpares ==
  ASSUME IInv, NEW r \in Runs, Store(r) \/ Drop(r)
  PROVE  Steps(r) /\ Spares(r)
<1>1. at[r] \in {"store", "drop"} /\ UNCHANGED <<file, job, overlap>>
      /\ \A s \in Runs \ {r} : draft'[s] = draft[s]
  BY DEF Store, Drop, IInv, TypeOK
<1>2. Goto(r, "open") \/ Written(r) \/ StorageFails(r)
  BY DEF Store, Drop
<1>3. at'[r] \notin {"idle", "fill"} /\ \A s \in Runs \ {r} : at'[s] = at[s]
  BY <1>1, <1>2, GotoSteps, WrittenSteps
<1> QED
  BY <1>1, <1>3 DEF Spares, Steps, Running

LEMMA ServerSpares ==
  ASSUME IInv, NEW r \in Runs,
         Verify(r) \/ Browser(r) \/ Rotate(r) \/ Revoke(r) \/ Try(r) \/ Send(r)
  PROVE  Steps(r) /\ Spares(r)
<1>1. /\ at[r] \in {"verify", "browser", "rotate", "revoke", "try", "send"}
      /\ UNCHANGED <<file, job, draft, overlap>>
  BY DEF Verify, Browser, Rotate, Revoke, Try, Send
<1>2. \/ \E label \in {"browser", "store", "drop"} : at' = [at EXCEPT ![r] = label]
      \/ \E res : End(r, res)
  BY DEF Verify, Browser, Rotate, Revoke, Try, Send, Goto
<1>3. at'[r] \notin {"idle", "fill"} /\ \A s \in Runs \ {r} : at'[s] = at[s]
  BY <1>1, <1>2, EndSteps DEF IInv, TypeOK
<1> QED
  BY <1>1, <1>3 DEF Spares, Steps, Running

-----------------------------------------------------------------------------

LEMMA OneAtFill ==
  ASSUME NEW a, NEW r \in Runs, a[r] = "fill", \A s \in Runs \ {r} : a[s] # "fill"
  PROVE  (CHOOSE s \in Runs : a[s] = "fill") = r
OBVIOUS

LEMMA EntriesSpared ==
  ASSUME Inv, NEW r \in Runs, Spares(r)
  PROVE  Entries' = Entries
<1>1. CASE overlap
  BY <1>1 DEF Entries, Spares
<1>2. ASSUME ~overlap, NEW s \in Runs, at[s] = "fill" PROVE Entries' = Entries
  <2>1. s # r /\ at'[s] = "fill" /\ draft'[s] = draft[s]
    BY <1>2 DEF Spares
  <2>2. \A t \in Runs \ {s} : at[t] # "fill" /\ at'[t] # "fill"
    BY <1>2 DEF Inv, InTurn, Writing, Spares
  <2>3. /\ (CHOOSE t \in Runs : at[t] = "fill") = s
        /\ (CHOOSE t \in Runs : at'[t] = "fill") = s
    BY <1>2, <2>1, <2>2, OneAtFill
  <2> QED
    BY <1>2, <2>1, <2>3 DEF Entries, Spares
<1>3. CASE ~overlap /\ \A s \in Runs : at[s] # "fill"
  BY <1>3 DEF Entries, Spares
<1> QED
  BY <1>1, <1>2, <1>3

LEMMA WorkingLeaves ==
  ASSUME Inv, NEW r \in Runs, Steps(r)
  PROVE  /\ job[r].env \in Working
         /\ Kept!MayLeave
         /\ at'[r] # "end" => Working' = Working
<1>1. job[r].env \in Working
  BY DEF Steps, Working
<1>2. \A s \in Runs \ {r} : Running(s)' = Running(s)
  BY DEF Steps, Running
<1>3. CASE at'[r] # "end"
  <2>1. \A s \in Runs : Running(s)' = Running(s)
    BY <1>2, <1>3 DEF Steps, Running
  <2>2. Working' = Working
    BY <2>1 DEF Steps, Working
  <2> QED
    BY <1>1, <2>2 DEF Kept!MayLeave
<1>4. CASE at'[r] = "end"
  <2>1. ~Running(r)'
    BY <1>4 DEF Running
  <2>2. Working' = {job[s].env : s \in {s \in Runs \ {r} : Running(s)}}
    BY <1>2, <2>1 DEF Steps, Working
  <2>3. Working = {job[s].env : s \in {s \in Runs \ {r} : Running(s)}} \cup {job[r].env}
    BY DEF Steps, Working
  <2> DEFINE others == {job[s].env : s \in {s \in Runs \ {r} : Running(s)}}
  <2> HIDE DEF others
  <2>4. others = others \cup {job[r].env} \/ others = (others \cup {job[r].env}) \ {job[r].env}
    OBVIOUS
  <2>5. Working' = Working \/ Working' = Working \ {job[r].env}
    BY <2>2, <2>3, <2>4 DEF others
  <2> QED
    BY <1>1, <1>4, <2>5 DEF Kept!MayLeave
<1> QED
  BY <1>3, <1>4

LEMMA SparedStep ==
  ASSUME Inv, NEW r \in Runs, Steps(r), Spares(r), UNCHANGED issued
  PROVE  Kept!Leave
BY EntriesSpared, WorkingLeaves DEF Kept!Leave

LEMMA IssuedStep ==
  ASSUME Inv, NEW r \in Runs, Steps(r), Spares(r), NEW c \in Creds, Issue(c, Purpose(r))
  PROVE  \E k \in Keys : Kept!Issue(c, k)
<1>1. Purpose(r) \in Keys /\ Purpose(r)[1] = job[r].env
  BY Given DEF Inv, Steps, Running, Purpose
<1>2. Entries' = Entries /\ Kept!MayLeave /\ job[r].env \in Working
  BY EntriesSpared, WorkingLeaves
<1> QED
  BY <1>1, <1>2 DEF Issue, Kept!Issue

\* The run that cuts the file off decides what it will hold
LEMMA OpenKept ==
  ASSUME Inv, NEW r \in Runs, Open(r)
  PROVE  Kept!Next
<1>1. at[r] = "open" /\ UNCHANGED <<issued, job, draft>> /\ Running(r)
  BY DEF Open, Running
<1>2. CASE /\ file' = Torn
           /\ overlap' = (overlap \/ \E s \in Runs \ {r} : at[s] \in {"open", "fill"})
           /\ Goto(r, "fill") /\ UNCHANGED <<kind, warned>>
  <2>1. at'[r] = "fill" /\ \A s \in Runs \ {r} : at'[s] = at[s]
    BY <1>2, GotoSteps DEF Inv
  <2>2. Steps(r)
    BY <1>1, <2>1 DEF Steps
  <2>3. job[r].env \in Working /\ Working' = Working
    BY <2>1, <2>2, WorkingLeaves
  <2>4. CASE overlap'
    <3>1. Entries' = Torn
      BY <2>4 DEF Entries
    <3> QED
      BY <1>1, <2>3, <3>1 DEF Kept!Next, Kept!Lose, Kept!MayLeave
  <2>5. CASE ~overlap'
    <3>1. ~overlap /\ \A s \in Runs \ {r} : at[s] \notin {"open", "fill"}
      BY <1>2, <2>5
    <3>2. Entries = file /\ Entries' = draft[r]
      <4>1. \A s \in Runs : at[s] # "fill"
        BY <1>1, <3>1
      <4>2. Entries = file
        BY <3>1, <4>1 DEF Entries
      <4>3. (CHOOSE s \in Runs : at'[s] = "fill") = r
        BY <2>1, <3>1, OneAtFill
      <4> QED
        BY <1>1, <2>1, <2>5, <4>2, <4>3 DEF Entries
    <3>3. PICK k \in Keys : k = StorageKey(r) /\ k[1] = job[r].env
      BY <1>1, Given DEF Inv, StorageKey
    <3>4. /\ file # Torn /\ \A l \in Keys \ {k} : draft[r][l] = file[l]
          /\ file \in Contents /\ draft[r] \in Contents
      BY <1>1, <3>1, <3>3 DEF Inv, InTurn, IInv, TypeOK
    <3>5. draft[r] = [file EXCEPT ![k] = draft[r][k]] /\ draft[r][k] \in Creds \cup {NoCred}
      BY <3>4 DEF Contents
    <3>6. draft[r][k] = NoCred \/ issued[draft[r][k]] = k
      BY <1>1, <3>3, Given DEF Inv, Holds, Right
    <3>7. Kept!Change(k)
      BY <1>1, <2>3, <3>2, <3>3, <3>4, <3>5, <3>6 DEF Kept!Change
    <3> QED
      BY <3>7 DEF Kept!Next
  <2> QED
    BY <2>4, <2>5
<1>3. CASE StorageFails(r) /\ UNCHANGED <<file, overlap>>
  <2>1. at'[r] \notin {"idle", "fill"} /\ \A s \in Runs \ {r} : at'[s] = at[s]
    BY <1>1, <1>3, WrittenSteps DEF Inv
  <2>2. Steps(r) /\ Spares(r)
    BY <1>1, <1>3, <2>1 DEF Steps, Spares
  <2> QED
    BY <1>1, <2>2, SparedStep DEF Kept!Next
<1> QED
  BY <1>2, <1>3 DEF Open

\* and when it is done, or fails, the file holds that, or nothing that can be read
LEMMA FilledKept ==
  ASSUME Inv, NEW r \in Runs, at[r] = "fill", at'[r] # "fill", Steps(r),
         file' \in {draft[r], file, Torn}, UNCHANGED <<issued, draft, overlap>>
  PROVE  Kept!Next
<1>1. job[r].env \in Working /\ Kept!MayLeave
  BY WorkingLeaves
<1>2. CASE overlap
  <2>1. Entries = Torn /\ Entries' = Torn
    BY <1>2 DEF Entries
  <2> QED
    BY <1>1, <2>1 DEF Kept!Next, Kept!Leave
<1>3. CASE ~overlap
  <2>1. file = Torn /\ \A s \in Runs \ {r} : at[s] # "fill" /\ at'[s] # "fill"
    BY <1>3 DEF Inv, InTurn, Writing, Steps
  <2>2. Entries = draft[r]
    <3>1. (CHOOSE s \in Runs : at[s] = "fill") = r
      BY <2>1, OneAtFill
    <3> QED
      BY <1>3, <3>1 DEF Entries
  <2>3. Entries' = file'
    BY <1>3, <2>1 DEF Entries
  <2>4. CASE file' = draft[r]
    BY <1>1, <2>2, <2>3, <2>4 DEF Kept!Next, Kept!Leave
  <2>5. CASE file' = Torn
    BY <1>1, <2>3, <2>5 DEF Kept!Next, Kept!Lose
  <2> QED
    BY <2>1, <2>4, <2>5
<1> QED
  BY <1>2, <1>3 DEF Inv, IInv, TypeOK

LEMMA FillKept ==
  ASSUME Inv, NEW r \in Runs, Fill(r)
  PROVE  Kept!Next
<1>1. /\ at[r] = "fill" /\ UNCHANGED <<issued, job, draft, overlap>> /\ Running(r)
      /\ Written(r) \/ StorageFails(r)
      /\ file' \in {draft[r], file, Torn}
  BY DEF Fill, Running
<1>2. at'[r] \notin {"idle", "fill"} /\ \A s \in Runs \ {r} : at'[s] = at[s]
  BY <1>1, WrittenSteps DEF Inv
<1>3. Steps(r)
  BY <1>1, <1>2 DEF Steps
<1> QED
  BY <1>1, <1>2, <1>3, FilledKept

LEMMA CrashKept ==
  ASSUME Inv, NEW r \in Runs, Crash(r)
  PROVE  Kept!Next
<1>1. Running(r) /\ UNCHANGED <<file, issued, job, draft, overlap>> /\ at[r] # "idle"
  BY DEF Crash, Running
<1>2. at'[r] = "end" /\ \A s \in Runs \ {r} : at'[s] = at[s]
  BY <1>1, EndSteps DEF Crash, Inv
<1>3. Steps(r)
  BY <1>1, <1>2 DEF Steps
<1>4. CASE at[r] = "fill"
  BY <1>1, <1>2, <1>3, <1>4, FilledKept
<1>5. CASE at[r] # "fill"
  <2>1. Spares(r)
    BY <1>1, <1>2, <1>5 DEF Spares
  <2> QED
    BY <1>1, <1>3, <2>1, SparedStep DEF Kept!Next
<1> QED
  BY <1>4, <1>5

LEMMA BeginKept ==
  ASSUME Inv, NEW r \in Runs, NEW j \in Jobs, Begin(r, j)
  PROVE  Kept!Next
<1>1. at[r] = "idle" /\ job' = [job EXCEPT ![r] = j] /\ j.env \in Envs
      /\ UNCHANGED <<file, issued, draft, overlap>>
  BY DEF Begin, Jobs
<1>2. at'[r] = "get" /\ \A s \in Runs \ {r} : at'[s] = at[s]
  BY GotoSteps DEF Begin, Inv
<1>3. Entries' = Entries
  BY <1>1, <1>2, EntriesSpared DEF Spares
<1>4. job'[r] = j /\ \A s \in Runs \ {r} : job'[s] = job[s]
  BY <1>1 DEF Inv, IInv, TypeOK
<1>5. /\ Running(r)' /\ ~Running(r)
      /\ \A s \in Runs \ {r} : Running(s)' = Running(s)
  BY <1>1, <1>2 DEF Running
<1>6. Working' = Working \cup {j.env}
  BY <1>4, <1>5 DEF Working
<1> QED
  BY <1>1, <1>3, <1>6 DEF Kept!Next, Kept!Start

LEMMA ServerKept ==
  ASSUME Inv, NEW r \in Runs,
         Verify(r) \/ Browser(r) \/ Rotate(r) \/ Revoke(r) \/ Try(r) \/ Send(r)
  PROVE  Kept!Next
<1>1. Steps(r) /\ Spares(r)
  BY ServerSpares DEF Inv
<1>2. CASE UNCHANGED issued
  BY <1>1, <1>2, SparedStep DEF Kept!Next
<1>3. ASSUME NEW c \in Creds, Issue(c, Purpose(r)) PROVE Kept!Next
  BY <1>1, <1>3, IssuedStep DEF Kept!Next
<1> QED
  BY <1>2, <1>3 DEF Verify, Browser, Rotate, Revoke, Try, Send

LEMMA StillKept ==
  ASSUME UNCHANGED <<file, issued, at, job, draft, overlap>>
  PROVE  UNCHANGED Kept!storeVars
<1>1. Entries' = Entries
  BY DEF Entries
<1>2. \A r \in Runs : Running(r)' = Running(r)
  BY DEF Running
<1>3. Working' = Working
  BY <1>2 DEF Working
<1> QED
  BY <1>1, <1>3 DEF Kept!storeVars

LEMMA StoreStepKept ==
  ASSUME Inv, [Next]_vars
  PROVE  [Kept!Next]_(Kept!storeVars)
<1>1. CASE UNCHANGED vars
  BY <1>1, StillKept DEF vars, histories
<1>2. ASSUME NEW r \in Runs, Get(r) \/ Store(r) \/ Drop(r) PROVE Kept!Next
  <2>1. Steps(r) /\ Spares(r) /\ UNCHANGED issued
    BY <1>2, GetSpares, StoreDropSpares DEF Inv, Get, Store, Drop
  <2> QED
    BY <2>1, SparedStep DEF Kept!Next
<1>3. ASSUME NEW c \in Creds, Expire(c) PROVE UNCHANGED Kept!storeVars
  BY <1>3, StillKept DEF Expire
<1> QED
  BY <1>1, <1>2, <1>3, BeginKept, OpenKept, FillKept, ServerKept, CrashKept DEF Next, Finished

LEMMA StoreInitKept ==
  ASSUME Init
  PROVE  Kept!Init
<1>1. IInv
  BY InitInv
<1>2. \A r \in Runs : at[r] = "idle" /\ ~Running(r)
  BY DEF Init, Running
<1>3. Entries = file /\ Working = {} /\ file \in Contents
  BY <1>2 DEF Init, Entries, Working
<1>4. \A c \in Creds : \A k \in Keys : file[k] = c => issued[c] = k
  BY <1>1, <1>3, NoCredAssumption, TornAssumption DEF IInv, Right
<1>5. \A c \in Creds : \A k \in Keys : issued[c] = k => file[k] = c
  BY NoKeyAssumption DEF Init
<1> QED
  BY <1>1, <1>3, <1>4, <1>5 DEF Kept!Init, Kept!Map, Contents, IInv, TypeOK

\* The file is a map of sessions, whatever runs at once and crashes: a command
\* changes the one entry it is about, for the session issued for it or for none, and
\* rewrites the rest as it was; a write that fails or is killed, or two that overlap, may
\* lose all of it, for good.
THEOREM OneEntryIsChanged == Spec => OneEntryAtATime
<1>1. Init => Kept!Init
  BY StoreInitKept
<1>2. Inv /\ [Next]_vars => [Kept!Next]_(Kept!storeVars)
  BY StoreStepKept
<1> QED
  BY <1>1, <1>2, SessionsInvariance, PTL DEF Spec, OneEntryAtATime, Kept!Spec
=============================================================================
