---------------------------- MODULE SessionStore ----------------------------
(***************************************************************************)
(* What the credential file promises the commands that share it, as long   *)
(* as they do not write it at once: it is a map with an entry for each     *)
(* environment and use.  Only a command of an environment changes an entry *)
(* of it, to a session the server issued for that entry or to none, and it *)
(* leaves every other entry as it is.  A write that does not succeed, and  *)
(* an overlap, may lose the whole map, and then it is lost for good.       *)
(***************************************************************************)
CONSTANTS Envs, Keys, Creds, NoCred, NoKey, Lost

VARIABLES
  entries,  \* the map
  issued,   \* what each session was issued for
  working   \* environments that have a running command

storeVars == <<entries, issued, working>>

Map == [Keys -> Creds \cup {NoCred}]

\* no session is stored under two keys, and each was issued for its own
Init ==
  /\ entries \in Map
  /\ issued \in [Creds -> Keys \cup {NoKey}]
  /\ \A c \in Creds : \A k \in Keys : entries[k] = c <=> issued[c] = k
  /\ working = {}

\* a command's last step may be any of its steps
MayLeave == working' = working \/ \E e \in working : working' = working \ {e}

Start(e) == working' = working \cup {e} /\ UNCHANGED <<entries, issued>>

Leave == MayLeave /\ UNCHANGED <<entries, issued>>

Issue(c, k) ==
  /\ issued[c] = NoKey /\ k[1] \in working
  /\ issued' = [issued EXCEPT ![c] = k]
  /\ MayLeave /\ UNCHANGED entries

Change(k) ==
  /\ entries # Lost /\ k[1] \in working
  /\ \E c \in Creds \cup {NoCred} :
       /\ c = NoCred \/ issued[c] = k
       /\ entries' = [entries EXCEPT ![k] = c]
  /\ UNCHANGED <<issued, working>>

Lose ==
  /\ working # {}
  /\ entries' = Lost
  /\ MayLeave /\ UNCHANGED issued

Next ==
  \/ \E e \in Envs : Start(e)
  \/ Leave
  \/ \E c \in Creds, k \in Keys : Issue(c, k)
  \/ \E k \in Keys : Change(k)
  \/ Lose

Spec == Init /\ [][Next]_storeVars
=============================================================================
