--------------------------- MODULE AgentLifecycle ---------------------------
(***************************************************************************)
(* What `bl agents' promises about one agent: its document and the record  *)
(* of what was installed are a pair that commands replace or remove as a   *)
(* whole, and only while the document is not somebody else's.              *)
(***************************************************************************)
CONSTANTS Versions, UserDoc, Foreign, Absent

VARIABLE pair  \* <<document, record>>

InitialPairs ==
  {<<Absent, Absent>>, <<UserDoc, Absent>>}
    \cup {<<v, v>> : v \in Versions} \cup {<<UserDoc, v>> : v \in Versions}
    \cup {<<Absent, v>> : v \in Versions} \cup {<<v, Foreign>> : v \in Versions}

\* the pair is absent, or bl's: what was recorded is there, or nothing is
Replaceable(q) ==
  \/ q = <<Absent, Absent>>
  \/ q[2] \in Versions /\ q[1] \in {q[2], Absent}

Init == pair \in InitialPairs

Install(v) ==
  /\ Replaceable(pair)
  /\ pair' = <<v, v>>

Remove ==
  /\ Replaceable(pair)
  /\ pair' = <<Absent, Absent>>

UserWrites == pair' = <<UserDoc, pair[2]>>

UserDeletes == pair' = <<Absent, pair[2]>>

Next == (\E v \in Versions : Install(v)) \/ Remove \/ UserWrites \/ UserDeletes

Spec == Init /\ [][Next]_pair
=============================================================================
