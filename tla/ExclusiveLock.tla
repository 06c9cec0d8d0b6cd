---------------------------- MODULE ExclusiveLock ----------------------------
(***************************************************************************)
(* What the install locks of `bl skills' and `bl agents' promise to the    *)
(* commands that take them: a command holds the lock alone, from the       *)
(* moment `acquire' returns to the moment the guard is dropped.            *)
(***************************************************************************)
CONSTANT Procs

VARIABLE holders

Init == holders = {}

Acquire(p) ==
  /\ holders = {}
  /\ holders' = {p}

Release(p) ==
  /\ p \in holders
  /\ holders' = holders \ {p}

Next == \E p \in Procs : Acquire(p) \/ Release(p)

Spec == Init /\ [][Next]_holders
=============================================================================
