--------------------------- MODULE MCAuthSessions ---------------------------
(***************************************************************************)
(* Small instances of AuthSessions for TLC.  Runs, environments and        *)
(* credentials are compared for equality only; no property is about        *)
(* liveness.                                                               *)
(***************************************************************************)
EXTENDS AuthSessions, TLC

Symmetry == Permutations(Runs) \cup Permutations(Envs) \cup Permutations(Creds)
=============================================================================
