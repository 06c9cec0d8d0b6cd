----------------------------- MODULE MCHostedApp -----------------------------
(***************************************************************************)
(* Small instances of HostedApp for TLC.  Runs, users and profiles are     *)
(* compared for equality only, so permuting them changes no invariant.     *)
(***************************************************************************)
EXTENDS HostedApp, TLC

Symmetry == Permutations(Runs) \cup Permutations(Users) \cup Permutations(Profiles)
=============================================================================
