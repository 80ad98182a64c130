-------------------------- MODULE MCConnectionStore --------------------------
(***************************************************************************)
(* Small instances of ConnectionStore: entries, profiles and syncs are       *)
(* interchangeable in runs without liveness.                                 *)
(***************************************************************************)
EXTENDS ConnectionStore, TLC

Symmetric == Permutations(Items) \cup Permutations(Profiles) \cup Permutations(Syncs)
=============================================================================
