----------------------------- MODULE MCRegistry -----------------------------
(* The registry on a small network: two addresses, one of them configured, *)
(* two collectors and two background goroutines.                           *)
EXTENDS Registry, TLC

ThreadSymmetry == Permutations(Callers) \cup Permutations(Sweepers)
=============================================================================
