---------------------------- MODULE MCLinearCache ----------------------------
(* An instance of LinearCache: two threads, clears racing lookups.            *)
EXTENDS LinearCache, TLC

Symmetry == Permutations(Threads)
=============================================================================
