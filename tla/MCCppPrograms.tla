--------------------------- MODULE MCCppPrograms ---------------------------
(* Instances of CppPrograms.  Objects of one class are interchangeable, and  *)
(* so are the slots of one pool.  No step relates two references but Child   *)
(* and ExpressionOf, which make one like another: one is enough.             *)
EXTENDS CppPrograms, TLC

Symmetry ==
  Permutations(Handle) \cup Permutations(Slot) \cup Permutations(Object)
    \cup Permutations(Place)
=============================================================================
