---------------------------- MODULE MCCppHandles ----------------------------
(* Instances of CppHandles: four objects, two operands, a result and one     *)
(* more, and four slots.  Objects and slots are interchangeable.             *)
EXTENDS CppHandles, TLC

Symmetry == Permutations(Handle) \cup Permutations(Slot)
=============================================================================
