---------------------------- MODULE MCProgram ----------------------------
(* Instances of Program.  Identifiers are interchangeable, and no run checks *)
(* liveness, so runs may take the symmetry of Id.                            *)
EXTENDS Program, TLC

Symmetry == Permutations(Id)
=============================================================================
