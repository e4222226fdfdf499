----------------------------- MODULE MCDiagnose -----------------------------
(* An instance of Diagnose.  Six expressions of one value and three sizes,    *)
(* so that three passes may each give a new one and the last be the smallest, *)
(* and one expression of another value.                                       *)
EXTENDS Diagnose

MCExpr ==
  [val : {{0}}, size : {1, 2, 3}, alt : {0, 1}] \cup {[val |-> {0, 1}, size |-> 1, alt |-> 0]}
=============================================================================
