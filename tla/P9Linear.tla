------------------------------ MODULE P9Linear ------------------------------
(***************************************************************************)
(* The simplifiers built on the certifier (core/src/p9.rs): candidates are  *)
(* interpolated from the values of the expression on a cube of inputs, and  *)
(* one that is smaller and proved equal replaces it.                        *)
(*   production  simplify_linear_if_smaller, the last stage of the pipeline *)
(*   linear      analyze_linear                                             *)
(*   analyze     analyze: a bitwise and an affine candidate                 *)
(*   certify     certify_equivalent on a candidate from elsewhere           *)
(***************************************************************************)
EXTENDS CarryStates

CONSTANTS
  Exprs,      \* normalised expressions to simplify
  Given,      \* candidates from elsewhere
  LimitSets   \* limits in use

ASSUME ExprsAssumption == \A e \in Exprs \cup Given : WellFormed(e)
ASSUME LimitsAssumption == LimitSets \subseteq [vars : Nat, nodes : Nat, states : Nat, candidates : Nat]

VARIABLES
  mode,
  queue,    \* candidates to try
  unsure,   \* budget_exceeded
  result, failure

vars == <<certVars, mode, queue, unsure, result, failure>>

TypeOK ==
  /\ CertTypeOK
  /\ mode \in {"production", "linear", "analyze", "certify"}
  /\ Len(queue) <= limits.candidates
  /\ unsure \in BOOLEAN
  /\ result \in {expression, candidate}
  /\ failure \in {"none", "unsupported", "budget", "no candidate", "rejected"}

Init ==
  /\ expression \in Exprs /\ limits \in LimitSets
  /\ \/ mode = "certify" /\ candidate \in Given /\ pc = "check"
     \/ mode \in {"production", "linear", "analyze"} /\ candidate = expression /\ pc = "start"
  /\ NoScan /\ verdict = NoVerdict
  /\ queue = <<>> /\ unsure = FALSE /\ result = expression /\ failure = "none"
-----------------------------------------------------------------------------
Finish(e, why) == pc' = "done" /\ result' = e /\ failure' = why

Refuse ==
  /\ pc = "start"
  /\ ~Supported \/ ~FewVars
  /\ Finish(expression, IF Supported THEN "budget" ELSE "unsupported")
  /\ UNCHANGED <<expression, candidate, limits, scanVars, verdict, mode, queue, unsure>>

Smaller(c) == Size(c) < Size(expression)
FewEnough(sorted) == SubSeq(sorted, 1, IF Len(sorted) < limits.candidates THEN Len(sorted) ELSE limits.candidates)
(* The affine candidate is the projection without its conjunctions of several *)
(* variables, so the two are the same or differ in size: what candidate_score *)
(* compares after the size (depth, arithmetic nodes, text) decides nothing.  *)
ShorterFirst(c, d) == IF c = d THEN <<c>> ELSE IF Size(d) < Size(c) THEN <<d, c>> ELSE <<c, d>>
Shortest(bitwise, affine) ==
  FewEnough(IF Smaller(bitwise) /\ Smaller(affine) THEN ShorterFirst(bitwise, affine)
            ELSE Listed({c \in {bitwise, affine} : Smaller(c)}))
CandidatesFrom(projection, affine) ==
  CASE mode = "production" -> IF Smaller(projection) THEN <<projection>> ELSE <<>>
    [] mode = "linear" -> <<projection>>
    [] mode = "analyze" -> Shortest(IF UniformOnMask(expression) THEN projection ELSE affine, affine)
Candidates == CandidatesFrom(Projection(expression), Affine(expression))

Generate ==
  /\ pc = "start"
  /\ Supported /\ FewVars
  /\ queue' = Candidates
  /\ pc' = "offer"
  /\ UNCHANGED <<expression, candidate, limits, scanVars, verdict, mode, unsure, result, failure>>

Offer ==
  /\ pc = "offer" /\ queue # <<>>
  /\ candidate' = Head(queue) /\ queue' = Tail(queue)
  /\ pc' = "check"
  /\ UNCHANGED <<expression, limits, scanVars, verdict, mode, unsure, result, failure>>

(* Mutant of Acceptable: a candidate not refuted is good enough. *)
AcceptableUnrefuted == verdict.kind # "differ" /\ Smaller(candidate)
Acceptable == verdict.kind = "proved" /\ Smaller(candidate)

Accept ==
  /\ pc = "decided" /\ mode # "certify"
  /\ Acceptable
  /\ Finish(candidate, "none")
  /\ UNCHANGED <<expression, candidate, limits, scanVars, verdict, mode, queue, unsure>>

PassOver ==
  /\ pc = "decided" /\ mode # "certify"
  /\ ~Acceptable
  /\ unsure' = (unsure \/ verdict.kind = "unknown")
  /\ pc' = "offer"
  /\ UNCHANGED <<expression, candidate, limits, scanVars, verdict, mode, queue, result, failure>>

Exhausted ==
  /\ pc = "offer" /\ queue = <<>>
  /\ Finish(expression, IF verdict = NoVerdict THEN "no candidate"
                        ELSE IF unsure THEN "budget" ELSE "rejected")
  /\ UNCHANGED <<expression, candidate, limits, scanVars, verdict, mode, queue, unsure>>

Next ==
  \/ Refuse \/ Generate \/ Offer \/ Accept \/ PassOver \/ Exhausted
  \/ Certify /\ UNCHANGED <<mode, queue, unsure, result, failure>>

Spec == Init /\ [][Next]_vars
-----------------------------------------------------------------------------
(* Whatever the limits, what replaces an expression has its value on all      *)
(* inputs: no budget or fragment exit lets an unproved candidate through.    *)
ResultExact ==
  pc = "done" => \A x \in Inputs(expression) : Eval(result, x) = Eval(expression, x)

(* A linear combination of bitwise functions of the variables is never told   *)
(* apart from its projection.                                                *)
LinearNeverRefuted ==
  mode \in {"production", "linear"} /\ pc = "decided" /\ LinearMba(expression)
    => verdict.kind # "differ"
=============================================================================
