----------------------------- MODULE FixedPoint -----------------------------
(***************************************************************************)
(* The ordinary simplifier (core/src/simplify.rs,                          *)
(* simplify_mba_baseline_with_cache over simplify_to_fixed_point): reduce  *)
(* the expression once, then repeat a pass, bitwise-frontier normalisation *)
(* followed by a solve, until it returns its argument, an expression       *)
(* already seen, an error, or the pass limit is reached.                   *)
(*                                                                         *)
(* An expression is reduced to the value it takes at some fixed inputs at  *)
(* the widest bit width, as the set of the bits that are one, its number   *)
(* of nodes and its number of alternations between arithmetic and bitwise  *)
(* nodes.  Reduction, the      *)
(* frontier rewrite and the solver each give some expression of the same   *)
(* value at the width asked for.                                           *)
(***************************************************************************)
EXTENDS Naturals

CONSTANTS
  Expr,       \* expressions: records [val, size, alt]
  Width,      \* the bit width asked for
  MaxPasses,  \* MAX_SIMPLIFICATION_PASSES
  SizeFactor, \* MAX_TRANSFORMED_AST_FACTOR
  NoExpr

ASSUME FixedPointAssumption ==
  /\ \A e \in Expr : e.val \subseteq Nat /\ e.size \in Nat /\ e.alt \in Nat
  /\ Width \in Nat /\ SizeFactor \in Nat
  /\ MaxPasses \in Nat \ {0}
  /\ NoExpr \notin Expr

VARIABLES
  input,   \* the argument of the call
  pc,      \* what the call does next
  cur,     \* e: the expression the pass starts from
  mid,     \* the expression given to the solver
  next,    \* what the solver returned
  seen,    \* the expressions passes started from, and the last one returned
  best,    \* the smallest of them
  pass,    \* passes completed
  result   \* what the call returned

fpVars == <<input, pc, cur, mid, next, seen, best, pass, result>>

(* The value of e at w bits. *)
Value(e, w) == {b \in e.val : b < w}

EqualTo(e) == {f \in Expr : Value(f, Width) = Value(e, Width)}
CostsNoMore(f, e) == f.alt < e.alt \/ (f.alt = e.alt /\ f.size <= e.size)

Places == {"reduce", "frontier", "solve", "check", "done", "failed"}
MaybeExpr == Expr \cup {NoExpr}

FPTypeOK ==
  /\ input \in Expr /\ cur \in Expr /\ best \in Expr
  /\ mid \in MaybeExpr /\ next \in MaybeExpr /\ result \in MaybeExpr
  /\ pc \in Places
  /\ pc \in {"solve", "check"} => mid \in Expr
  /\ pc = "check" => next \in Expr
  /\ pc = "done" => result \in Expr
  /\ seen \in SUBSET Expr
  /\ pass \in 0 .. MaxPasses
  /\ pc \in {"reduce", "frontier", "solve", "check"} => pass < MaxPasses
-----------------------------------------------------------------------------
FPInit ==
  /\ input \in Expr /\ cur = input /\ best = input
  /\ mid = NoExpr /\ next = NoExpr /\ result = NoExpr
  /\ pc = "reduce" /\ seen = {} /\ pass = 0

Reduce ==
  /\ pc = "reduce"
  /\ cur' \in EqualTo(input)
  /\ best' = cur'
  /\ seen' = {cur'}
  /\ pc' = "frontier"
  /\ UNCHANGED <<input, mid, next, pass, result>>

(* normalize_bitwise_frontier accepts a rewrite that costs less, whatever it *)
(* does to the size within the budget; zero costs least of all.              *)
Rewrites(e) == {f \in EqualTo(e) : CostsNoMore(f, e) /\ f.size <= SizeFactor * e.size}

Frontier ==
  /\ pc = "frontier"
  /\ mid' \in {cur} \cup Rewrites(cur)
  /\ pc' = "solve"
  /\ UNCHANGED <<input, cur, next, seen, best, pass, result>>

Solve ==
  /\ pc = "solve"
  /\ next' \in EqualTo(mid)
  /\ pc' = "check"
  /\ UNCHANGED <<input, cur, mid, seen, best, pass, result>>

SolveFails ==
  /\ pc = "solve"
  /\ pc' = "failed"
  /\ UNCHANGED <<input, cur, mid, next, seen, best, pass, result>>

(* Mutant of Smaller: the latest is kept. *)
Latest(e, f) == e

Smaller(e, f) == IF e.size < f.size THEN e ELSE f
Return(e) == pc' = "done" /\ result' = e /\ UNCHANGED cur
Continue == pc' = "frontier" /\ cur' = next /\ UNCHANGED result

(* Mutant of Check: expressions seen before are not noticed, and passes not  *)
(* counted.                                                                  *)
CheckForever ==
  /\ pc = "check"
  /\ best' = Smaller(next, best)
  /\ seen' = seen \cup {next}
  /\ IF next = cur THEN Return(next) ELSE Continue
  /\ UNCHANGED <<input, mid, next, pass>>

(* The end of a pass: the expression is stable, was seen before, or is what  *)
(* the next pass, if there is one, starts from.                              *)
Check ==
  /\ pc = "check"
  /\ best' = Smaller(next, best)
  /\ pass' = pass + 1
  /\ seen' = seen \cup {next}
  /\ IF next = cur THEN Return(next)
     ELSE IF next \in seen \/ pass' = MaxPasses THEN Return(best') ELSE Continue
  /\ UNCHANGED <<input, mid, next>>

FPNext == Reduce \/ Frontier \/ Solve \/ SolveFails \/ Check
FPSpec == FPInit /\ [][FPNext]_fpVars
-----------------------------------------------------------------------------
(* What the call returns has the value of its argument, at the width asked   *)
(* for, however many passes ran and whichever expression was kept.           *)
FPExact == pc = "done" => Value(result, Width) = Value(input, Width)

(* A call that ends at the pass limit or on an expression seen before returns *)
(* one no larger than any that a pass started from or returned.  (A call that *)
(* ends on a stable expression returns that one, even if larger.)             *)
SmallestKept ==
  pc = "done" /\ next # cur => \A e \in seen : result.size <= e.size
=============================================================================
