------------------------------ MODULE Diagnose ------------------------------
(***************************************************************************)
(* diagnose_baseline_steps (core/src/simplify.rs): the ordinary simplifier *)
(* run again with a loop of its own that keeps every edge from the source  *)
(* to the result, for external validators (scripts/validate_m2_z3.sh proves *)
(* each edge).  It implements FixedPoint, the simplifier itself.           *)
(***************************************************************************)
EXTENDS Integers, Sequences

CONSTANTS Expr, Width, MaxPasses, SizeFactor, NoExpr

ASSUME DiagnoseAssumption ==
  /\ \A e \in Expr : e.val \subseteq Nat /\ e.size \in Nat /\ e.alt \in Nat
  /\ Width \in Nat /\ SizeFactor \in Nat
  /\ MaxPasses \in Nat \ {0}
  /\ NoExpr \notin Expr

VARIABLES
  expression,  \* the argument
  pc,
  current,     \* the expression the pass starts from
  frontier,    \* after the frontier rewrite
  next,        \* after the solve
  seen, best,
  passes,      \* passes completed
  result,      \* the expression returned
  steps        \* the edges kept so far

vars == <<expression, pc, current, frontier, next, seen, best, passes, result, steps>>

FP == INSTANCE FixedPoint WITH
        input <- expression, cur <- current, mid <- frontier, pass <- passes

Stages == {"Reduce", "BitwiseFrontier", "OrdinarySolve", "BestRetention"}
Edge == [pass : 0 .. MaxPasses, stage : Stages, before : Expr, after : Expr]

(* The edge from e to f, kept if it leads anywhere. *)
Kept(n, stage, e, f) ==
  IF f = e THEN steps
  ELSE Append(steps, [pass |-> n, stage |-> stage, before |-> e, after |-> f])
-----------------------------------------------------------------------------
Init == FP!FPInit /\ steps = <<>>

Reduce ==
  /\ pc = "reduce"
  /\ current' \in FP!EqualTo(expression)
  /\ steps' = Kept(0, "Reduce", expression, current')
  /\ seen' = {current'}
  /\ best' = current'
  /\ pc' = "frontier"
  /\ UNCHANGED <<expression, frontier, next, passes, result>>


BitwiseFrontier ==
  /\ pc = "frontier"
  /\ frontier' \in {current} \cup FP!Rewrites(current)
  /\ steps' = Kept(passes + 1, "BitwiseFrontier", current, frontier')
  /\ pc' = "solve"
  /\ UNCHANGED <<expression, current, next, seen, best, passes, result>>

OrdinarySolve ==
  /\ pc = "solve"
  /\ next' \in FP!EqualTo(frontier)
  /\ steps' = Kept(passes + 1, "OrdinarySolve", frontier, next')
  /\ pc' = "check"
  /\ UNCHANGED <<expression, current, frontier, seen, best, passes, result>>

SolveFails ==
  /\ pc = "solve"
  /\ pc' = "failed"
  /\ UNCHANGED <<expression, current, frontier, next, seen, best, passes, result, steps>>

Finish(e) == pc' = "done" /\ result' = e

(* The end of the pass: best is updated before the tests. *)
NewBest == best' = IF next.size < best.size THEN next ELSE best

Stable ==
  /\ pc = "check"
  /\ next = current
  /\ NewBest
  /\ passes' = passes + 1
  /\ Finish(next)
  /\ UNCHANGED <<expression, current, frontier, next, seen, steps>>

(* Mutant of Cycle: the smallest is returned without the edge to it. *)
CycleUnkept ==
  /\ pc = "check"
  /\ next # current /\ next \in seen
  /\ NewBest
  /\ passes' = passes + 1
  /\ Finish(best')
  /\ UNCHANGED <<expression, current, frontier, next, seen, steps>>

Cycle ==
  /\ pc = "check"
  /\ next # current /\ next \in seen
  /\ NewBest
  /\ passes' = passes + 1
  /\ steps' = Kept(passes + 1, "BestRetention", next, best')
  /\ Finish(best')
  /\ UNCHANGED <<expression, current, frontier, next, seen>>

NextPass ==
  /\ pc = "check"
  /\ next \notin seen /\ passes + 1 < MaxPasses
  /\ NewBest
  /\ passes' = passes + 1
  /\ seen' = seen \cup {next}
  /\ current' = next
  /\ pc' = "frontier"
  /\ UNCHANGED <<expression, frontier, next, result, steps>>

(* Mutant of Limit: best is not updated in the last pass. *)
LimitStale ==
  /\ pc = "check"
  /\ next # current /\ next \notin seen /\ passes + 1 = MaxPasses
  /\ UNCHANGED best
  /\ passes' = passes + 1
  /\ seen' = seen \cup {next}
  /\ steps' = Kept(MaxPasses, "BestRetention", next, best)
  /\ Finish(best)
  /\ UNCHANGED <<expression, current, frontier, next>>

(* The pass limit: current becomes next before it is compared with best. *)
Limit ==
  /\ pc = "check"
  /\ next # current /\ next \notin seen /\ passes + 1 = MaxPasses
  /\ NewBest
  /\ passes' = passes + 1
  /\ seen' = seen \cup {next}
  /\ steps' = Kept(MaxPasses, "BestRetention", next, best')
  /\ Finish(best')
  /\ UNCHANGED <<expression, current, frontier, next>>

Next ==
  \/ Reduce \/ BitwiseFrontier \/ OrdinarySolve \/ SolveFails
  \/ Stable \/ Cycle \/ NextPass \/ Limit

Spec == Init /\ [][Next]_vars
-----------------------------------------------------------------------------
TypeOK ==
  /\ FP!FPTypeOK
  /\ steps \in Seq(Edge)
  /\ seen # {} \/ pc = "reduce"

(* Where the chain of edges has got to. *)
Reached ==
  CASE pc = "reduce" -> expression
    [] pc = "frontier" -> current
    [] pc \in {"solve", "failed"} -> frontier
    [] pc = "check" -> next
    [] pc = "done" -> result

(* The edges form a chain from the source to the result: an external proof   *)
(* of every edge is a proof that the result equals the source.               *)
IsChain(q, e, f) ==
  IF q = <<>> THEN e = f
  ELSE /\ q[1].before = e
       /\ q[Len(q)].after = f
       /\ \A i \in 1 .. Len(q) - 1 : q[i].after = q[i + 1].before
Chained == IsChain(steps, expression, Reached)

(* Every edge changes the expression but not its value, and passes are       *)
(* numbered in order.                                                        *)
EdgesSound ==
  \A i \in DOMAIN steps :
    /\ steps[i].before # steps[i].after
    /\ FP!Value(steps[i].before, Width) = FP!Value(steps[i].after, Width)
    /\ i > 1 => steps[i - 1].pass <= steps[i].pass
    /\ (steps[i].pass = 0) = (steps[i].stage = "Reduce")

(* "Reproduce ordinary RUMBA": what the loop does, the simplifier does.      *)
ReproducesOrdinary == FP!FPSpec
=============================================================================
