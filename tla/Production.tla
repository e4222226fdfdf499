----------------------------- MODULE Production -----------------------------
(***************************************************************************)
(* simplify_mba_with_cache (core/src/simplify.rs) on expressions: the       *)
(* ordinary simplifier, the closure, simplify_linear_if_smaller, and the    *)
(* least of what they return; and the other entries to the certifier, as    *)
(* P9Linear has them.                                                      *)
(***************************************************************************)
EXTENDS Closure, P9Linear

CONSTANT DefaultLimits   \* P9Limits::default()

VARIABLES
  stage,    \* "ordinary", "closure", "certified", "chosen"
  chosen    \* what the call returns

prodVars == <<vars, simplifyVars, closureVars, stage, chosen>>

NoSource == Zero0
-----------------------------------------------------------------------------
Unsimplified ==
  /\ source = NoSource /\ cur = source /\ best = source
  /\ mid = NoTree /\ solved = NoTree /\ answer = NoTree
  /\ step = "reduce" /\ seen = {} /\ pass = 0
  /\ call = NewCall /\ error = "none"
  /\ view = View(source, cur, mid, solved, seen, best, answer)
Uncertified ==
  /\ mode = "production" /\ pc = "start" /\ limits = DefaultLimits
  /\ expression = Const(0) /\ candidate = expression /\ result = expression
  /\ NoScan /\ verdict = NoVerdict
  /\ queue = <<>> /\ unsure = FALSE /\ failure = "none"

NoChoice == Const(0)
ProductionInit ==
  /\ ClosureInit /\ chosen = NoChoice
  /\ \/ stage = "ordinary" /\ SimplifyInit /\ Uncertified
     \/ stage = "certified" /\ Unsimplified /\ Init
-----------------------------------------------------------------------------
(* The last clause: simplify_linear_if_smaller measures its argument before   *)
(* it is normalised, P9Linear after, which comes to the same.                *)
ProductionTypeOK ==
  /\ TypeOK /\ SimplifyTypeOK
  /\ source \in Sources \cup {NoSource}
  /\ stage \in {"ordinary", "closure", "certified", "chosen"}
  /\ phase = "done" => Speaks(p7e) /\ TreeSize(Normalized(p7e, Width)) = TreeSize(p7e)

Close ==
  /\ stage = "ordinary" /\ step = "done"
  /\ FindScope(answer)
  /\ stage' = "closure"
  /\ UNCHANGED <<vars, simplifyVars, chosen>>

HandOn ==
  /\ stage = "closure" /\ phase = "done"
  /\ stage' = "certified"
  /\ expression' = ToTerm(Normalized(p7e, Width))
  /\ candidate' = expression' /\ result' = expression'
  /\ UNCHANGED <<limits, pc, scanVars, verdict, mode, queue, unsure, failure, simplifyVars, closureVars, chosen>>

(* production_cost: the size, and between equals the text, of which nothing   *)
(* is known here.                                                            *)
Results == {ToTerm(base), ToTerm(p7e), result}
Cheapest(S) == {e \in S : \A f \in S : Size(e) <= Size(f)}
Choose ==
  /\ stage = "certified" /\ pc = "done" /\ p7e # NoTree
  /\ stage' = "chosen"
  /\ chosen' \in Cheapest(Results)
  /\ UNCHANGED <<vars, simplifyVars, closureVars>>

ProductionNext ==
  \/ stage = "ordinary" /\ SimplifyNext /\ UNCHANGED <<vars, closureVars, stage, chosen>>
  \/ Close
  \/ stage = "closure" /\ ClosureNext /\ UNCHANGED <<vars, simplifyVars, stage, chosen>>
  \/ HandOn
  \/ stage = "certified" /\ Next /\ UNCHANGED <<simplifyVars, closureVars, stage, chosen>>
  \/ Choose

ProductionSpec == ProductionInit /\ [][ProductionNext]_prodVars
-----------------------------------------------------------------------------
(* From the argument to the result: whatever the passes rewrite, hide and     *)
(* share, whichever words the closure replaces and whichever projection       *)
(* replaces what they give, the value is the argument's on all inputs, unless *)
(* a solution was used at another width than it was found at, or the closure  *)
(* worked in a scope of another width.                                       *)
Trusted == ~call.mixed /\ ~doubtful /\ scope.n \in {0, Width}
Exact(e) == \A i \in InputNumbers : Eval(e, Input(i)) = TreeEval(source, Input(i))
ProductionExact == stage = "chosen" /\ Trusted => Exact(chosen)

(* simplify_mba_with_cache: "Every stage is exact", here those after the      *)
(* ordinary one.                                                             *)
LaterStagesExact == stage = "chosen" /\ Exact(ToTerm(base)) => Exact(chosen)
=============================================================================
