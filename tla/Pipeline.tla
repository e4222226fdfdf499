------------------------------ MODULE Pipeline ------------------------------
(***************************************************************************)
(* The production pipeline (core/src/simplify.rs, simplify_mba_with_cache): *)
(* the ordinary simplifier run inside a trace session, the P7e closure on  *)
(* the first traced scope whose input is the simplifier's result, the P9-L *)
(* projection, and the least costly of the three results.                  *)
(*                                                                         *)
(* The session is a thread-local: it outlives the call when a panic        *)
(* unwinds through the simplifier into a host that catches it (the Python  *)
(* binding).  A scope is opened for every expression a solver is created   *)
(* for: the argument of each solve, and the subexpressions it hides behind *)
(* variables, which are solved at the width of the mask in force, equal to *)
(* the width asked for or narrower (make_bitwise, "dynamic masking").      *)
(***************************************************************************)
EXTENDS FixedPoint

CONSTANTS
  InnerWidths,  \* widths hidden subexpressions are solved at
  Panics,       \* may a solve panic?
  MaxCalls      \* bound: calls of the thread

ASSUME PipelineAssumption ==
  /\ InnerWidths \subseteq 1 .. Width
  /\ Panics \in BOOLEAN
  /\ MaxCalls \in Nat

VARIABLES
  stage,     \* what the call is at
  session,   \* HIDDEN_TRACE_STATE is Some
  first,     \* the trace: the width of the first scope with atoms of each input, or 0
  base, afterP7e, afterP9l,  \* the results of the three stages
  out,       \* what the call returned
  calls,     \* history: calls begun
  panicked   \* history: some solve panicked

traceVars == <<session, first>>
stageVars == <<base, afterP7e, afterP9l, out>>
historyVars == <<calls, panicked>>
vars == <<fpVars, stage, traceVars, stageVars, historyVars>>

Untraced == [e \in Expr |-> 0]

TypeOK ==
  /\ FPTypeOK
  /\ stage \in {"idle", "baseline", "p7e", "p9l", "choose", "returned", "failed"}
  /\ session \in BOOLEAN /\ panicked \in BOOLEAN
  /\ first \in [Expr -> {0} \cup InnerWidths \cup {Width}]
  /\ base \in MaybeExpr /\ afterP7e \in MaybeExpr /\ afterP9l \in MaybeExpr
  /\ out \in MaybeExpr
  /\ calls \in 0 .. MaxCalls
  /\ stage \in {"p7e", "p9l", "choose", "returned"} => base \in Expr
  /\ stage \in {"p9l", "choose", "returned"} => afterP7e \in Expr
  /\ stage \in {"choose", "returned"} => afterP9l \in Expr
  /\ stage = "returned" => out \in Expr
-----------------------------------------------------------------------------
Init ==
  /\ FPInit
  /\ stage = "idle" /\ session = FALSE /\ first = Untraced
  /\ base = NoExpr /\ afterP7e = NoExpr /\ afterP9l = NoExpr /\ out = NoExpr
  /\ calls = 0 /\ panicked = FALSE

AtRest == stage \in {"idle", "returned", "failed"}

(* Mutant of Begin: a session that is open is not noticed. *)
BeginNested(e) ==
  /\ AtRest /\ calls < MaxCalls
  /\ session' = TRUE /\ UNCHANGED first
  /\ stage' = "baseline"
  /\ input' = e /\ cur' = e /\ best' = e
  /\ mid' = NoExpr /\ next' = NoExpr /\ result' = NoExpr
  /\ pc' = "reduce" /\ seen' = {} /\ pass' = 0
  /\ base' = NoExpr /\ afterP7e' = NoExpr /\ afterP9l' = NoExpr /\ out' = NoExpr
  /\ calls' = calls + 1
  /\ UNCHANGED panicked

(* simplify_mba_baseline_with_trace opens the session and starts the call. *)
Begin(e) ==
  /\ AtRest /\ calls < MaxCalls
  /\ ~session
  /\ session' = TRUE /\ first' = Untraced
  /\ stage' = "baseline"
  /\ input' = e /\ cur' = e /\ best' = e
  /\ mid' = NoExpr /\ next' = NoExpr /\ result' = NoExpr
  /\ pc' = "reduce" /\ seen' = {} /\ pass' = 0
  /\ base' = NoExpr /\ afterP7e' = NoExpr /\ afterP9l' = NoExpr /\ out' = NoExpr
  /\ calls' = calls + 1
  /\ UNCHANGED panicked

(* It finds a session open: the assertion fails. *)
BeginRefused ==
  /\ AtRest /\ calls < MaxCalls
  /\ session
  /\ stage' = "failed"
  /\ calls' = calls + 1
  /\ UNCHANGED <<fpVars, traceVars, stageVars, panicked>>

(* The scopes of a solve: its argument's, which has atoms if anything was    *)
(* hidden, and at most one of the hidden subexpressions'.                    *)
RecordFirst(f, e, w) == IF f[e] = 0 THEN [f EXCEPT ![e] = w] ELSE f
Hidden == {x \in Expr : x.size < mid.size}
RecordScopes ==
  \/ UNCHANGED first
  \/ first' = RecordFirst(first, mid, Width)
  \/ \E x \in Hidden, w \in InnerWidths :
       first' = RecordFirst(RecordFirst(first, mid, Width), x, w)

BaselineStep ==
  /\ stage = "baseline"
  /\ \/ Solve /\ RecordScopes
     \/ (Reduce \/ Frontier \/ SolveFails \/ Check) /\ UNCHANGED first
  /\ UNCHANGED <<stage, session, stageVars, historyVars>>

(* A solve panics and the host catches it: nothing takes the session. *)
Panic ==
  /\ Panics
  /\ stage = "baseline" /\ pc = "solve"
  /\ stage' = "failed"
  /\ panicked' = TRUE
  /\ UNCHANGED <<fpVars, traceVars, stageVars, calls>>

(* Mutant of Close: an error returns before the session is taken. *)
CloseOnSuccess ==
  /\ stage = "baseline"
  /\ session' = (pc = "failed")
  /\ \/ pc = "done" /\ base' = result /\ stage' = "p7e"
     \/ pc = "failed" /\ stage' = "failed" /\ UNCHANGED base
  /\ UNCHANGED <<fpVars, first, afterP7e, afterP9l, out, historyVars>>

(* The session is taken, whatever the simplifier returned. *)
Close ==
  /\ stage = "baseline"
  /\ session' = FALSE
  /\ \/ pc = "done" /\ base' = result /\ stage' = "p7e"
     \/ pc = "failed" /\ stage' = "failed" /\ UNCHANGED base
  /\ UNCHANGED <<fpVars, first, afterP7e, afterP9l, out, historyVars>>


(* production_p7e: the base if no scope of it has atoms or the closure fails, *)
(* else an expression equal to it at the width of the scope.                 *)
ClosureOf(e) ==
  {e} \cup IF first[e] = 0 THEN {}
           ELSE {f \in Expr : Value(f, first[e]) = Value(e, first[e])}

P7e ==
  /\ stage = "p7e"
  /\ afterP7e' \in ClosureOf(base)
  /\ stage' = "p9l"
  /\ UNCHANGED <<fpVars, traceVars, base, afterP9l, out, historyVars>>

(* Mutant of ProjectionOf: the projection is not certified. *)
ProjectionUnproved(e) == {e} \cup {f \in Expr : f.size < e.size}

(* simplify_linear_if_smaller: a smaller expression proved equal, or none. *)
ProjectionOf(e) == {e} \cup {f \in EqualTo(e) : f.size < e.size}

P9l ==
  /\ stage = "p9l"
  /\ afterP9l' \in ProjectionOf(afterP7e)
  /\ stage' = "choose"
  /\ UNCHANGED <<fpVars, traceVars, base, afterP7e, out, historyVars>>

(* The least production_cost: the size, and the text among equals. *)
Choose ==
  /\ stage = "choose"
  /\ LET C == {base, afterP7e, afterP9l} IN
       out' \in {e \in C : \A f \in C : e.size <= f.size}
  /\ stage' = "returned"
  /\ UNCHANGED <<fpVars, traceVars, base, afterP7e, afterP9l, historyVars>>

Next ==
  \/ \E e \in Expr : Begin(e)
  \/ BeginRefused \/ BaselineStep \/ Panic \/ Close \/ P7e \/ P9l \/ Choose

Spec == Init /\ [][Next]_vars

(* A call that has begun goes on: the thread runs it. *)
Working == BaselineStep \/ Panic \/ Close \/ P7e \/ P9l \/ Choose
FairSpec == Spec /\ WF_vars(Working)
-----------------------------------------------------------------------------
(* What a call returns has the value of its argument: at the width asked for,*)
(* through closure, projection and choice, unless the closure works in a      *)
(* scope of a narrower width, and at the width of that scope if it does.      *)
ScopeWidth == IF first[base] = 0 THEN Width ELSE first[base]
PipelineExact ==
  stage = "returned" => Value(out, ScopeWidth) = Value(input, ScopeWidth)

(* A call returns or fails: neither the passes nor the rewrites go on.       *)
CallReturns == stage = "baseline" ~> stage \in {"returned", "failed"}

(* "Every stage is exact": at the width asked for. *)
EveryStageExact ==
  stage = "returned" => Value(out, Width) = Value(input, Width)

(* The session belongs to the call that opened it: while no solve has        *)
(* panicked it is open exactly while the simplifier runs, on errors too.     *)
SessionScoped == ~panicked => session = (stage = "baseline")

(* A call that unwinds leaves its session and the scopes recorded so far to   *)
(* the thread.  No later call closes the one or looks its result up in the    *)
(* others: each fails before it starts, whatever was called before.          *)
PanicIsFinal == panicked => session /\ stage = "failed"
=============================================================================
