--------------------------- MODULE PipelineProofs ---------------------------
(***************************************************************************)
(* Proofs about the ordinary simplifier's loop and the production pipeline *)
(* around it, for every set of expressions, width, pass limit and number   *)
(* of calls.  Nothing is used of Value but that two expressions have the   *)
(* same one or not.                                                        *)
(***************************************************************************)
EXTENDS Pipeline, TLAPS

Same(e) == Value(e, Width) = Value(input, Width)
Running == pc \in {"frontier", "solve", "check"}

(* Every expression the loop holds equals the argument. *)
AllSame ==
  /\ pc # "reduce" => Same(cur) /\ Same(best)
  /\ pc \in {"solve", "check"} => Same(mid)
  /\ pc = "check" => Same(next)
  /\ pc = "done" => Same(result)

(* The expression kept is the least of those seen, and what a pass starts    *)
(* from has been seen.                                                       *)
BestLeast ==
  /\ Running => cur \in seen /\ \A e \in seen : best.size <= e.size
  /\ SmallestKept

FPInv == FPTypeOK /\ AllSame /\ BestLeast

(* What an exact step may give is an expression of the same value. *)
LEMMA EqualToIsExact ==
  ASSUME NEW e, NEW f \in EqualTo(e)
  PROVE  f \in Expr /\ Value(f, Width) = Value(e, Width)
  BY DEF EqualTo

LEMMA SmallerIsLeast ==
  ASSUME NEW e \in Expr, NEW f \in Expr
  PROVE  /\ Smaller(e, f) \in {e, f}
         /\ Smaller(e, f).size <= e.size
         /\ Smaller(e, f).size <= f.size
<1>1. e.size \in Nat /\ f.size \in Nat
  BY FixedPointAssumption
<1> QED BY <1>1 DEF Smaller

(* Initially nothing but the argument is held. *)
LEMMA FPInitInv == FPInit => FPInv
<1> SUFFICES ASSUME FPInit PROVE FPInv
  OBVIOUS
<1>1. FPTypeOK
  BY FixedPointAssumption DEF FPInit, FPTypeOK, Places, MaybeExpr
<1>2. AllSame /\ BestLeast
  BY DEF FPInit, AllSame, BestLeast, Running, SmallestKept
<1> QED BY <1>1, <1>2 DEF FPInv

LEMMA ReduceInv == FPInv /\ Reduce => FPInv'
<1> SUFFICES ASSUME FPInv, Reduce PROVE FPInv'
  OBVIOUS
<1>1. cur' \in Expr /\ Value(cur', Width) = Value(input, Width)
  BY EqualToIsExact DEF Reduce
<1>2. cur'.size \in Nat
  BY <1>1, FixedPointAssumption
<1>3. FPTypeOK'
  BY <1>1 DEF FPInv, FPTypeOK, Reduce, Places, MaybeExpr
<1>4. AllSame'
  BY <1>1 DEF Reduce, AllSame, Same
<1>5. BestLeast'
  BY <1>2 DEF Reduce, BestLeast, Running, SmallestKept
<1> QED BY <1>3, <1>4, <1>5 DEF FPInv

LEMMA FrontierInv == FPInv /\ Frontier => FPInv'
<1> SUFFICES ASSUME FPInv, Frontier PROVE FPInv'
  OBVIOUS
<1>1. cur \in Expr /\ Value(cur, Width) = Value(input, Width)
  BY DEF FPInv, FPTypeOK, AllSame, Same, Frontier
<1>2. mid' \in Expr /\ Value(mid', Width) = Value(input, Width)
  BY <1>1, EqualToIsExact DEF Frontier, Rewrites
<1>3. FPTypeOK'
  BY <1>2 DEF FPInv, FPTypeOK, Frontier, Places, MaybeExpr
<1>4. AllSame'
  BY <1>2 DEF FPInv, Frontier, AllSame, Same
<1>5. BestLeast'
  BY DEF FPInv, Frontier, BestLeast, Running, SmallestKept
<1> QED BY <1>3, <1>4, <1>5 DEF FPInv

LEMMA SolveInv == FPInv /\ Solve => FPInv'
<1> SUFFICES ASSUME FPInv, Solve PROVE FPInv'
  OBVIOUS
<1>1. mid \in Expr /\ Value(mid, Width) = Value(input, Width)
  BY DEF FPInv, FPTypeOK, AllSame, Same, Solve
<1>2. next' \in Expr /\ Value(next', Width) = Value(input, Width)
  BY <1>1, EqualToIsExact DEF Solve
<1>3. FPTypeOK'
  BY <1>2 DEF FPInv, FPTypeOK, Solve, Places, MaybeExpr
<1>4. AllSame'
  BY <1>2 DEF FPInv, Solve, AllSame, Same
<1>5. BestLeast'
  BY DEF FPInv, Solve, BestLeast, Running, SmallestKept
<1> QED BY <1>3, <1>4, <1>5 DEF FPInv

LEMMA SolveFailsInv == FPInv /\ SolveFails => FPInv'
<1> SUFFICES ASSUME FPInv, SolveFails PROVE FPInv'
  OBVIOUS
<1>1. FPTypeOK'
  BY DEF FPInv, FPTypeOK, SolveFails, Places, MaybeExpr
<1>2. AllSame' /\ BestLeast'
  BY DEF FPInv, SolveFails, AllSame, Same, BestLeast, Running, SmallestKept
<1> QED BY <1>1, <1>2 DEF FPInv

LEMMA CheckInv == FPInv /\ Check => FPInv'
<1> SUFFICES ASSUME FPInv, Check PROVE FPInv'
  OBVIOUS
<1>1. /\ pc = "check" /\ pass \in Nat /\ pass < MaxPasses
      /\ next \in Expr /\ best \in Expr /\ cur \in Expr
      /\ Same(next) /\ Same(best) /\ Same(cur)
      /\ cur \in seen /\ \A e \in seen : best.size <= e.size
  BY FixedPointAssumption DEF FPInv, FPTypeOK, AllSame, BestLeast, Running, Check
<1>2. /\ best' \in {next, best} /\ best' \in Expr
      /\ best'.size <= next.size /\ best'.size <= best.size
  BY <1>1, SmallerIsLeast DEF Check
<1>3. \A e \in seen' : best'.size <= e.size
  <2>1. seen' = seen \cup {next}
    BY DEF Check
  <2>2. seen \subseteq Expr
    BY DEF FPInv, FPTypeOK
  <2>3. best'.size \in Nat /\ best.size \in Nat /\ \A e \in seen : e.size \in Nat
    BY <1>1, <1>2, <2>2, FixedPointAssumption
  <2> QED BY <1>1, <1>2, <2>1, <2>3
<1>4. CASE next = cur
  <2>1. pc' = "done" /\ result' = next /\ cur' = cur /\ next' = next
    BY <1>4 DEF Check, Return
  <2>2. FPTypeOK'
    BY <1>1, <1>2, <2>1, FixedPointAssumption DEF FPInv, FPTypeOK, Check, Places, MaybeExpr
  <2>3. AllSame' /\ BestLeast'
    BY <1>1, <1>2, <1>4, <2>1 DEF Check, AllSame, Same, BestLeast, Running, SmallestKept
  <2> QED BY <2>2, <2>3 DEF FPInv
<1>5. CASE next # cur /\ (next \in seen \/ pass' = MaxPasses)
  <2>1. pc' = "done" /\ result' = best' /\ cur' = cur /\ next' = next
    BY <1>5 DEF Check, Return
  <2>2. FPTypeOK'
    BY <1>1, <1>2, <2>1, FixedPointAssumption DEF FPInv, FPTypeOK, Check, Places, MaybeExpr
  <2>3. AllSame' /\ BestLeast'
    BY <1>1, <1>2, <1>3, <2>1 DEF Check, AllSame, Same, BestLeast, Running, SmallestKept
  <2> QED BY <2>2, <2>3 DEF FPInv
<1>6. CASE next # cur /\ ~(next \in seen \/ pass' = MaxPasses)
  <2>1. pc' = "frontier" /\ cur' = next /\ result' = result
    BY <1>6 DEF Check, Continue
  <2>2. pass' = pass + 1 /\ pass' < MaxPasses
    BY <1>1, <1>6, FixedPointAssumption DEF Check
  <2>3. FPTypeOK'
    BY <1>1, <1>2, <2>1, <2>2, FixedPointAssumption DEF FPInv, FPTypeOK, Check, Places, MaybeExpr
  <2>4. AllSame' /\ BestLeast'
    BY <1>1, <1>2, <1>3, <2>1 DEF Check, AllSame, Same, BestLeast, Running, SmallestKept
  <2> QED BY <2>3, <2>4 DEF FPInv
<1> QED BY <1>4, <1>5, <1>6

LEMMA FPStutterInv == FPInv /\ UNCHANGED fpVars => FPInv'
  BY DEF FPInv, FPTypeOK, AllSame, Same, BestLeast, Running, SmallestKept, fpVars

LEMMA FPStepInv == FPInv /\ [FPNext]_fpVars => FPInv'
  BY ReduceInv, FrontierInv, SolveInv, SolveFailsInv, CheckInv, FPStutterInv
  DEF FPNext

THEOREM FPInvariant == FPSpec => []FPInv
  BY FPInitInv, FPStepInv, PTL DEF FPSpec

(* Each place of the loop finds the expressions it needs, and the pass count *)
(* stays in its bound (simplify_to_fixed_point).                             *)
THEOREM FPTypeCorrect == FPSpec => []FPTypeOK
<1>1. FPInv => FPTypeOK
  BY DEF FPInv
<1> QED BY FPInvariant, <1>1, PTL

(* The result of the ordinary simplifier has the value of its argument,      *)
(* whichever exit of the loop gave it.                                       *)
THEOREM FPExactAlways == FPSpec => []FPExact
<1>1. FPInv => FPExact
  BY DEF FPInv, AllSame, Same, FPExact
<1> QED BY FPInvariant, <1>1, PTL

(* On a cycle and at the pass limit the smallest expression seen is returned. *)
THEOREM SmallestKeptAlways == FPSpec => []SmallestKept
<1>1. FPInv => SmallestKept
  BY DEF FPInv, BestLeast
<1> QED BY FPInvariant, <1>1, PTL
-----------------------------------------------------------------------------
(* Whose the session is. *)
SessionInv == SessionScoped /\ PanicIsFinal

LEMMA SessionInit == Init => SessionInv
  BY DEF Init, SessionInv, SessionScoped, PanicIsFinal

LEMMA SessionStep == SessionInv /\ [Next]_vars => SessionInv'
<1> SUFFICES ASSUME SessionInv, [Next]_vars PROVE SessionInv'
  OBVIOUS
<1>0. /\ ~panicked => session = (stage = "baseline")
      /\ panicked => session /\ stage = "failed"
  BY DEF SessionInv, SessionScoped, PanicIsFinal
<1> SUFFICES /\ ~panicked' => session' = (stage' = "baseline")
             /\ panicked' => session' /\ stage' = "failed"
  BY DEF SessionInv, SessionScoped, PanicIsFinal
<1>1. ASSUME NEW e \in Expr, Begin(e)
      PROVE  /\ ~panicked' => session' = (stage' = "baseline")
             /\ panicked' => session' /\ stage' = "failed"
  BY <1>0, <1>1 DEF Begin
<1>2. CASE BeginRefused
  BY <1>0, <1>2 DEF BeginRefused, AtRest, traceVars, historyVars
<1>3. CASE BaselineStep
  BY <1>0, <1>3 DEF BaselineStep, historyVars
<1>4. CASE Panic
  BY <1>0, <1>4 DEF Panic, traceVars
<1>5. CASE Close
  BY <1>0, <1>5 DEF Close, historyVars
<1>6. CASE P7e
  BY <1>0, <1>6 DEF P7e, traceVars, historyVars
<1>7. CASE P9l
  BY <1>0, <1>7 DEF P9l, traceVars, historyVars
<1>8. CASE Choose
  BY <1>0, <1>8 DEF Choose, traceVars, historyVars
<1>9. CASE UNCHANGED vars
  BY <1>0, <1>9 DEF vars, traceVars, historyVars
<1> QED BY <1>1, <1>2, <1>3, <1>4, <1>5, <1>6, <1>7, <1>8, <1>9 DEF Next

LEMMA SessionAlways == Spec => []SessionInv
  BY SessionInit, SessionStep, PTL DEF Spec

(* The thread's trace session is open exactly while the simplifier runs, as  *)
(* long as no solve has panicked: an error closes it too.                    *)
THEOREM SessionIsScoped == Spec => []SessionScoped
<1>1. SessionInv => SessionScoped
  BY DEF SessionInv
<1> QED BY SessionAlways, <1>1, PTL

(* After a panic the thread gets no result from the pipeline any more. *)
THEOREM PanicEndsTheThread == Spec => []PanicIsFinal
<1>1. SessionInv => PanicIsFinal
  BY DEF SessionInv
<1> QED BY SessionAlways, <1>1, PTL
-----------------------------------------------------------------------------
(* The loop keeps its invariant inside the pipeline, call after call. *)
PipeInv == FPInv /\ TypeOK

LEMMA BeginInv ==
  ASSUME PipeInv, NEW e \in Expr, Begin(e)
  PROVE  PipeInv'
<1>1. /\ pc' = "reduce" /\ pass' = 0 /\ seen' = {}
      /\ input' \in Expr /\ cur' \in Expr /\ best' \in Expr
      /\ mid' = NoExpr /\ next' = NoExpr /\ result' = NoExpr
  BY DEF Begin
<1>2. FPTypeOK'
  BY <1>1, FixedPointAssumption DEF FPTypeOK, Places, MaybeExpr
<1>3. AllSame' /\ BestLeast'
  BY <1>1 DEF AllSame, BestLeast, Running, SmallestKept
<1>4. calls' \in 0 .. MaxCalls
  BY PipelineAssumption DEF PipeInv, TypeOK, Begin
<1>5. first' \in [Expr -> {0} \cup InnerWidths \cup {Width}]
  BY DEF Begin, Untraced
<1>6. TypeOK'
  BY <1>2, <1>4, <1>5 DEF PipeInv, TypeOK, Begin, MaybeExpr
<1> QED BY <1>2, <1>3, <1>6 DEF PipeInv, FPInv

LEMMA BaselineInv ==
  ASSUME PipeInv, BaselineStep
  PROVE  PipeInv'
<1>1. FPNext
  BY DEF BaselineStep, FPNext
<1>2. FPInv'
  BY <1>1, FPStepInv DEF PipeInv
<1>3. first' \in [Expr -> {0} \cup InnerWidths \cup {Width}]
  <2> DEFINE F == [Expr -> {0} \cup InnerWidths \cup {Width}]
  <2>1. \A f \in F, x \in Expr, w \in InnerWidths \cup {Width} : RecordFirst(f, x, w) \in F
    BY DEF RecordFirst
  <2>2. first \in F
    BY DEF PipeInv, TypeOK
  <2>3. CASE UNCHANGED first
    BY <2>2, <2>3
  <2>4. CASE Solve /\ RecordScopes
    <3>1. mid \in Expr
      BY <2>4 DEF PipeInv, FPInv, FPTypeOK, Solve
    <3>2. RecordFirst(first, mid, Width) \in F
      BY <2>1, <2>2, <3>1
    <3>3. \A x \in Hidden, w \in InnerWidths :
            RecordFirst(RecordFirst(first, mid, Width), x, w) \in F
      BY <2>1, <3>2 DEF Hidden
    <3>4. first' \in F
      <4> HIDE DEF F
      <4> QED BY <2>2, <2>4, <3>2, <3>3 DEF RecordScopes
    <3> QED BY <3>4
  <2> QED BY <2>3, <2>4 DEF BaselineStep
<1>4. TypeOK'
  BY <1>2, <1>3 DEF PipeInv, FPInv, TypeOK, BaselineStep, stageVars, historyVars
<1> QED BY <1>2, <1>4 DEF PipeInv

(* The stages after the simplifier leave the loop alone. *)
LEMMA StagesInv ==
  ASSUME PipeInv, BeginRefused \/ Panic \/ Close \/ P7e \/ P9l \/ Choose
  PROVE  PipeInv'
<1>1. UNCHANGED fpVars
  BY DEF BeginRefused, Panic, Close, P7e, P9l, Choose
<1>2. FPInv'
  BY <1>1, FPStutterInv DEF PipeInv
<1>3. FPTypeOK'
  BY <1>2 DEF FPInv
<1>4. CASE BeginRefused
  <2>1. calls' \in 0 .. MaxCalls
    BY <1>4, PipelineAssumption DEF PipeInv, TypeOK, BeginRefused
  <2>2. TypeOK'
    BY <1>3, <1>4, <2>1 DEF PipeInv, TypeOK, BeginRefused, traceVars, stageVars
  <2> QED BY <1>2, <2>2 DEF PipeInv
<1>5. CASE Panic
  <2>1. TypeOK'
    BY <1>3, <1>5 DEF PipeInv, TypeOK, Panic, traceVars, stageVars
  <2> QED BY <1>2, <2>1 DEF PipeInv
<1>6. CASE Close
  <2>1. pc = "done" => result \in Expr
    BY DEF PipeInv, TypeOK, FPTypeOK
  <2>2. TypeOK'
    BY <1>3, <1>6, <2>1 DEF PipeInv, TypeOK, Close, historyVars, MaybeExpr
  <2> QED BY <1>2, <2>2 DEF PipeInv
<1>7. CASE P7e
  <2>1. base \in Expr /\ afterP7e' \in Expr
    BY <1>7 DEF PipeInv, TypeOK, P7e, ClosureOf
  <2>2. TypeOK'
    BY <1>3, <1>7, <2>1 DEF PipeInv, TypeOK, P7e, traceVars, historyVars, MaybeExpr
  <2> QED BY <1>2, <2>2 DEF PipeInv
<1>8. CASE P9l
  <2>1. afterP7e \in Expr /\ afterP9l' \in Expr
    BY <1>8, EqualToIsExact DEF PipeInv, TypeOK, P9l, ProjectionOf
  <2>2. TypeOK'
    BY <1>3, <1>8, <2>1 DEF PipeInv, TypeOK, P9l, traceVars, historyVars, MaybeExpr
  <2> QED BY <1>2, <2>2 DEF PipeInv
<1>9. CASE Choose
  <2>1. out' \in Expr
    BY <1>9 DEF PipeInv, TypeOK, Choose
  <2>2. TypeOK'
    BY <1>3, <1>9, <2>1 DEF PipeInv, TypeOK, Choose, traceVars, historyVars, MaybeExpr
  <2> QED BY <1>2, <2>2 DEF PipeInv
<1> QED BY <1>4, <1>5, <1>6, <1>7, <1>8, <1>9

LEMMA PipeInit == Init => PipeInv
<1> SUFFICES ASSUME Init PROVE PipeInv
  OBVIOUS
<1>1. FPInv
  BY FPInitInv DEF Init
<1>2. TypeOK
  <2>1. first \in [Expr -> {0} \cup InnerWidths \cup {Width}]
    BY DEF Init, Untraced
  <2>2. calls \in 0 .. MaxCalls
    BY PipelineAssumption DEF Init
  <2>3. FPTypeOK
    BY <1>1 DEF FPInv
  <2> QED BY <2>1, <2>2, <2>3 DEF Init, TypeOK, MaybeExpr
<1> QED BY <1>1, <1>2 DEF PipeInv

LEMMA PipeStutter == PipeInv /\ UNCHANGED vars => PipeInv'
<1> SUFFICES ASSUME PipeInv, UNCHANGED vars PROVE PipeInv'
  OBVIOUS
<1>1. FPInv'
  BY FPStutterInv DEF PipeInv, vars
<1>2. TypeOK'
  BY <1>1 DEF FPInv, PipeInv, TypeOK, vars, traceVars, stageVars, historyVars
<1> QED BY <1>1, <1>2 DEF PipeInv

LEMMA PipeStep == PipeInv /\ [Next]_vars => PipeInv'
  BY BeginInv, BaselineInv, StagesInv, PipeStutter DEF Next

LEMMA PipeAlways == Spec => []PipeInv
  BY PipeInit, PipeStep, PTL DEF Spec

(* Each stage finds the results of the stages before it. *)
THEOREM PipelineTypeCorrect == Spec => []TypeOK
<1>1. PipeInv => TypeOK
  BY DEF PipeInv
<1> QED BY PipeAlways, <1>1, PTL
-----------------------------------------------------------------------------
(* Expressions equal at the width asked for are equal at a narrower one. *)
LEMMA NarrowerEqual ==
  ASSUME NEW e \in Expr, NEW f \in Expr, NEW w \in 0 .. Width,
         Value(e, Width) = Value(f, Width)
  PROVE  Value(e, w) = Value(f, w)
<1>1. e.val \subseteq Nat /\ f.val \subseteq Nat /\ Width \in Nat
  BY FixedPointAssumption
<1>2. Value(e, w) = {b \in Value(e, Width) : b < w}
  BY <1>1 DEF Value
<1>3. Value(f, w) = {b \in Value(f, Width) : b < w}
  BY <1>1 DEF Value
<1> QED BY <1>2, <1>3

(* The simplifier's result equals the argument at the width asked for, those *)
(* of the later stages at the width of the scope the closure works in.       *)
SameInScope(e) == Value(e, ScopeWidth) = Value(input, ScopeWidth)

StagesSame ==
  /\ stage \in {"p7e", "p9l", "choose", "returned"} => Same(base)
  /\ stage \in {"p9l", "choose", "returned"} => SameInScope(afterP7e)
  /\ stage \in {"choose", "returned"} => SameInScope(afterP9l)
  /\ stage = "returned" => SameInScope(out)

LEMMA ScopeWidthInRange ==
  ASSUME PipeInv, base \in Expr
  PROVE  ScopeWidth \in 0 .. Width
<1>1. first[base] \in {0} \cup InnerWidths \cup {Width}
  BY DEF PipeInv, TypeOK
<1>2. Width \in Nat /\ InnerWidths \subseteq 1 .. Width
  BY FixedPointAssumption, PipelineAssumption
<1>3. \A w \in InnerWidths : w \in 0 .. Width
  BY <1>2
<1>4. 0 \in 0 .. Width /\ Width \in 0 .. Width
  BY <1>2
<1>5. first[base] \in 0 .. Width
  BY <1>1, <1>3, <1>4
<1> QED BY <1>4, <1>5 DEF ScopeWidth

(* What equals the argument at the width asked for equals it in the scope. *)
LEMMA SameIsSameInScope ==
  ASSUME PipeInv, base \in Expr, NEW e \in Expr, Same(e)
  PROVE  SameInScope(e)
<1>1. input \in Expr
  BY DEF PipeInv, FPInv, FPTypeOK
<1> QED BY <1>1, ScopeWidthInRange, NarrowerEqual DEF Same, SameInScope

LEMMA StagesSameStep ==
  ASSUME PipeInv, StagesSame, [Next]_vars
  PROVE  StagesSame'
<1>1. ASSUME NEW e \in Expr, Begin(e) PROVE StagesSame'
  BY <1>1 DEF Begin, StagesSame
<1>2. CASE BeginRefused \/ Panic
  BY <1>2 DEF BeginRefused, Panic, StagesSame
<1>3. CASE BaselineStep
  BY <1>3 DEF BaselineStep, StagesSame
<1>4. CASE Close
  <2>1. pc = "done" => Same(result)
    BY DEF PipeInv, FPInv, AllSame
  <2>2. input' = input /\ result' = result
    BY <1>4 DEF Close, fpVars
  <2> QED BY <1>4, <2>1, <2>2 DEF Close, StagesSame, Same
<1>5. CASE P7e
  <2>1. base \in Expr /\ Same(base) /\ SameInScope(base)
    BY <1>5, SameIsSameInScope DEF P7e, PipeInv, TypeOK, StagesSame
  <2>2. SameInScope(afterP7e')
    BY <1>5, <2>1 DEF P7e, ClosureOf, SameInScope, ScopeWidth
  <2>3. input' = input /\ base' = base /\ first' = first /\ stage' = "p9l"
    BY <1>5 DEF P7e, fpVars, traceVars
  <2> QED BY <2>1, <2>2, <2>3 DEF StagesSame, Same, SameInScope, ScopeWidth
<1>6. CASE P9l
  <2>1. /\ base \in Expr /\ afterP7e \in Expr
        /\ Same(base) /\ SameInScope(afterP7e)
    BY <1>6 DEF P9l, PipeInv, TypeOK, StagesSame
  <2>2. SameInScope(afterP9l')
    <3>1. CASE afterP9l' = afterP7e
      BY <2>1, <3>1
    <3>2. CASE afterP9l' # afterP7e
      <4>1. /\ afterP9l' \in Expr
            /\ Value(afterP9l', Width) = Value(afterP7e, Width)
        BY <1>6, <3>2 DEF P9l, ProjectionOf, EqualTo
      <4>2. Value(afterP9l', ScopeWidth) = Value(afterP7e, ScopeWidth)
        BY <2>1, <4>1, ScopeWidthInRange, NarrowerEqual
      <4> QED BY <2>1, <4>2 DEF SameInScope
    <3> QED BY <3>1, <3>2
  <2>3. /\ input' = input /\ base' = base /\ first' = first
        /\ afterP7e' = afterP7e /\ stage' = "choose"
    BY <1>6 DEF P9l, fpVars, traceVars
  <2> QED BY <2>1, <2>2, <2>3 DEF StagesSame, Same, SameInScope, ScopeWidth
<1>7. CASE Choose
  <2>1. /\ base \in Expr /\ Same(base)
        /\ SameInScope(afterP7e) /\ SameInScope(afterP9l)
    BY <1>7 DEF Choose, PipeInv, TypeOK, StagesSame
  <2>2. SameInScope(base)
    BY <2>1, SameIsSameInScope
  <2>3. out' \in {base, afterP7e, afterP9l}
    BY <1>7 DEF Choose
  <2>4. SameInScope(out')
    BY <2>1, <2>2, <2>3
  <2>5. /\ input' = input /\ base' = base /\ first' = first
        /\ afterP7e' = afterP7e /\ afterP9l' = afterP9l /\ stage' = "returned"
    BY <1>7 DEF Choose, fpVars, traceVars
  <2> QED BY <2>1, <2>4, <2>5 DEF StagesSame, Same, SameInScope, ScopeWidth
<1>8. CASE UNCHANGED vars
  BY <1>8 DEF vars, fpVars, traceVars, stageVars, StagesSame, Same, SameInScope, ScopeWidth
<1> QED BY <1>1, <1>2, <1>3, <1>4, <1>5, <1>6, <1>7, <1>8 DEF Next

LEMMA StagesAlways == Spec => [](PipeInv /\ StagesSame)
<1>1. Init => StagesSame
  BY DEF Init, StagesSame
<1>2. PipeInv /\ StagesSame /\ [Next]_vars => StagesSame'
  BY StagesSameStep
<1> QED BY <1>1, <1>2, PipeAlways, PTL DEF Spec

(* What simplify_mba_with_cache returns equals its argument at the width of  *)
(* the scope the closure worked in, the width asked for if it worked in none. *)
THEOREM ExactInScope == Spec => []PipelineExact
<1>1. StagesSame => PipelineExact
  BY DEF StagesSame, SameInScope, PipelineExact
<1> QED BY <1>1, StagesAlways, PTL

(* "Every stage is exact", under the condition that nothing is solved at a   *)
(* narrower width: the closure then works at the width asked for, and what   *)
(* simplify_mba_with_cache returns equals its argument there.                *)
THEOREM ExactWithoutNarrowScopes ==
  ASSUME InnerWidths \subseteq {Width}
  PROVE  Spec => []EveryStageExact
<1>1. PipeInv /\ StagesSame => EveryStageExact
  <2> SUFFICES ASSUME PipeInv, StagesSame, stage = "returned"
               PROVE  Value(out, Width) = Value(input, Width)
    BY DEF EveryStageExact
  <2>1. base \in Expr /\ first[base] \in {0, Width}
    BY DEF PipeInv, TypeOK
  <2>2. ScopeWidth = Width
    BY <2>1 DEF ScopeWidth
  <2> QED BY <2>2 DEF StagesSame, SameInScope
<1> QED BY <1>1, StagesAlways, PTL
=============================================================================
