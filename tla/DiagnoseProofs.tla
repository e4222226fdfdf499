--------------------------- MODULE DiagnoseProofs ---------------------------
(***************************************************************************)
(* Proofs about the diagnostic loop: it implements the ordinary one, and   *)
(* the edges it keeps lead from the source to wherever the loop has got.   *)
(***************************************************************************)
EXTENDS Diagnose, TLAPS

(* The loop knows of the expressions it has seen that the current one is     *)
(* one of them: the exit for a stable expression need not record it again.   *)
SeenCurrent ==
  /\ pc \in {"reduce", "frontier", "solve", "check", "done", "failed"}
  /\ pc \in {"frontier", "solve", "check"} => current \in seen
  /\ passes \in Nat
  /\ pc = "reduce" => passes = 0

LEMMA SeenCurrentInit == Init => SeenCurrent
  BY DEF Init, FP!FPInit, SeenCurrent

LEMMA SeenCurrentStep == SeenCurrent /\ [Next]_vars => SeenCurrent'
<1> SUFFICES ASSUME SeenCurrent, [Next]_vars PROVE SeenCurrent'
  OBVIOUS
<1>1. CASE Reduce
  BY <1>1 DEF SeenCurrent, Reduce
<1>2. CASE BitwiseFrontier
  BY <1>2 DEF SeenCurrent, BitwiseFrontier
<1>3. CASE OrdinarySolve
  BY <1>3 DEF SeenCurrent, OrdinarySolve
<1>4. CASE SolveFails
  BY <1>4 DEF SeenCurrent, SolveFails
<1>5. CASE Stable \/ Cycle \/ Limit
  BY <1>5 DEF SeenCurrent, Stable, Cycle, Limit, Finish
<1>6. CASE NextPass
  BY <1>6 DEF SeenCurrent, NextPass
<1>7. CASE UNCHANGED vars
  BY <1>7 DEF SeenCurrent, vars
<1> QED BY <1>1, <1>2, <1>3, <1>4, <1>5, <1>6, <1>7 DEF Next

LEMMA SeenCurrentAlways == Spec => []SeenCurrent
  BY SeenCurrentInit, SeenCurrentStep, PTL DEF Spec

(* Each exit of the diagnostic loop is the end of a pass of the ordinary one. *)
LEMMA EndsRefine ==
  ASSUME SeenCurrent, Stable \/ Cycle \/ NextPass \/ Limit
  PROVE  FP!Check
<1>0. pc = "check" /\ current \in seen /\ passes \in Nat /\ MaxPasses \in Nat
  BY DiagnoseAssumption DEF SeenCurrent, Stable, Cycle, NextPass, Limit
<1>1. /\ best' = FP!Smaller(next, best)
      /\ passes' = passes + 1
      /\ UNCHANGED <<expression, frontier, next>>
  BY DEF Stable, Cycle, NextPass, Limit, NewBest, FP!Smaller
<1>2. CASE Stable
  <2>1. seen' = seen \cup {next}
    BY <1>0, <1>2 DEF Stable
  <2> QED BY <1>0, <1>1, <1>2, <2>1 DEF Stable, Finish, FP!Check, FP!Return
<1>3. CASE Cycle
  <2>1. seen' = seen \cup {next}
    BY <1>3 DEF Cycle
  <2> QED BY <1>0, <1>1, <1>3, <2>1 DEF Cycle, Finish, FP!Check, FP!Return
<1>4. CASE NextPass
  <2>1. next # current /\ passes' # MaxPasses
    BY <1>0, <1>4 DEF NextPass
  <2> QED BY <1>0, <1>1, <1>4, <2>1 DEF NextPass, FP!Check, FP!Continue
<1>5. CASE Limit
  <2>1. next # current /\ passes' = MaxPasses
    BY <1>0, <1>5 DEF Limit
  <2> QED BY <1>0, <1>1, <1>5, <2>1 DEF Limit, Finish, FP!Check, FP!Return
<1> QED BY <1>2, <1>3, <1>4, <1>5

LEMMA StepRefines == SeenCurrent /\ [Next]_vars => [FP!FPNext]_(FP!fpVars)
<1> SUFFICES ASSUME SeenCurrent, [Next]_vars PROVE [FP!FPNext]_(FP!fpVars)
  OBVIOUS
<1>1. CASE Reduce
  BY <1>1 DEF Reduce, FP!FPNext, FP!Reduce
<1>2. CASE BitwiseFrontier
  BY <1>2 DEF BitwiseFrontier, FP!FPNext, FP!Frontier
<1>3. CASE OrdinarySolve
  BY <1>3 DEF OrdinarySolve, FP!FPNext, FP!Solve
<1>4. CASE SolveFails
  BY <1>4 DEF SolveFails, FP!FPNext, FP!SolveFails
<1>5. CASE Stable \/ Cycle \/ NextPass \/ Limit
  BY <1>5, EndsRefine DEF FP!FPNext
<1>6. CASE UNCHANGED vars
  BY <1>6 DEF vars, FP!fpVars
<1> QED BY <1>1, <1>2, <1>3, <1>4, <1>5, <1>6 DEF Next

(* "Reproduce ordinary RUMBA": every run of diagnose_baseline_steps is a run *)
(* of the ordinary simplifier.                                               *)
THEOREM DiagnosisIsOrdinary == Spec => ReproducesOrdinary
<1>1. Init => FP!FPInit
  BY DEF Init
<1> QED BY <1>1, SeenCurrentAlways, StepRefines, PTL DEF Spec, ReproducesOrdinary, FP!FPSpec
-----------------------------------------------------------------------------
(* A chain stays one when an edge from its end is appended. *)
LEMMA AppendChains ==
  ASSUME NEW q \in Seq(Edge), NEW x \in Edge, NEW a, IsChain(q, a, x.before)
  PROVE  IsChain(Append(q, x), a, x.after)
<1> DEFINE r == Append(q, x)
<1>1. /\ Len(q) \in Nat /\ Len(r) = Len(q) + 1 /\ r # <<>>
      /\ r[Len(r)] = x
      /\ \A i \in 1 .. Len(q) : r[i] = q[i]
  OBVIOUS
<1>2. r[1].before = a
  <2>1. CASE q = <<>>
    BY <1>1, <2>1 DEF IsChain
  <2>2. CASE q # <<>>
    <3>1. Len(q) >= 1
      BY <2>2
    <3> QED BY <1>1, <2>2, <3>1 DEF IsChain
  <2> QED BY <2>1, <2>2
<1>3. ASSUME NEW i \in 1 .. Len(r) - 1
      PROVE  r[i].after = r[i + 1].before
  <2>1. q # <<>> /\ i \in 1 .. Len(q)
    BY <1>1
  <2>2. CASE i = Len(q)
    BY <1>1, <2>1, <2>2 DEF IsChain
  <2>3. CASE i < Len(q)
    <3>1. i \in 1 .. Len(q) - 1 /\ i + 1 \in 1 .. Len(q)
      BY <1>1, <2>1, <2>3
    <3> QED BY <1>1, <2>1, <3>1 DEF IsChain
  <2> QED BY <1>1, <2>1, <2>2, <2>3
<1> HIDE DEF r
<1>4. IsChain(r, a, x.after)
  BY <1>1, <1>2, <1>3 DEF IsChain
<1> QED BY <1>4 DEF r

(* The edges e keeps are sound and numbered no higher than n. *)
Numbered(q, n) ==
  \A i \in DOMAIN q :
    /\ q[i].before # q[i].after
    /\ FP!Value(q[i].before, Width) = FP!Value(q[i].after, Width)
    /\ i > 1 => q[i - 1].pass <= q[i].pass
    /\ (q[i].pass = 0) = (q[i].stage = "Reduce")
    /\ q[i].pass <= n

LEMMA AppendNumbered ==
  ASSUME NEW q \in Seq(Edge), NEW x \in Edge, NEW m \in Nat, Numbered(q, m),
         m <= x.pass,
         x.before # x.after,
         FP!Value(x.before, Width) = FP!Value(x.after, Width),
         (x.pass = 0) = (x.stage = "Reduce")
  PROVE  Numbered(Append(q, x), x.pass)
<1> DEFINE r == Append(q, x)
<1>1. /\ Len(q) \in Nat /\ DOMAIN r = 1 .. Len(q) + 1 /\ DOMAIN q = 1 .. Len(q)
      /\ r[Len(q) + 1] = x
      /\ \A i \in 1 .. Len(q) : r[i] = q[i] /\ q[i] \in Edge
  OBVIOUS
<1>2. x.pass \in Nat /\ \A i \in 1 .. Len(q) : q[i].pass \in Nat
  BY <1>1, DiagnoseAssumption DEF Edge
<1> HIDE DEF r
<1>3. ASSUME NEW i \in DOMAIN r
      PROVE  /\ r[i].before # r[i].after
             /\ FP!Value(r[i].before, Width) = FP!Value(r[i].after, Width)
             /\ i > 1 => r[i - 1].pass <= r[i].pass
             /\ (r[i].pass = 0) = (r[i].stage = "Reduce")
             /\ r[i].pass <= x.pass
  <2>1. CASE i = Len(q) + 1
    <3>1. i > 1 => i - 1 \in 1 .. Len(q)
      BY <1>1, <2>1
    <3>2. i > 1 => r[i - 1].pass <= m
      BY <1>1, <3>1 DEF Numbered
    <3>3. i > 1 => r[i - 1].pass <= x.pass
      BY <1>1, <1>2, <3>1, <3>2
    <3> QED BY <1>1, <1>2, <2>1, <3>3
  <2>2. CASE i # Len(q) + 1
    <3>1. i \in 1 .. Len(q) /\ (i > 1 => i - 1 \in 1 .. Len(q))
      BY <1>1, <2>2
    <3>2. r[i] = q[i] /\ (i > 1 => r[i - 1] = q[i - 1])
      BY <1>1, <3>1
    <3>3. r[i].pass <= x.pass
      BY <1>1, <1>2, <3>1, <3>2 DEF Numbered
    <3> QED BY <1>1, <3>1, <3>2, <3>3 DEF Numbered
  <2> QED BY <2>1, <2>2
<1> QED BY <1>3 DEF Numbered, r

(* Keeping an edge leaves a sound chain, which ends where the edge leads. *)
LEMMA KeptSound ==
  ASSUME NEW a, NEW e \in Expr, NEW f \in Expr, NEW stage \in Stages,
         NEW m \in Nat, NEW n \in 0 .. MaxPasses, m <= n,
         steps \in Seq(Edge), IsChain(steps, a, e), Numbered(steps, m),
         FP!Value(e, Width) = FP!Value(f, Width),
         (n = 0) = (stage = "Reduce")
  PROVE  /\ Kept(n, stage, e, f) \in Seq(Edge)
         /\ IsChain(Kept(n, stage, e, f), a, f)
         /\ Numbered(Kept(n, stage, e, f), n)
<1>1. CASE f = e
  <2>0. \A i \in DOMAIN steps : steps[i] \in Edge
    OBVIOUS
  <2>1. \A i \in DOMAIN steps : steps[i].pass \in Nat
    BY <2>0, DiagnoseAssumption DEF Edge
  <2>2. n \in Nat
    BY DiagnoseAssumption
  <2>3. Numbered(steps, n)
    BY <2>1, <2>2 DEF Numbered
  <2> QED BY <1>1, <2>3 DEF Kept
<1>2. CASE f # e
  <2> DEFINE x == [pass |-> n, stage |-> stage, before |-> e, after |-> f]
  <2>1. /\ x \in Edge
        /\ x.pass = n /\ x.stage = stage /\ x.before = e /\ x.after = f
    BY DEF Edge
  <2>2. Kept(n, stage, e, f) = Append(steps, x)
    BY <1>2 DEF Kept
  <2> HIDE DEF x
  <2>3. Append(steps, x) \in Seq(Edge)
    BY <2>1
  <2>4. IsChain(Append(steps, x), a, f)
    BY <2>1, AppendChains
  <2>5. Numbered(Append(steps, x), n)
    BY <1>2, <2>1, AppendNumbered
  <2> QED BY <2>2, <2>3, <2>4, <2>5
<1> QED BY <1>1, <1>2

Same(e) == FP!Value(e, Width) = FP!Value(expression, Width)

AllSame ==
  /\ pc # "reduce" => Same(current) /\ Same(best)
  /\ pc \in {"solve", "check"} => Same(frontier)
  /\ pc = "check" => Same(next)

(* Where the expressions of a failed call come from no longer matters; that   *)
(* the frontier is one does, since the chain of edges ends there.             *)
Top == IF pc \in {"solve", "check", "failed"} THEN passes + 1 ELSE passes

DiagInv ==
  /\ TypeOK /\ SeenCurrent /\ AllSame
  /\ Chained /\ Numbered(steps, Top)

LEMMA DiagInit == Init => DiagInv
<1> SUFFICES ASSUME Init PROVE DiagInv
  OBVIOUS
<1>1. TypeOK
  BY DiagnoseAssumption
  DEF Init, FP!FPInit, TypeOK, FP!FPTypeOK, FP!Places, FP!MaybeExpr
<1>2. AllSame /\ Chained /\ Numbered(steps, Top)
  BY DEF Init, FP!FPInit, AllSame, Chained, IsChain, Reached, Numbered
<1> QED BY <1>1, <1>2, SeenCurrentInit DEF DiagInv

LEMMA ReduceInv == DiagInv /\ Reduce => DiagInv'
<1> SUFFICES ASSUME DiagInv, Reduce PROVE DiagInv'
  OBVIOUS
<1>1. /\ expression \in Expr /\ passes = 0 /\ steps \in Seq(Edge)
      /\ IsChain(steps, expression, expression) /\ Numbered(steps, 0)
  BY DEF DiagInv, TypeOK, FP!FPTypeOK, SeenCurrent, Chained, Reached, Top, Reduce
<1>2. current' \in Expr /\ FP!Value(current', Width) = FP!Value(expression, Width)
  BY DEF Reduce, FP!EqualTo
<1>3. /\ steps' \in Seq(Edge)
      /\ IsChain(steps', expression, current') /\ Numbered(steps', 0)
  <2>1. 0 \in 0 .. MaxPasses /\ "Reduce" \in Stages
    BY DiagnoseAssumption DEF Stages
  <2>2. steps' = Kept(0, "Reduce", expression, current')
    BY DEF Reduce
  <2> QED BY <1>1, <1>2, <2>1, <2>2, KeptSound
<1>4. TypeOK'
  BY <1>2, <1>3 DEF DiagInv, TypeOK, FP!FPTypeOK, FP!Places, FP!MaybeExpr, Reduce
<1>5. AllSame'
  BY <1>2 DEF Reduce, AllSame, Same
<1>6. Chained' /\ Numbered(steps, Top)'
  BY <1>1, <1>3 DEF Reduce, Chained, Reached, Top
<1>7. SeenCurrent'
  BY SeenCurrentStep DEF DiagInv, Next
<1> QED BY <1>4, <1>5, <1>6, <1>7 DEF DiagInv

LEMMA BitwiseFrontierInv == DiagInv /\ BitwiseFrontier => DiagInv'
<1> SUFFICES ASSUME DiagInv, BitwiseFrontier PROVE DiagInv'
  OBVIOUS
<1>1. /\ current \in Expr /\ Same(current) /\ steps \in Seq(Edge)
      /\ IsChain(steps, expression, current) /\ Numbered(steps, passes)
      /\ passes \in Nat /\ passes + 1 \in 0 .. MaxPasses
  BY DiagnoseAssumption
  DEF DiagInv, TypeOK, FP!FPTypeOK, AllSame, Chained, Reached, Top, BitwiseFrontier
<1>2. /\ frontier' \in Expr
      /\ FP!Value(frontier', Width) = FP!Value(current, Width)
  BY <1>1 DEF BitwiseFrontier, FP!Rewrites, FP!EqualTo
<1>3. /\ steps' \in Seq(Edge)
      /\ IsChain(steps', expression, frontier') /\ Numbered(steps', passes + 1)
  <2>1. "BitwiseFrontier" \in Stages /\ passes + 1 # 0 /\ passes <= passes + 1
    BY <1>1 DEF Stages
  <2>2. steps' = Kept(passes + 1, "BitwiseFrontier", current, frontier')
    BY DEF BitwiseFrontier
  <2> QED BY <1>1, <1>2, <2>1, <2>2, KeptSound
<1>4. TypeOK'
  BY <1>2, <1>3
  DEF DiagInv, TypeOK, FP!FPTypeOK, FP!Places, FP!MaybeExpr, BitwiseFrontier
<1>5. AllSame'
  BY <1>1, <1>2 DEF DiagInv, BitwiseFrontier, AllSame, Same
<1>6. Chained' /\ Numbered(steps, Top)'
  BY <1>3 DEF BitwiseFrontier, Chained, Reached, Top
<1>7. SeenCurrent'
  BY SeenCurrentStep DEF DiagInv, Next
<1> QED BY <1>4, <1>5, <1>6, <1>7 DEF DiagInv

LEMMA OrdinarySolveInv == DiagInv /\ OrdinarySolve => DiagInv'
<1> SUFFICES ASSUME DiagInv, OrdinarySolve PROVE DiagInv'
  OBVIOUS
<1>1. /\ frontier \in Expr /\ Same(frontier) /\ steps \in Seq(Edge)
      /\ IsChain(steps, expression, frontier) /\ Numbered(steps, passes + 1)
      /\ passes \in Nat /\ passes + 1 \in 0 .. MaxPasses
  <2>1. /\ frontier \in Expr /\ Same(frontier) /\ steps \in Seq(Edge)
        /\ pc = "solve" /\ passes \in Nat /\ passes < MaxPasses
    BY DEF DiagInv, SeenCurrent, TypeOK, FP!FPTypeOK, AllSame, OrdinarySolve
  <2>2. passes + 1 \in 0 .. MaxPasses
    BY <2>1, DiagnoseAssumption
  <2>3. IsChain(steps, expression, frontier) /\ Numbered(steps, passes + 1)
    BY <2>1 DEF DiagInv, Chained, Reached, Top
  <2> QED BY <2>1, <2>2, <2>3
<1>2. /\ next' \in Expr
      /\ FP!Value(next', Width) = FP!Value(frontier, Width)
  BY DEF OrdinarySolve, FP!EqualTo
<1>3. /\ steps' \in Seq(Edge)
      /\ IsChain(steps', expression, next') /\ Numbered(steps', passes + 1)
  <2>1. /\ "OrdinarySolve" \in Stages /\ passes + 1 # 0
        /\ passes + 1 \in Nat /\ passes + 1 <= passes + 1
    BY <1>1 DEF Stages
  <2>2. steps' = Kept(passes + 1, "OrdinarySolve", frontier, next')
    BY DEF OrdinarySolve
  <2> QED BY <1>1, <1>2, <2>1, <2>2, KeptSound
<1>4. TypeOK'
  BY <1>2, <1>3
  DEF DiagInv, TypeOK, FP!FPTypeOK, FP!Places, FP!MaybeExpr, OrdinarySolve
<1>5. AllSame'
  BY <1>1, <1>2 DEF DiagInv, OrdinarySolve, AllSame, Same
<1>6. Chained' /\ Numbered(steps, Top)'
  BY <1>3 DEF OrdinarySolve, Chained, Reached, Top
<1>7. SeenCurrent'
  BY SeenCurrentStep DEF DiagInv, Next
<1> QED BY <1>4, <1>5, <1>6, <1>7 DEF DiagInv

LEMMA SolveFailsInv == DiagInv /\ SolveFails => DiagInv'
<1> SUFFICES ASSUME DiagInv, SolveFails PROVE DiagInv'
  OBVIOUS
<1>1. TypeOK'
  BY DEF DiagInv, TypeOK, FP!FPTypeOK, FP!Places, SolveFails
<1>2. AllSame' /\ Chained' /\ Numbered(steps, Top)'
  BY DEF DiagInv, SolveFails, AllSame, Same, Chained, Reached, Top
<1>3. SeenCurrent'
  BY SeenCurrentStep DEF DiagInv, Next
<1> QED BY <1>1, <1>2, <1>3 DEF DiagInv

(* What the end of a pass finds. *)
LEMMA AtCheck ==
  ASSUME DiagInv, pc = "check"
  PROVE  /\ next \in Expr /\ Same(next) /\ best \in Expr /\ Same(best)
         /\ steps \in Seq(Edge)
         /\ IsChain(steps, expression, next) /\ Numbered(steps, passes + 1)
         /\ passes \in Nat /\ passes + 1 \in 0 .. MaxPasses
<1>1. /\ next \in Expr /\ Same(next) /\ best \in Expr /\ Same(best)
      /\ steps \in Seq(Edge) /\ passes \in Nat /\ passes < MaxPasses
  BY DEF DiagInv, SeenCurrent, TypeOK, FP!FPTypeOK, AllSame
<1>2. passes + 1 \in 0 .. MaxPasses
  BY <1>1, DiagnoseAssumption
<1>3. IsChain(steps, expression, next) /\ Numbered(steps, passes + 1)
  BY DEF DiagInv, Chained, Reached, Top
<1> QED BY <1>1, <1>2, <1>3

(* A pass that goes on, or ends on a stable expression, keeps no edge. *)
LEMMA UnkeptInv == DiagInv /\ (Stable \/ NextPass) => DiagInv'
<1> SUFFICES ASSUME DiagInv, Stable \/ NextPass PROVE DiagInv'
  OBVIOUS
<1>0. pc = "check"
  BY DEF Stable, NextPass
<1>1. best' \in Expr /\ Same(best')
  BY <1>0, AtCheck DEF Stable, NextPass, NewBest, Same
<1>2. passes' = passes + 1 /\ passes' \in 0 .. MaxPasses /\ expression' = expression
  BY <1>0, AtCheck DEF Stable, NextPass
<1>3. TypeOK'
  BY <1>0, <1>1, <1>2, AtCheck, DiagnoseAssumption
  DEF DiagInv, TypeOK, FP!FPTypeOK, FP!Places, FP!MaybeExpr, Stable, NextPass, Finish
<1>4. AllSame'
  BY <1>0, <1>1, <1>2, AtCheck DEF DiagInv, AllSame, Same, Stable, NextPass, Finish
<1>5. Chained' /\ Numbered(steps, Top)'
  BY <1>0, <1>2, AtCheck DEF Chained, Reached, Top, Stable, NextPass, Finish
<1>6. SeenCurrent'
  BY SeenCurrentStep DEF DiagInv, Next
<1> QED BY <1>3, <1>4, <1>5, <1>6 DEF DiagInv

(* The other exits keep the edge to the expression retained. *)
LEMMA RetentionInv == DiagInv /\ (Cycle \/ Limit) => DiagInv'
<1> SUFFICES ASSUME DiagInv, Cycle \/ Limit PROVE DiagInv'
  OBVIOUS
<1>0. pc = "check"
  BY DEF Cycle, Limit
<1>1. best' \in Expr /\ Same(best') /\ expression' = expression
  BY <1>0, AtCheck DEF Cycle, Limit, NewBest, Same
<1>2. passes' = passes + 1 /\ pc' = "done" /\ result' = best'
  BY DEF Cycle, Limit, Finish
<1>3. /\ steps' \in Seq(Edge)
      /\ IsChain(steps', expression, best') /\ Numbered(steps', passes + 1)
  <2>1. /\ "BestRetention" \in Stages /\ passes + 1 # 0
        /\ passes + 1 \in Nat /\ passes + 1 <= passes + 1
    BY <1>0, AtCheck DEF Stages
  <2>2. steps' = Kept(passes + 1, "BestRetention", next, best')
    BY DEF Cycle, Limit
  <2>3. FP!Value(next, Width) = FP!Value(best', Width)
    BY <1>0, <1>1, AtCheck DEF Same
  <2> QED BY <1>0, <1>1, <2>1, <2>2, <2>3, AtCheck, KeptSound
<1>4. TypeOK'
  BY <1>0, <1>1, <1>2, <1>3, AtCheck
  DEF DiagInv, TypeOK, FP!FPTypeOK, FP!Places, FP!MaybeExpr, Cycle, Limit
<1>5. AllSame'
  BY <1>0, <1>1, <1>2 DEF DiagInv, AllSame, Same, Cycle, Limit
<1>6. Chained' /\ Numbered(steps, Top)'
  BY <1>1, <1>2, <1>3 DEF Chained, Reached, Top
<1>7. SeenCurrent'
  BY SeenCurrentStep DEF DiagInv, Next
<1> QED BY <1>4, <1>5, <1>6, <1>7 DEF DiagInv

LEMMA DiagStutter == DiagInv /\ UNCHANGED vars => DiagInv'
<1> SUFFICES ASSUME DiagInv, UNCHANGED vars PROVE DiagInv'
  OBVIOUS
<1>1. TypeOK' /\ SeenCurrent' /\ AllSame'
  BY DEF DiagInv, TypeOK, FP!FPTypeOK, SeenCurrent, AllSame, Same, vars
<1>2. Chained' /\ Numbered(steps, Top)'
  BY DEF DiagInv, Chained, Reached, Top, vars
<1> QED BY <1>1, <1>2 DEF DiagInv

THEOREM DiagInvariant == Spec => []DiagInv
<1>1. DiagInv /\ [Next]_vars => DiagInv'
  BY ReduceInv, BitwiseFrontierInv, OrdinarySolveInv, SolveFailsInv, UnkeptInv,
     RetentionInv, DiagStutter DEF Next
<1> QED BY DiagInit, <1>1, PTL DEF Spec

(* The loop finds the expressions it needs, and its edges are edges. *)
THEOREM DiagnosisTypeCorrect == Spec => []TypeOK
<1>1. DiagInv => TypeOK
  BY DEF DiagInv
<1> QED BY DiagInvariant, <1>1, PTL

(* The edges diagnose_baseline_steps returns lead from the source to the     *)
(* result without a gap.                                                     *)
THEOREM EdgesChain == Spec => []Chained
<1>1. DiagInv => Chained
  BY DEF DiagInv
<1> QED BY DiagInvariant, <1>1, PTL

(* Each edge keeps the value at the width asked for, changes the expression, *)
(* and is numbered with its pass.                                            *)
THEOREM EdgesAreSound == Spec => []EdgesSound
<1>1. DiagInv => EdgesSound
  BY DEF DiagInv, Numbered, EdgesSound
<1> QED BY DiagInvariant, <1>1, PTL
=============================================================================
