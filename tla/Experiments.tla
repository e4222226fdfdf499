------------------------------ MODULE Experiments ------------------------------
(***************************************************************************)
(* What the diagnostic programs do with the library's experiments           *)
(* (core/examples, core/src/p7 to p11b): an expression is given to one of    *)
(* the analyses, or simplified with its trace, and a scope of the trace, or  *)
(* one that was written by hand, is given to the experiments on hidden words *)
(* or to experiment_pipeline (p8.rs).                                       *)
(***************************************************************************)
EXTENDS Compression

CONSTANTS
  HandScopes,  \* scopes that callers put together
  Surfaces     \* expressions to be written smaller

VARIABLES
  experiment,  \* what is being done
  degree,      \* the degree that is fitted
  found,       \* the expression as the analysis has it
  before       \* what it was before its last step

experimentVars ==
  <<simplifyVars, closureVars, trialVars, systemVars, surfaceVars, experiment, degree, found, before>>
labels == <<degree, found, before>>

ExperimentsInit ==
  /\ ClosureInit /\ NoTrial /\ degree = 0 /\ found = NoTree
  /\ SimplifyInit
  /\ \/ experiment = "none" /\ NoSolving /\ NoSurface /\ before = NoTree
     \/ /\ source = CHOOSE e \in Sources : TRUE
        /\ \/ experiment = "system" /\ SystemInit /\ NoSurface /\ before = NoTree
           \/ /\ experiment \in {"p11a", "p11b"} /\ before \in Surfaces
              /\ NoSolving /\ SurfaceInit(before)
-----------------------------------------------------------------------------
(* The analyses that are one call, with what the stages after the baseline   *)
(* make of a difference when they are asked for zero, or without (Simplest). *)
Returned(name) ==
  CASE name = "p9poly" -> UNION {AnalyzePoly(source, full, Width) : full \in BOOLEAN}
    [] name = "p10a"   -> AnalyzeAlternating(source, Width)
    [] name = "p10b"   -> UNION {AnalyzeContextual(source, full, Width) : full \in BOOLEAN}
    [] name = "p10c"   -> AnalyzeComposition(source, Width)
Analyze ==
  /\ experiment = "none" /\ step = "reduce"
  /\ \E name \in {"p9poly", "p10a", "p10b", "p10c"} :
       /\ experiment' = name
       /\ \E e \in Returned(name) : found' = e
  /\ before' = source
  /\ UNCHANGED <<simplifyVars, closureVars, trialVars, systemVars, surfaceVars, degree>>

(* compress_by_proof_key; synthesize_carry_grammar.                          *)
Compressing ==
  /\ experiment = "p11a" /\ SurfaceNext
  /\ UNCHANGED <<simplifyVars, closureVars, trialVars, systemVars, experiment, labels>>
EndCompressing ==
  /\ experiment = "p11a" /\ RoundsOver /\ found = NoTree
  /\ found' = Compressed(before)
  /\ UNCHANGED <<simplifyVars, closureVars, trialVars, systemVars, surfaceVars, experiment, degree, before>>
Synthesize ==
  /\ experiment = "p11b" /\ found = NoTree
  /\ \E e \in {SynthesizeCarry(before, choice, Width)} : found' = e
  /\ UNCHANGED <<simplifyVars, closureVars, trialVars, systemVars, surfaceVars, experiment, degree, before>>

(* analyze_global_polynomial, around the system that it solves.              *)
BeginFit ==
  /\ experiment = "none" /\ step = "reduce"
  /\ degree' \in 1 .. 2 /\ Fittable(source, degree', Width)
  /\ Solving(SystemOf(source, degree', Width))
  /\ experiment' = "p9p"
  /\ UNCHANGED <<simplifyVars, closureVars, trialVars, surfaceVars, found, before>>
EndFit ==
  /\ experiment = "p9p" /\ solving = "done" /\ found = NoTree
  /\ \E full \in BOOLEAN :
       \E e \in {IF solution = <<>> THEN source ELSE Fitted(solution, source, degree, full, Width)} : found' = e
  /\ before' = source
  /\ UNCHANGED <<simplifyVars, closureVars, trialVars, systemVars, surfaceVars, experiment, degree>>
-----------------------------------------------------------------------------
(* simplify_mba_baseline_with_trace; the scopes of the trace.                *)
Trace == /\ experiment = "none" /\ SimplifyNext
         /\ UNCHANGED <<closureVars, trialVars, systemVars, surfaceVars, experiment, labels>>
Open(s, name) ==
  /\ HiddenIn(s) # {} /\ s.pre # NoTree
  /\ scope' = s /\ experiment' = name
  /\ phase' = IF name = "pipeline" THEN "round" ELSE phase
  /\ base' = Expanded(s.pre, s)
  /\ UNCHANGED <<simplifyVars, trialVars, systemVars, surfaceVars, labels>>
  /\ UNCHANGED <<round, targets, deps, newly, closed, p7e, doubtful>>
OpenTraced ==
  /\ experiment = "none" /\ step = "done"
  /\ \E s \in Range(call.trace), name \in {"trials", "pipeline"} : Open(s, name)
OpenHand ==
  /\ experiment = "none" /\ step = "reduce" /\ source = CHOOSE e \in Sources : TRUE
  /\ \E s \in HandScopes, name \in {"trials", "pipeline"} : Open(s, name)

Try == /\ experiment = "trials" /\ TrialNext
       /\ UNCHANGED <<simplifyVars, phase, base, scope, round, targets, deps, newly, closed, p7e>>
       /\ UNCHANGED <<systemVars, surfaceVars, experiment, labels>>
Closing == /\ experiment = "pipeline" /\ ClosureNext
           /\ UNCHANGED <<simplifyVars, trialVars, systemVars, surfaceVars, experiment, labels>>

(* experiment_pipeline: P8 after the closure.  P8a needs the restored form,   *)
(* not only the normal form that the closure ends with.                      *)
Step(from, to, r) ==
  /\ experiment = from /\ experiment' = to
  /\ found' = r.e /\ doubtful' = (doubtful \/ r.s.call.mixed)
  /\ UNCHANGED <<simplifyVars, phase, base, scope, round, targets, deps, newly, closed, p7e>>
  /\ UNCHANGED <<trialVars, systemVars, surfaceVars, degree>>
Untouched(e) == Answer(e, [err |-> "none", call |-> NewCall])
Restored8 == InScope(scope.pre, scope, deps)
AfterP7e == IF p7e = Zero0 THEN Zero0 ELSE Restored8
P8a == /\ phase = "done" /\ before' = AfterP7e
       /\ Step("pipeline", "p8a", IF p7e = Zero0 THEN Untouched(Zero0) ELSE AnalyzeSubmask(Restored8, scope.n))
P8b == before' = found /\ Step("p8a", "p8b", NormalizeMaskedNegations(found, scope.n))
P8c == before' = found /\ Step("p8b", "p8c", SelectLowbitAbove(found, scope.n))

Solve == /\ experiment \in {"system", "p9p"} /\ SystemNext
         /\ UNCHANGED <<simplifyVars, closureVars, trialVars, surfaceVars, experiment, labels>>

ExperimentsNext ==
  \/ Analyze \/ Compressing \/ EndCompressing \/ Synthesize \/ BeginFit \/ EndFit \/ Solve
  \/ Trace \/ OpenTraced \/ OpenHand \/ Try \/ Closing \/ P8a \/ P8b \/ P8c
ExperimentsSpec == ExperimentsInit /\ [][ExperimentsNext]_experimentVars
-----------------------------------------------------------------------------
(* Relations between lowest ones and parts of words justify what P8 rewrites: *)
(* each of its steps keeps the value of what it is given, and leaves it as it *)
(* is or makes it smaller or zero.                                           *)
Within8 == experiment \in {"p8a", "p8b", "p8c"}
LowbitExact ==
  Within8 /\ ~doubtful =>
    /\ SameIn(found, before, scope.n)
    /\ found = before \/ Improves(found, before)

(* "Observations only generate a candidate" (p9_p.rs): whatever an analysis   *)
(* fits, collects, or replaces in a context, it returns the expression it was *)
(* given or a smaller one of the same value.  All that P11a keeps under a key *)
(* has one value: "Congruence makes the reconstructed parent exact" when one  *)
(* of them takes the place of another (p11a.rs).                             *)
AnalysesExact ==
  /\ \A key \in DOMAIN memory.archive : \A e \in Range(memory.archive[key]) :
       SameIn(e, memory.archive[key][1], Width)
  /\ found # NoTree /\ ~Within8 =>
       /\ SameIn(found, before, Width)
       /\ found = before \/ TreeSize(found) < TreeSize(before)
=============================================================================
