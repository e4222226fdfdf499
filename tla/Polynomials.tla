----------------------------- MODULE Polynomials -----------------------------
(***************************************************************************)
(* The experiments around products: factors replaced by certified linear    *)
(* forms and products collected (p9_poly.rs), one polynomial fitted to the   *)
(* values of the whole (p9_p.rs), polynomial and bitwise normal forms in     *)
(* turn (p10a.rs), factors replaced only where their product allows it       *)
(* (p10b.rs), and bitwise functions of two linear parts (p10c.rs).          *)
(***************************************************************************)
EXTENDS HiddenAtoms, ModularSystem

CONSTANT Bounds  \* P9Limits, P9PLimits, P9PolyLimits, P10bLimits, P10cLimits

(* simplify_mba: the baseline's result, or zero where full says that the      *)
(* later stages see it; NoTree if it fails.                                  *)
SimplifiedBy(r, e, full, w) == IF Fails(r) THEN NoTree ELSE IF full /\ Vanishes(e, w) THEN Zero0 ELSE r.e
Simplest(e, full, w) == SimplifiedBy(Baseline(e, w), e, full, w)
Becomes0(e, full, w) == Simplest(e, full, w) = Zero0
OrSame(f, e) == IF f = NoTree THEN e ELSE f

(* expression_cost, where texts are not known: any of the smallest. *)
Smallest(S) == {e \in S : \A f \in S : TreeSize(e) <= TreeSize(f)}
IfSmaller(S, e) ==
  LET found == {f \in S \ {NoTree} : TreeSize(f) < TreeSize(e)} IN IF found = {} THEN {e} ELSE Smallest(found)
-----------------------------------------------------------------------------
(* certify_equivalent and analyze_linear (p9.rs) by what CarryStates shows of *)
(* the certifier: there, that it is right; here, that its states suffice.    *)
InFragment(e) == ~\E d \in Subtrees(e) : d.op = "mul"
Agree(d, e, w) == Vanishes(Minus(d, e), w)
VerdictOn(d, e, w) ==
  CASE Cardinality(TreeVars(d) \cup TreeVars(e)) > Bounds.vars -> "unknown"
    [] ~InFragment(d) \/ ~InFragment(e) -> "unsupported"
    [] Cardinality(Subtrees(d) \cup Subtrees(e)) > Bounds.nodes -> "unknown"
    [] OTHER -> IF Agree(d, e, w) THEN "proved" ELSE "differ"
CertifyEquivalent(d, e, w) == VerdictOn(Normalized(d, w), Normalized(e, w), w)

LinearProjection(e, w) ==
  LET vs == Ascending(TreeVars(e))
  IN Projected(Subst(e, [v \in Range(vs) |-> V(SelectInSeq(vs, LAMBDA u : u = v) - 1)]),
               [i \in DOMAIN vs |-> V(vs[i])], w)
AnalyzedAs(p, e, w) == [projection |-> p, verdict |-> CertifyEquivalent(e, p, w)]
AnalyzeNormal(e, w) ==
  CASE ~InFragment(e) -> [projection |-> NoTree, verdict |-> "unsupported"]
    [] Cardinality(TreeVars(e)) > Bounds.vars -> [projection |-> NoTree, verdict |-> "unknown"]
    [] OTHER -> AnalyzedAs(LinearProjection(e, w), e, w)
AnalyzeLinear(e, w) == AnalyzeNormal(Normalized(e, w), w)
-----------------------------------------------------------------------------
(* P9-Poly.  project_factor, rewrite_factors: s counts what is looked at; the *)
(* factors that hold products themselves are entered.                        *)
Counters(muls) == [muls |-> muls, factors |-> 0, tries |-> 0, rewrites |-> 0, over |-> FALSE, err |-> "none"]
Exceeded(e, s) == Answer(e, [s EXCEPT !.over = TRUE])
Counted(e, s) == Answer(e, [s EXCEPT !.factors = @ + 1])
Replacing1(a, f) == IF a.verdict = "proved" THEN a.projection ELSE f
ProjectFactor(f, s, w) ==
  IF s.factors = Bounds.factors THEN Exceeded(f, s) ELSE Counted(Replacing1(AnalyzeLinear(f, w), f), s)
RECURSIVE RewriteFactors(_, _, _)
RewriteFactors(e, s, w) ==
  IF e.op # "mul" THEN Over(e, s, LAMBDA c, q : RewriteFactors(c, q, w))
  ELSE IF s.muls = 0 THEN Exceeded(e, s)
  ELSE Over(e, [s EXCEPT !.muls = @ - 1],
            LAMBDA c, q : IF InFragment(c) THEN ProjectFactor(c, q, w) ELSE RewriteFactors(c, q, w))

(* SparsePolynomial: coefficients by monomial, a list of factors in order. *)
Poly(terms) == [over |-> FALSE, terms |-> terms]
NoTerms == Poly([m \in {} |-> 0])
TooMuch(p) == [p EXCEPT !.over = TRUE]
WithTerm(p, m, c) ==
  LET others == [n \in DOMAIN p.terms \ {m} |-> p.terms[n]]
      terms == IF c = 0 THEN others ELSE (m :> c) @@ others
  IN [over |-> Cardinality(DOMAIN terms) > Bounds.monomials, terms |-> terms]
CoefficientIn(p, m) == IF m \in DOMAIN p.terms THEN p.terms[m] ELSE 0
AddTerm(p, m, c, w) ==
  IF p.over THEN p
  ELSE IF Len(m) > Bounds.degree THEN TooMuch(p)
  ELSE IF Low(c, w) = 0 THEN p
  ELSE WithTerm(p, m, Low(CoefficientIn(p, m) + c, w))

MonomialsOf(p) == SetToSortSeq(DOMAIN p.terms, LAMBDA m, n : Below(T("mul", m), T("mul", n)))
PolyAdd(p, q, w) ==
  IF p.over \/ q.over THEN TooMuch(p)
  ELSE FoldLeft(LAMBDA r, m : AddTerm(r, m, q.terms[m], w), p, MonomialsOf(q))
PolyScale(p, k, w) ==
  [p EXCEPT !.terms = [m \in {n \in DOMAIN @ : Low(k * @[n], w) # 0} |-> Low(k * @[m], w)]]
PolyMultiply(p, q, w) ==
  IF p.over \/ q.over THEN TooMuch(p)
  ELSE FoldLeft(LAMBDA r, m : FoldLeft(LAMBDA t, n : AddTerm(t, Sorted(m \o n), p.terms[m] * q.terms[n], w),
                                       r, MonomialsOf(q)),
                NoTerms, MonomialsOf(p))
RECURSIVE FromExpression(_, _)
FromExpression(e, w) ==
  CASE e.op = "const" -> IF Low(e.k, w) = 0 THEN NoTerms ELSE Poly(<<>> :> Low(e.k, w))
    [] e.op = "scale" -> PolyScale(FromExpression(e.args[1], w), e.k, w)
    [] e.op = "add"   -> FoldLeft(LAMBDA p, c : PolyAdd(p, FromExpression(c, w), w), NoTerms, e.args)
    [] e.op = "mul"   -> FoldLeft(LAMBDA p, c : PolyMultiply(p, FromExpression(c, w), w), Poly(<<>> :> 1), e.args)
    [] OTHER -> Poly(<<e>> :> 1)
IntoExpression(p, w) ==
  LET AsTerm(m) == IF m = <<>> THEN C(p.terms[m]) ELSE Scaled(p.terms[m], OrOnly("mul", m, Zero0))
      ms == MonomialsOf(p)
  IN Reduced(OrOnly("add", [i \in DOMAIN ms |-> AsTerm(ms[i])] \o <<>>, Zero0), w)
NotLarge(e) == IF TreeSize(e) > Bounds.size THEN NoTree ELSE e
CollectedFrom(p, w) == IF p.over THEN NoTree ELSE NotLarge(IntoExpression(p, w))

(* polynomial_normal_form: the arithmetic between two bitwise layers at once. *)
Formed(d, inner, w) ==
  CASE Contains(d.args, NoTree) -> NoTree
    [] d.op \in Bitwise -> Reduced(d, w)
    [] OTHER -> IF inner THEN d ELSE CollectedFrom(FromExpression(d, w), w)
RECURSIVE Layered(_, _, _)
Layered(e, inner, w) ==
  IF e.op \in {"var", "const"} THEN e
  ELSE Formed(Tree(e.op, e.k, [j \in DOMAIN e.args |-> Layered(e.args[j], e.op \in Arithmetic, w)]), inner, w)
PolynomialNormalForm(e, w) == Layered(e, FALSE, w)

(* analyze_poly *)
PctOf(local, e, full, w) ==
  IF local = NoTree \/ TreeSize(local) < TreeSize(e) THEN NoTree ELSE Simplest(local, full, w)
LocalOf(r, w) == IF r.s.over THEN NoTree ELSE CollectedFrom(FromExpression(r.e, w), w)
PolyResults(local, e, full, w) == IfSmaller({local, PctOf(local, e, full, w)}, e)
AnalyzePoly(e, full, w) ==
  PolyResults(LocalOf(RewriteFactors(Normalized(e, w), Counters(Bounds.muls), w), w), e, full, w)
-----------------------------------------------------------------------------
(* P9-P.  The monomials: products of conjunctions of variables.              *)
Conjunctions(vs, w) ==
  [j \in 1 .. 2 ^ Len(vs) - 1 |->
     Reduced(T("and", SelectSeq([i \in DOMAIN vs |-> V(vs[i])],
                                LAMBDA v : (j \div 2 ^ (SelectInSeq(vs, LAMBDA u : u = v.k) - 1)) % 2 = 1)), w)]
Rising(n, k) == SetToSortSeq({q \in [1 .. k -> 1 .. n] : \A i \in 1 .. k - 1 : q[i] <= q[i + 1]}, Lower)
Monomial(basis, q, w) == IF Len(q) = 1 THEN basis[q[1]] ELSE Reduced(T("mul", [i \in DOMAIN q |-> basis[q[i]]]), w)
OfDegree(basis, k, w) ==
  LET qs == Rising(Len(basis), k) IN [i \in DOMAIN qs |-> Monomial(basis, qs[i], w)] \o <<>>
PolynomialBasis(vs, degree, w) ==
  <<C(1)>> \o FlattenSeq([k \in 1 .. degree |-> OfDegree(Conjunctions(vs, w), k, w)])

(* evaluation_values, for samples from 0 on. *)
Exhaustive(vs, w) == 2 ^ (w * Len(vs)) <= Bounds.evaluations
SampleValue(vs, i, n, all, w) ==
  IF all THEN {b \in LowBits(w) : (i \div 2 ^ (w * (n - 1) + b)) % 2 = 1}
  ELSE IF i < Len(vs) + 2 THEN IF i \in {1, n + 1} THEN {0} ELSE {}
  ELSE Hashed[1 + ((i - Len(vs) - 2) % Len(Hashed))][vs[n]] \cap LowBits(w)
SampleValues(vs, i, all, w) ==
  [v \in Range(vs) |-> SampleValue(vs, i, SelectInSeq(vs, LAMBDA u : u = v), all, w)]
ValueAt(e, x, w) == Num(TreeEval(e, x)) % 2 ^ w

LeastSamples(basis) == Max({Len(basis), Len(basis) * Bounds.multiplier})
Evaluations(vs, basis, w) ==
  IF Exhaustive(vs, w) THEN Max({LeastSamples(basis), 2 ^ (w * Len(vs))}) ELSE LeastSamples(basis)
SystemFor(e, vs, basis, w) ==
  LET xs == [i \in 1 .. Evaluations(vs, basis, w) |-> SampleValues(vs, i - 1, Exhaustive(vs, w), w)] \o <<>>
  IN [matrix |-> [i \in DOMAIN xs |-> [j \in DOMAIN basis |-> ValueAt(basis[j], xs[i], w)] \o <<>>] \o <<>>,
      rhs |-> [i \in DOMAIN xs |-> ValueAt(e, xs[i], w)] \o <<>>]

(* analyze_global_polynomial: what is solved, and what becomes of a solution. *)
Fittable(e, degree, w) ==
  LET vs == Ascending(TreeVars(e)) IN
  /\ Len(vs) <= Bounds.fitted
  /\ Len(PolynomialBasis(vs, degree, w)) <= Bounds.monomials
  /\ Evaluations(vs, PolynomialBasis(vs, degree, w), w) <= Bounds.evaluations
SystemOf(e, degree, w) ==
  SystemFor(e, Ascending(TreeVars(e)), PolynomialBasis(Ascending(TreeVars(e)), degree, w), w)
MakeCandidate(coefficients, basis, w) ==
  LET used == SelectSeq([j \in DOMAIN basis |-> j], LAMBDA j : coefficients[j] # 0)
  IN Reduced(OrOnly("add", [i \in DOMAIN used |-> Scaled(coefficients[used[i]], basis[used[i]])], Zero0), w)
HoldsOut(c, e, first, w) ==
  LET vs == Ascending(TreeVars(e)) IN
  \A i \in first .. first + Bounds.holdouts - 1 :
    ValueAt(c, SampleValues(vs, i, FALSE, w), w) = ValueAt(e, SampleValues(vs, i, FALSE, w), w)
(* Mutant of Certified: what holds at the samples held out is taken. *)
CertifiedOut(c, e, full, w) == TRUE
Certified(c, e, full, w) == Becomes0(Minus(e, c), full, w)
FitFrom(c, e, first, full, w) ==
  IF /\ TreeSize(c) <= Bounds.size /\ HoldsOut(c, e, first, w)
     /\ Certified(c, e, full, w) /\ TreeSize(c) < TreeSize(e)
  THEN c ELSE e
Fitted(coefficients, e, degree, full, w) ==
  LET basis == PolynomialBasis(Ascending(TreeVars(e)), degree, w)
      raw == MakeCandidate(coefficients, basis, w)
  IN FitFrom(OrSame(Simplest(raw, full, w), raw), e, Evaluations(Ascending(TreeVars(e)), basis, w), full, w)
-----------------------------------------------------------------------------
(* P10a.  conjunction_coefficients: the semantic key of a factor. *)
SemanticKey(f, w) ==
  <<Ascending(TreeVars(f)), Coefficients(TreeSignature(AnalyzeLinear(f, w).projection, TreeVars(f), w), w)>>
Keyed(e, w) == Reduced(RewriteFactors(e, Counters(TreeSize(e)), w).e, w)

(* bitwise_normal_form_for_alternation *)
BitwiseStep(e, w) == Reduced(Rewritten(e, w), w)
PolyBitwisePoly(e, w) == PolynomialNormalForm(BitwiseStep(OrSame(PolynomialNormalForm(e, w), e), w), w)
BitwiseOr(p, w) == IF p = NoTree THEN NoTree ELSE BitwiseStep(p, w)
BitwisePolyBitwise(e, w) == BitwiseOr(PolynomialNormalForm(BitwiseStep(e, w), w), w)
LayersOf(keyed, e, w) == IfSmaller({PolyBitwisePoly(keyed, w), BitwisePolyBitwise(keyed, w)}, e)
AnalyzeAlternating(e, w) == LayersOf(Keyed(e, w), e, w)
-----------------------------------------------------------------------------
(* P10b.  guaranteed_two_adic_valuation; coefficient_from_other_factors.     *)
RECURSIVE Guaranteed(_, _)
Guaranteed(e, w) ==
  CASE e.op \in {"const", "scale"} -> LowestOne(Low(e.k, w), w)
    [] e.op = "mul" -> Min({w, SumOver(LAMBDA f : Guaranteed(f, w), e.args)})
    [] OTHER -> 0
OtherFactors(terms, i, w) == Reduced(OrOnly("mul", OtherArgs(T("mul", terms), i, i), C(1)), w)

(* prove_contextual_equality: at the width that the coefficient leaves.      *)
LeftWidth(c, w) == w - Guaranteed(c, w)
SimplifierProves(f, p, c, s, full, w) ==
  s.tries < Bounds.tries /\ Becomes0(T("mul", <<c, Minus(f, p)>>), full, w)
WidthProves(f, p, c, w) == Guaranteed(c, w) > 0 /\ CertifyEquivalent(f, p, LeftWidth(c, w)) = "proved"
ContextuallyEqual(f, p, c, s, full, w) ==
  Guaranteed(c, w) = w \/ SimplifierProves(f, p, c, s, full, w) \/ WidthProves(f, p, c, w)
Tries(c, s, w) == IF Guaranteed(c, w) < w /\ s.tries < Bounds.tries THEN s.tries + 1 ELSE s.tries

(* rewrite: each factor in turn, next to the others as they are by then. *)
InContext(r, i, p, c, s, full, w) ==
  IF ~ContextuallyEqual(r.e.args[i], p, c, s, full, w)
  THEN Answer(r.e, [s EXCEPT !.tries = Tries(c, s, w)])
  ELSE Answer([r.e EXCEPT !.args[i] = p], [s EXCEPT !.tries = Tries(c, s, w), !.rewrites = @ + 1])
AnalyzedFactor(r, i, a, full, w) ==
  IF a.verdict # "differ" THEN Answer(r.e, [r.s EXCEPT !.factors = @ + 1])
  ELSE InContext(r, i, a.projection, OtherFactors(r.e.args, i, w), [r.s EXCEPT !.factors = @ + 1], full, w)
NextFactor(r, i, full, w) ==
  IF ~InFragment(r.e.args[i]) THEN r
  ELSE IF r.s.factors = Bounds.factors THEN Exceeded(r.e, r.s)
  ELSE AnalyzedFactor(r, i, AnalyzeLinear(r.e.args[i], w), full, w)
AllFactors(r, full, w) ==
  FoldLeft(LAMBDA q, i : NextFactor(q, i, full, w), r, [i \in DOMAIN r.e.args |-> i])
ReducedAnswer(r, w) == Answer(Reduced(r.e, w), r.s)
RECURSIVE Contextual(_, _, _, _)
Contextual(e, s, full, w) ==
  IF e.op # "mul" THEN Over(e, s, LAMBDA c, q : Contextual(c, q, full, w))
  ELSE IF s.muls = 0 THEN Exceeded(e, s)
  ELSE ReducedAnswer(
         AllFactors(Over(e, [s EXCEPT !.muls = @ - 1],
                         LAMBDA c, q : IF InFragment(c) THEN Answer(c, q) ELSE Contextual(c, q, full, w)),
                    full, w), w)
ContextResults(r, e, full, w) ==
  IF r.s.rewrites = 0 THEN {e} ELSE IfSmaller({OrSame(Simplest(r.e, full, w), r.e)}, e)
AnalyzeContextual(e, full, w) == ContextResults(Contextual(e, Counters(Bounds.muls), full, w), e, full, w)
-----------------------------------------------------------------------------
(* P10c.  The parents: certified projections of all parts.                   *)
ParentsOf(e, w) ==
  {a.projection : a \in {b \in {AnalyzeLinear(d, w) : d \in Subtrees(e)} : b.verdict = "proved"}}
SampledAt(e, w) == [i \in DOMAIN Hashed |-> TreeEval(e, Hashed[i]) \cap LowBits(w)] \o <<>>
ObservedTables(e, l, r, w) == Consistent(Observed(SampledAt(e, w), <<SampledAt(l, w), SampledAt(r, w)>>, w), 2)

(* compact_binary_function: bit a of the table for l and r as in a. *)
Function0(l, r, table) ==
  CASE table = {}     -> Zero0
    [] table = {1, 3} -> l
    [] table = {2, 3} -> r
    [] table = {3}    -> T("and", <<l, r>>)
    [] table = {1, 2, 3} -> T("or", <<l, r>>)
    [] table = {1, 2} -> T("xor", <<l, r>>)
    [] table = {1}    -> T("and", <<l, T("not", <<r>>)>>)
    [] table = {2}    -> T("and", <<T("not", <<l>>), r>>)
CompactFunction(l, r, table, w) ==
  Reduced(CASE 0 \notin table -> Function0(l, r, table)
            [] table = 0 .. 3 -> C(2 ^ w - 1)
            [] table = {0, 1, 3} -> T("or", <<l, T("not", <<r>>)>>)
            [] table = {0, 2, 3} -> T("or", <<T("not", <<l>>), r>>)
            [] OTHER -> T("not", <<Function0(l, r, 0 .. 3 \ table)>>), w)
(* Pairs of parents in order, and the tables of each, within the budgets.     *)
ParentPairs(n) ==
  FirstFew(FlattenSeq([i \in 1 .. n |-> [j \in 1 .. n - i + 1 |-> <<i, i + j - 1>>]]), Bounds.pairs)
Tables == [n \in 1 .. 16 |-> {a \in 0 .. 3 : ((n - 1) \div 2 ^ a) % 2 = 1}]
FunctionsOf(e, l, r, w) ==
  LET tables == SelectSeq(Tables, LAMBDA S : S \in ObservedTables(e, l, r, w))
  IN [k \in DOMAIN tables |-> CompactFunction(l, r, tables[k], w)] \o <<>>
Compositions(e, parents, w) ==
  LET pairs == ParentPairs(Len(parents))
      tried == FlattenSeq([k \in DOMAIN pairs |-> FunctionsOf(e, parents[pairs[k][1]], parents[pairs[k][2]], w)])
  IN {c \in Range(FirstFew(tried, Bounds.certifications)) : CertifyEquivalent(e, c, w) = "proved"}
AnalyzeComposition(e, w) ==
  IF Cardinality(Subtrees(e)) > Bounds.parts \/ Cardinality(ParentsOf(e, w)) > Bounds.parents THEN {e}
  ELSE IfSmaller(Compositions(e, SetToSortSeq(ParentsOf(e, w), LessWord), w), e)
=============================================================================
