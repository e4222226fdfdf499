----------------------------- MODULE Compression -----------------------------
(***************************************************************************)
(* The experiments that write an expanded expression smaller.  P11a          *)
(* (p11a.rs) proposes factors, bitwise functions and combinations of parts   *)
(* at every node, and what was kept elsewhere for an equal part; P11b        *)
(* (p11b.rs) tries a grammar of words.  Samples filter, proofs decide.       *)
(* choice, or how, says what no tree tells: whether the later stages of the  *)
(* simplifier see that something is zero, and which of two texts is first.   *)
(***************************************************************************)
EXTENDS Polynomials

VARIABLES
  choice,    \* what the simplifier and the texts say
  surface,   \* the expression as the rounds have it
  rounds,    \* rounds begun
  visiting,  \* the node that is entered next
  nodes11,   \* compress_node: the nodes entered and not left, innermost last
  memory     \* SurfaceArchive, the keys known, ResidualProofCache

surfaceVars == <<choice, surface, rounds, visiting, nodes11, memory>>

(* cost: nodes, then text, for which an order on trees, or its reverse, stands. *)
Cheaper(d, e, how) == IF TreeSize(d) # TreeSize(e) \/ ~how.flip THEN LessWord(d, e) ELSE Below(e, d)
ByCost(S, how) == SortSeq(Listed(S), LAMBDA d, e : Cheaper(d, e, how))
OfTwo(d, e, how) == IF Cheaper(d, e, how) THEN d ELSE e
Pairs1(I) == {p \in I \X I : p[1] <= p[2]}
Cheapest1(S, how) == CHOOSE e \in S : \A d \in S : d = e \/ Cheaper(e, d, how)

(* prove_zero_without_p11: ordinary simplification, the closure, P9.         *)
ZeroVerdict(r, how, w) ==
  CASE Fails(r) -> "unknown"
    [] r.e = Zero0 \/ (how.full /\ Vanishes(r.e, w)) -> "proved"
    [] OTHER -> CertifyEquivalent(r.e, Zero0, w)
(* Mutant of ProveEqual: what was not refuted is proved. *)
NotRefuted(d, e, how, w) == IF ZeroVerdict(Baseline(Minus(d, e), w), how, w) = "differ" THEN "differ" ELSE "proved"
ProveEqual(d, e, how, w) == ZeroVerdict(Baseline(Minus(d, e), w), how, w)
-----------------------------------------------------------------------------
(* surface_add, surface_mul (in P11b, surface_and and so on): operands of the *)
(* same kind are opened, what is neutral is left out.                        *)
Flattened(op, terms, neutral) ==
  OrOnly(op, FlattenSeq([j \in DOMAIN terms |->
                           IF terms[j].op = op THEN terms[j].args
                           ELSE IF terms[j] = neutral THEN <<>> ELSE <<terms[j]>>]), neutral)
SurfaceAdd(terms) == Flattened("add", terms, Zero0)
SurfaceMul(factors) == IF Contains(factors, Zero0) THEN Zero0 ELSE Flattened("mul", factors, C(1))

(* ArithmeticTerm: a coefficient, and factors in order.                      *)
Piece(c, fs) == [c |-> c, fs |-> fs]
MinusOne(w) == 2 ^ w - 1
TermExpression(t) == Scaled(t.c, SurfaceMul(t.fs))
AllNegated(terms, w) ==
  IF terms = <<>> \/ \E j \in DOMAIN terms : terms[j].c # MinusOne(w) THEN NoTree
  ELSE SurfaceAdd([j \in DOMAIN terms |-> SurfaceMul(terms[j].fs)])
Negative(e, positive, w) == IF positive = NoTree THEN Piece(1, <<e>>) ELSE Piece(MinusOne(w), <<positive>>)
TimesPiece(p, q, w) == Piece(Low(p.c * q.c, w), Sorted(p.fs \o q.fs))

(* decompose_term; strip_uniform_additive_negation *)
RECURSIVE Decomposed(_, _)
Decomposed(e, w) ==
  LET parts == [j \in DOMAIN e.args |-> Decomposed(e.args[j], w)] \o <<>>
      product == FoldLeft(LAMBDA p, q : TimesPiece(p, q, w), Piece(1, <<>>), parts)
  IN CASE e.op = "const" -> Piece(Low(e.k, w), <<>>)
       [] e.op = "scale" -> TimesPiece(Piece(Low(e.k, w), <<>>), product, w)
       [] e.op = "mul"   -> product
       [] e.op = "add"   -> Negative(e, AllNegated(parts, w), w)
       [] OTHER -> Piece(1, <<e>>)
AdditiveTerms(e, w) == LET ts == Spread("add", e) IN [i \in DOMAIN ts |-> Decomposed(ts[i], w)] \o <<>>

(* arithmetic_factorizations: what each factor of several terms leaves.      *)
HasFactor(t, f) == Contains(t.fs, f)
LessFactor(t, f) == TermExpression([t EXCEPT !.fs = RemoveAt(@, SelectInSeq(@, LAMBDA g : g = f))])
GroupOf(terms, f) ==
  LET having == SelectSeq(terms, LAMBDA t : HasFactor(t, f))
  IN SurfaceMul(<<f, SurfaceAdd([i \in DOMAIN having |-> LessFactor(having[i], f)])>>)
Remainder(terms, f) ==
  LET others == SelectSeq(terms, LAMBDA t : ~HasFactor(t, f)) IN [i \in DOMAIN others |-> TermExpression(others[i])] \o <<>>
FactoredBy(terms, f) ==
  [e |-> SurfaceAdd(Append(Remainder(terms, f), GroupOf(terms, f))), group |-> GroupOf(terms, f)]
FactorsIn(terms) == UNION {Range(terms[i].fs) : i \in DOMAIN terms}
Frequency(terms, f) == Len(SelectSeq(terms, LAMBDA t : HasFactor(t, f)))
FactorizationsOf(terms) ==
  LET fs == SelectSeq(Sorted(Listed(FactorsIn(terms))), LAMBDA f : Frequency(terms, f) >= 2)
  IN [i \in DOMAIN fs |-> FactoredBy(terms, fs[i])] \o <<>>
Factorizations(e, w) == IF e.op = "add" THEN FactorizationsOf(AdditiveTerms(e, w)) ELSE <<>>

(* not_from_add: all terms negated, and a constant of minus one.             *)
NotOfTerms(terms, w) ==
  LET constant == Low(SumOver(LAMBDA t : IF t.fs = <<>> THEN t.c ELSE 0, terms), w)
      sum == AllNegated(SelectSeq(terms, LAMBDA t : t.fs # <<>>), w)
  IN IF constant # MinusOne(w) \/ sum = NoTree THEN NoTree ELSE T("not", <<sum>>)
NotFromAdd(e, w) == IF e.op = "add" THEN NotOfTerms(AdditiveTerms(e, w), w) ELSE NoTree
-----------------------------------------------------------------------------
(* abstract_linear_atoms: a variable for each variable and each product.     *)
RECURSIVE LinearAtoms(_)
LinearAtoms(e) ==
  IF e.op \in {"var", "mul"} THEN <<e>>
  ELSE FoldLeft(LAMBDA s, a : s \o SelectSeq(LinearAtoms(a), LAMBDA b : ~Contains(s, b)), <<>>, e.args)
RECURSIVE AtomsNamed(_, _)
AtomsNamed(e, atoms) ==
  IF e.op \in {"var", "mul"} THEN V(SelectInSeq(atoms, LAMBDA a : a = e) - 1)
  ELSE Tree(e.op, e.k, [j \in DOMAIN e.args |-> AtomsNamed(e.args[j], atoms)])

(* compact_bitwise_candidate: the cheapest expression of each table of n       *)
(* variables, after three rounds of all operators on all that are known.      *)
NumberOf(S) == 1 + MapThenSumSet(LAMBDA a : 2 ^ a, S)
Cell(S, e) == [table |-> NumberOf(S), e |-> e]
VarTable(v, n) == {a \in 0 .. 2 ^ n - 1 : (a \div 2 ^ v) % 2 = 1}
StartForms(n) ==
  {Cell({}, Zero0), Cell(0 .. 2 ^ n - 1, C(MinusOne(Width)))}
    \cup {Cell(VarTable(v, n), V(v)) : v \in 0 .. n - 1}
    \cup {Cell(0 .. 2 ^ n - 1 \ VarTable(v, n), T("not", <<V(v)>>)) : v \in 0 .. n - 1}
BothForms(l, r, d, e) ==
  {Cell(l \cap r, T("and", <<d, e>>)), Cell(l \cup r, T("or", <<d, e>>)),
   Cell((l \cup r) \ (l \cap r), T("xor", <<d, e>>))}
KnownForms(forms) == {i \in DOMAIN forms : forms[i] # NoTree}
CombinedForms(forms, n) ==
  {Cell(Tables[i], forms[i]) : i \in KnownForms(forms)}
    \cup {Cell(0 .. 2 ^ n - 1 \ Tables[i], T("not", <<forms[i]>>)) : i \in KnownForms(forms)}
    \cup UNION {BothForms(Tables[p[1]], Tables[p[2]], forms[p[1]], forms[p[2]]) : p \in Pairs1(KnownForms(forms))}
BestForm(S, how) == IF S = {} THEN NoTree ELSE Cheapest1(S, how)
BestForms(cells, n, how) ==
  [i \in 1 .. 2 ^ (2 ^ n) |-> BestForm({c.e : c \in {d \in cells : d.table = i}}, how)] \o <<>>
FormsFor(n, how) ==
  FoldLeft(LAMBDA forms, i : BestForms(CombinedForms(forms, n), n, how), BestForms(StartForms(n), n, how), <<1, 2, 3>>)
CompactForms == [n \in 1 .. 2 |-> [flip \in BOOLEAN |-> FormsFor(n, [full |-> FALSE, flip |-> flip])]]

(* bitwise_resynthesis *)
Words0(n) == [i \in 1 .. n |-> WordRef(i - 1, FALSE)] \o <<>>
CompactForm(e, n, how, w) ==
  IF ~BooleanCube(e, Words0(n), w) THEN NoTree
  ELSE CompactForms[n][how.flip][NumberOf({a \in Corners(Words0(n)) : Corner(e, Words0(n), a, w) # {}})]
CertifiedForm(form, named, atoms, w) ==
  IF form # NoTree /\ TreeSize(form) < TreeSize(named) /\ CertifyEquivalent(named, form, w) = "proved"
  THEN Subst(form, [i \in 0 .. Len(atoms) - 1 |-> atoms[i + 1]]) ELSE NoTree
OverAtoms(named, atoms, how, w) == CertifiedForm(CompactForm(named, Len(atoms), how, w), named, atoms, w)
ResynthesisOver(e, atoms, how, w) ==
  IF Len(atoms) \notin 1 .. Bounds.atoms THEN NoTree ELSE OverAtoms(AtomsNamed(e, atoms), atoms, how, w)
Resynthesis(e, how, w) == ResynthesisOver(e, LinearAtoms(e), how, w)

(* subset_resyntheses: of some terms of a sum, small coefficients written out. *)
Copies(n, t) == [i \in 1 .. n |-> TermExpression(t)] \o <<>>
SmallTerms(raw, t, w) ==
  CASE t.fs # <<>> /\ t.c \in 2 .. 3 -> Copies(t.c, Piece(1, t.fs))
    [] t.fs # <<>> /\ t.c \notin 2 .. 3 /\ Low(-t.c, w) \in 2 .. 3 -> Copies(Low(-t.c, w), Piece(MinusOne(w), t.fs))
    [] OTHER -> <<raw>>
UnitTerms(e, w) ==
  LET ts == Spread("add", e) IN FlattenSeq([i \in DOMAIN ts |-> SmallTerms(ts[i], Decomposed(ts[i], w), w)])
Part(terms, S) == LET q == SelectSeq([i \in DOMAIN terms |-> i], LAMBDA i : i \in S) IN [k \in DOMAIN q |-> terms[q[k]]] \o <<>>
PartForm(sum, form, w) == IF form = NoTree THEN NotFromAdd(sum, w) ELSE form
FormOfPart(sum, how, w) == PartForm(sum, Resynthesis(sum, how, w), w)
WithPart(terms, S, form) ==
  IF form = NoTree THEN NoTree ELSE SurfaceAdd(Append(Part(terms, DOMAIN terms \ S), form))
SubsetsOf(terms, how, w) ==
  IF Len(terms) \notin 2 .. 10 THEN {}
  ELSE {WithPart(terms, S, FormOfPart(SurfaceAdd(Part(terms, S)), how, w)) :
          S \in {P \in SUBSET DOMAIN terms : Cardinality(P) \in 2 .. Len(terms) - 1}} \ {NoTree}
SubsetResyntheses(e, how, w) == IF e.op = "add" THEN SubsetsOf(UnitTerms(e, w), how, w) ELSE {}

(* negated_subset_resyntheses *)
NegatedSum(e, w) ==
  LET ts == AdditiveTerms(e, w) IN SurfaceAdd([i \in DOMAIN ts |-> TermExpression([ts[i] EXCEPT !.c = Low(-@, w)])])
NegatedOf(sum, how, w) ==
  {Scaled(MinusOne(w), c) : c \in (SubsetResyntheses(sum, how, w) \cup {Resynthesis(sum, how, w)}) \ {NoTree}}
NegatedResyntheses(e, how, w) == IF e.op = "add" THEN NegatedOf(NegatedSum(e, w), how, w) ELSE {}

(* small_circuit_candidates *)
RECURSIVE CircuitBases(_)
CircuitBases(e) ==
  {d \in {e} : d.op = "var" \/ (d.op \in {"scale", "mul"} /\ TreeSize(d) <= 4)}
    \cup UNION {CircuitBases(e.args[j]) : j \in DOMAIN e.args}
CircuitsOver(bases) ==
  LET I == Pairs1(DOMAIN bases)
      sums == {T("not", <<SurfaceAdd(<<bases[p[1]], bases[p[2]]>>)>>) : p \in I}
      pairs == {T(op, <<bases[p[1]], bases[p[2]]>>) : op \in {"or", "xor"}, p \in I}
  IN {T("and", <<SurfaceMul(<<f, s>>), p>>) : f \in Range(bases), s \in sums, p \in pairs}
SmallCircuits(e) ==
  IF e.op # "add" \/ Len(Spread("add", e)) > 8 THEN {}
  ELSE CircuitsOver(FirstFew(Sorted(Listed(CircuitBases(e))), 12))

(* boolean_factorizations: an operand that two operands share is pulled out.  *)
Inner(op) == IF op = "and" THEN "or" ELSE "and"
RestOf(op, e, common) ==
  OrOnly(Inner(op), SelectSeq(e.args, LAMBDA a : a # common), IF op = "and" THEN Zero0 ELSE C(AllOnes))
SharedOut(e, i, j, common) ==
  T(e.op, Append(OtherArgs(e, i, j),
                 T(Inner(e.op), <<common, T(e.op, <<RestOf(e.op, e.args[i], common), RestOf(e.op, e.args[j], common)>>)>>)))
BooleanFactorizations(e) ==
  IF e.op \notin {"and", "or", "xor"} THEN {}
  ELSE UNION {{SharedOut(e, p[1], p[2], c) : c \in Range(e.args[p[1]].args) \cap Range(e.args[p[2]].args)} :
                p \in {q \in Pairs1(DOMAIN e.args) :
                         q[1] < q[2] /\ e.args[q[1]].op = Inner(e.op) /\ e.args[q[2]].op = Inner(e.op)}}
-----------------------------------------------------------------------------
(* local_candidates, of which those of no more nodes than e are tried.        *)
StagedFactorizations(first, w) ==
  LET staged == FlattenSeq([i \in DOMAIN first |-> Factorizations(first[i].e, w)])
  IN {f.e : f \in Range(FirstFew(staged, Bounds.components))}
ComponentsOf(e, groups, how) ==
  FirstFew(ByCost({d \in Subtrees(e) \cup groups : ~IsConst(d) /\ TreeSize(d) < TreeSize(e)}, how), Bounds.components)
OfComponents(parts) ==
  {T("not", <<d>>) : d \in Range(parts)}
    \cup UNION {{T("and", <<parts[p[1]], parts[p[2]]>>), T("or", <<parts[p[1]], parts[p[2]]>>),
                 T("xor", <<parts[p[1]], parts[p[2]]>>), SurfaceMul(<<parts[p[1]], parts[p[2]]>>)} :
                  p \in Pairs1(DOMAIN parts)}
FromFactors(e, first, how, w) ==
  {f.e : f \in Range(first)} \cup StagedFactorizations(first, w)
    \cup OfComponents(ComponentsOf(e, {f.group : f \in Range(first)}, how))
Proposed(e, how, w) ==
  ({NotFromAdd(e, w), Resynthesis(e, how, w)} \ {NoTree})
    \cup FromFactors(e, Factorizations(e, w), how, w)
    \cup SubsetResyntheses(e, how, w) \cup NegatedResyntheses(e, how, w)
    \cup BooleanFactorizations(e) \cup SmallCircuits(e)
LocalCandidates(e, how, w) == {c \in Proposed(e, how, w) : TreeSize(c) <= Bounds.size}

(* proof_key *)
KeyFrom(r) == IF Fails(r) THEN NoTree ELSE r.e
ProofKey(e, w) == KeyFrom(Baseline(OrSame(PolynomialNormalForm(e, w), e), w))

(* SurfaceArchive::insert: the cheapest of all and of each kind of root, that *)
(* of the most frequent factor, that of the fewest variables under bitwise    *)
(* operators, and then the cheapest, in the order in which they came.         *)
RootKind(e) == CASE e.op \in {"add", "mul"} -> e.op [] e.op \in Bitwise -> "bitwise" [] OTHER -> "other"
FactorScore(e, w) ==
  IF e.op # "add" THEN 0
  ELSE LET ts == AdditiveTerms(e, w)
           Occurs(f) == SumOver(LAMBDA t : Len(SelectSeq(t.fs, LAMBDA g : g = f)), ts)
       IN Max({0} \cup {Occurs(f) : f \in FactorsIn(ts)})
RECURSIVE Bottom(_)
Bottom(e) == IF e.op = "not" THEN Bottom(e.args[1]) ELSE e
HasSupport(e) == Bottom(e).op \in Bitwise
Support(e) == Cardinality(TreeVars(Bottom(e)))
MostFactored(S, how, w) ==
  Cheapest1({e \in S : \A d \in S : FactorScore(d, w) <= FactorScore(e, w)}, how)
LeastSupport(S, how) ==
  LET B == {e \in S : HasSupport(e)}
  IN IF B = {} THEN {} ELSE {Cheapest1({e \in B : \A d \in B : Support(e) <= Support(d)}, how)}
Notable(S, how, w) ==
  {Cheapest1(S, how), MostFactored(S, how, w)} \cup LeastSupport(S, how)
    \cup {Cheapest1({e \in S : RootKind(e) = k}, how) : k \in {RootKind(e) : e \in S}}
FilledUp(chosen, S, how) ==
  chosen \cup Range(FirstFew(ByCost(S \ chosen, how), Max({0, Bounds.representatives - Cardinality(chosen)})))
Retained(reps, kept) == FirstFew(SelectSeq(reps, LAMBDA e : e \in kept), Bounds.representatives)
AddedTo(reps, how, w) == Retained(reps, FilledUp(Notable(Range(reps), how, w), Range(reps), how))
Held(archive, key) == IF key \in DOMAIN archive THEN archive[key] ELSE <<>>
InsertSurface(s, key, e, how, w) ==
  IF key = NoTree \/ Contains(Held(s.archive, key), e) THEN s
  ELSE [s EXCEPT !.archive = (key :> AddedTo(Append(Held(@, key), e), how, w)) @@ @]

(* replace_all; promotion_candidates *)
RECURSIVE ReplaceIn(_, _, _)
ReplaceIn(e, target, by) ==
  IF e = target THEN by ELSE Tree(e.op, e.k, [j \in DOMAIN e.args |-> ReplaceIn(e.args[j], target, by)])
PromotedAt(e, d, reps) ==
  LET others == SelectSeq(reps, LAMBDA r : r # d) IN [i \in DOMAIN others |-> ReplaceIn(e, d, others[i])] \o <<>>
Promotions(e, m) ==
  LET parts == Sorted(Listed(Subtrees(e)))
      found == FlattenSeq([i \in DOMAIN parts |-> PromotedAt(e, parts[i], Held(m.archive, m.keys[parts[i]]))])
  IN Range(FirstFew(FirstOnly(found), Bounds.promotions))
-----------------------------------------------------------------------------
(* observations_match, of P11a: samples, then the counterexamples found.      *)
AsInput(x, S) == [v \in S |-> IF v \in DOMAIN x THEN x[v] ELSE {}]
AgreeAt(d, e, x, w) ==
  LET S == TreeVars(d) \cup TreeVars(e)
  IN TreeEval(d, AsInput(x, S)) \cap LowBits(w) = TreeEval(e, AsInput(x, S)) \cap LowBits(w)
Matches(d, e, inputs, w) == \A x \in inputs : AgreeAt(d, e, x, w)
CounterexampleTo(d, e, w) ==
  {CHOOSE x \in [TreeVars(d) \cup TreeVars(e) -> SUBSET LowBits(w)] : ~AgreeAt(d, e, x, w)}

NoKeys == [d \in {} |-> NoTree]
Forgotten == [archive |-> <<>>, keys |-> NoKeys, outcomes |-> <<>>, witnesses |-> {}, tries |-> Bounds.residuals]
Top == nodes11[Len(nodes11)]
SetTop(f) == nodes11' = [nodes11 EXCEPT ![Len(nodes11)] = f]
SurfaceInit(e) ==
  /\ choice \in [full : BOOLEAN, flip : BOOLEAN]
  /\ surface = e /\ rounds = 0 /\ visiting = NoTree /\ nodes11 = <<>> /\ memory = Forgotten
NoSurface ==
  /\ choice = [full |-> FALSE, flip |-> FALSE]
  /\ surface = NoTree /\ rounds = 0 /\ visiting = NoTree /\ nodes11 = <<>> /\ memory = Forgotten

(* compress_internal *)
RoundOver == surface # NoTree /\ nodes11 = <<>> /\ visiting = NoTree
BeginRound ==
  /\ RoundOver /\ rounds < Bounds.rounds
  /\ rounds' = rounds + 1 /\ visiting' = surface
  /\ UNCHANGED <<choice, surface, nodes11, memory>>

(* compress_node: the node is put under its key, then its children are        *)
(* compressed.                                                               *)
Entered(e, key) == [e |-> e, key |-> key, parts |-> <<>>, cheapest |-> NoTree, promoted |-> {}, rest |-> <<>>]
WithKey(m, e, key) == [m EXCEPT !.keys = (e :> key) @@ @]
EnterNode ==
  /\ visiting # NoTree
  /\ \E key \in {ProofKey(visiting, Width)} :
       /\ nodes11' = Append(nodes11, Entered(visiting, key))
       /\ memory' = InsertSurface(WithKey(memory, visiting, key), key, visiting, choice, Width)
  /\ visiting' = NoTree
  /\ UNCHANGED <<choice, surface, rounds>>
InNode == nodes11 # <<>> /\ visiting = NoTree
NextChild ==
  /\ InNode /\ Len(Top.parts) < Len(Top.e.args)
  /\ visiting' = Top.e.args[Len(Top.parts) + 1]
  /\ UNCHANGED <<choice, surface, rounds, nodes11, memory>>

(* The candidates that cost less than the node and match it on all samples.   *)
Pending(e, S) == ByCost({c \in S : Cheaper(c, e, choice) /\ Matches(e, c, Range(Hashed), Width)}, choice)
Propose ==
  /\ InNode /\ Len(Top.parts) = Len(Top.e.args) /\ Top.cheapest = NoTree
  /\ \E b \in {OfTwo(With(Top.e, Top.parts), Top.e, choice)}, promoted \in {Promotions(Top.e, memory)} :
     \E local \in {UNION {LocalCandidates(d, choice, Width) : d \in {Top.e, b}}} :
       SetTop([Top EXCEPT !.cheapest = b, !.promoted = promoted, !.rest = Pending(Top.e, local \cup promoted)])
  /\ UNCHANGED <<choice, surface, rounds, visiting, memory>>

(* Each is taken if it has the node's key, if parts of it were only replaced  *)
(* by others of their keys, or if the difference is proved to be zero.        *)
Take(c, m) ==
  /\ SetTop([Top EXCEPT !.cheapest = OfTwo(c, @, choice), !.rest = Tail(@)])
  /\ memory' = InsertSurface(m, Top.key, c, choice, Width)
Drop(m) == SetTop([Top EXCEPT !.rest = Tail(@)]) /\ memory' = m
Decide(c, verdict, m) == IF verdict = "proved" THEN Take(c, m) ELSE Drop(m)

(* cached_residual_proof *)
Noted(c, verdict) ==
  [memory EXCEPT !.tries = @ - 1, !.outcomes = (<<Top.e, c>> :> verdict) @@ @,
     !.witnesses = IF verdict = "differ" THEN @ \cup CounterexampleTo(Top.e, c, Width) ELSE @]
ResidualProof(c) ==
  IF <<Top.e, c>> \in DOMAIN memory.outcomes THEN Decide(c, memory.outcomes[<<Top.e, c>>], memory)
  ELSE IF memory.tries = 0 THEN Drop(memory)
  ELSE \E verdict \in {ProveEqual(Top.e, c, choice, Width)} : Decide(c, verdict, Noted(c, verdict))
SameKey(c) == Top.key # NoTree /\ ProofKey(c, Width) = Top.key
Consider ==
  /\ InNode /\ Top.rest # <<>>
  /\ \E c \in {Head(Top.rest)} :
       IF ~Matches(Top.e, c, memory.witnesses, Width) THEN Drop(memory)
       ELSE IF c \in Top.promoted \/ SameKey(c) THEN Take(c, memory) ELSE ResidualProof(c)
  /\ UNCHANGED <<choice, surface, rounds, visiting>>

(* The node is left for the cheapest that was found.                         *)
Left == [nodes11 EXCEPT ![Len(nodes11) - 1].parts = Append(@, Top.cheapest)]
LeaveNode ==
  /\ InNode /\ Top.cheapest # NoTree /\ Top.rest = <<>>
  /\ nodes11' = Front(IF Len(nodes11) = 1 THEN nodes11 ELSE Left)
  /\ surface' = IF Len(nodes11) = 1 THEN OfTwo(Top.cheapest, surface, choice) ELSE surface
  /\ UNCHANGED <<choice, rounds, visiting, memory>>

SurfaceNext == BeginRound \/ EnterNode \/ NextChild \/ Propose \/ Consider \/ LeaveNode
RoundsOver == RoundOver /\ rounds = Bounds.rounds
Compressed(e) == IF TreeSize(surface) < TreeSize(e) THEN surface ELSE e
-----------------------------------------------------------------------------
(* P11b.  retain_cheapest: an expression for each signature, in their order.  *)
Composed(op, d, e) == Flattened(op, <<d, e>>, NoTree)
Observe(e, w) == [e |-> e, sig |-> SampledAt(e, w)]
Numbers(sig) == [i \in DOMAIN sig |-> Num(sig[i])]
RetainBest(observed, how) ==
  LET sigs == SortSeq(Listed({o.sig : o \in observed}), LAMBDA p, q : Lower(Numbers(p), Numbers(q)))
  IN [i \in DOMAIN sigs |-> [sig |-> sigs[i], e |-> Cheapest1({o.e : o \in {q \in observed : q.sig = sigs[i]}}, how)]] \o <<>>
RetainCheapest(S, how, w) == RetainBest({Observe(e, w) : e \in S}, how)

BaseExpressions(e, w) ==
  UNION {{V(v), T("not", <<V(v)>>), Scaled(MinusOne(w), V(v)), Scaled(2, V(v))} : v \in TreeVars(e)}
GrammarOps == {"and", "or", "xor"}
BitwisePairs(bases) ==
  {Composed(op, bases[p[1]].e, bases[p[2]].e) : op \in GrammarOps, p \in Pairs1(DOMAIN bases)}
SurfacesOver(bases, d, w) ==
  {d, Scaled(MinusOne(w), d)}
    \cup UNION {{SurfaceAdd(<<b.e, d>>), SurfaceAdd(<<b.e, Scaled(MinusOne(w), d)>>)} : b \in Range(bases)}
    \cup {SurfaceAdd(<<bases[p[1]].e, bases[p[2]].e, d>>) : p \in Pairs1(DOMAIN bases)}
AdditiveSurfaces(bases, pairs, w) == UNION {SurfacesOver(bases, p.e, w) : p \in Range(pairs)}

(* What the searches find for a target, in their order.                       *)
Meet(op, p, q) == [i \in DOMAIN p |->
  CASE op = "and" -> p[i] \cap q[i] [] op = "or" -> p[i] \cup q[i] [] op = "xor" -> (p[i] \cup q[i]) \ (p[i] \cap q[i])] \o <<>>
JoinedPairs(op, found, target) ==
  LET fit == SelectSeq(found, LAMBDA o : Meet(op, o.sig, target) = target)
      is == FlattenSeq([i \in DOMAIN fit |-> [j \in 1 .. Len(fit) - i + 1 |-> <<i, i + j - 1>>]])
      hits == SelectSeq(is, LAMBDA p : Meet(op, fit[p[1]].sig, fit[p[2]].sig) = target)
  IN [k \in DOMAIN hits |-> Composed(op, fit[hits[k][1]].e, fit[hits[k][2]].e)] \o <<>>
JoinedBitwise(found, target) == JoinedPairs("and", found, target) \o JoinedPairs("or", found, target)

ClausesOf(sum, bases) ==
  FlattenSeq([i \in DOMAIN bases |->
    [k \in 1 .. 3 |-> LET op == <<"and", "or", "xor">>[k]
                      IN [sig |-> Meet(op, bases[i].sig, sum.sig), e |-> Composed(op, bases[i].e, sum.e)]]])
FirstOfEach(clauses) ==
  LET first == SelectSeq([i \in DOMAIN clauses |-> i], LAMBDA i : ~\E j \in 1 .. i - 1 : clauses[j].sig = clauses[i].sig)
  IN SortSeq([k \in DOMAIN first |-> clauses[first[k]]], LAMBDA c, d : Lower(Numbers(c.sig), Numbers(d.sig)))
XorPairs(clauses, target) ==
  FlattenSeq([i \in DOMAIN clauses |->
    LET q == SelectSeq(clauses, LAMBDA o : o.sig = Meet("xor", clauses[i].sig, target))
    IN [k \in DOMAIN q |-> Composed("xor", clauses[i].e, q[k].e)]])
Hits(clauses, target) ==
  LET q == SelectSeq(clauses, LAMBDA c : c.sig = target) IN [k \in DOMAIN q |-> q[k].e] \o <<>>
RetainedFrom(clauses, retained, target) ==
  Hits(clauses, target) \o JoinedBitwise(retained, target) \o XorPairs(retained, target)
NestedAt(clauses, target) == RetainedFrom(clauses, FirstOfEach(clauses), target)
NestedRetention(sums, bases, target) == FlattenSeq([i \in DOMAIN sums |-> NestedAt(ClausesOf(sums[i], bases), target)])

(* search_correlated_xor *)
PairXors(pairs, how) ==
  RetainBest({[sig |-> Meet("xor", pairs[p[1]].sig, pairs[p[2]].sig), e |-> Composed("xor", pairs[p[1]].e, pairs[p[2]].e)] :
                p \in Pairs1(DOMAIN pairs)}, how)
TailOf(bases, t, w) ==
  Scaled(MinusOne(w), Composed("xor", T("not", <<SurfaceAdd(<<bases[t[1]].e, bases[t[2]].e>>)>>), bases[t[3]].e))
Triples(n) == FlattenSeq([i \in 1 .. n |-> FlattenSeq([j \in 1 .. n - i + 1 |-> [k \in 1 .. n |-> <<i, i + j - 1, k>>]])])
WithPrefix(prefixes, tail, target, w) ==
  LET q == SelectSeq(prefixes, LAMBDA o : o.sig = Meet("xor", SampledAt(tail, w), target))
  IN [k \in DOMAIN q |-> Composed("xor", q[k].e, tail)]
CorrelatedXor(bases, prefixes, target, w) ==
  LET ts == Triples(Len(bases)) IN FlattenSeq([i \in DOMAIN ts |-> WithPrefix(prefixes, TailOf(bases, ts[i], w), target, w)])

(* Search::consider: the next one that is smaller than the best is tried,     *)
(* until the proofs run out.                                                 *)
NewSearch(candidates) == [best |-> NoTree, rest |-> candidates]
WorthProof(b, c, e, how) ==
  TreeSize(c) < TreeSize(e) /\ TreeSize(c) <= Bounds.size /\ (b = NoTree \/ Cheaper(c, b, how))
TriedAt(a, i, e, how, w) ==
  IF i = 0 THEN [a EXCEPT !.rest = <<>>]
  ELSE [best |-> IF ProveEqual(e, a.rest[i], how, w) = "proved" THEN a.rest[i] ELSE a.best,
        rest |-> SubSeq(a.rest, i + 1, Len(a.rest))]
TryNext(a, e, how, w) == TriedAt(a, SelectInSeq(a.rest, LAMBDA c : WorthProof(a.best, c, e, how)), e, how, w)
SearchAll(candidates, e, how, w) ==
  FoldLeft(LAMBDA a, i : TryNext(a, e, how, w), NewSearch(candidates), [i \in 1 .. Bounds.proofs11 |-> i]).best

SearchGrammar(e, target, bases, pairs, sums, how, w) ==
  OrSame(SearchAll(NestedRetention(sums, bases, target) \o JoinedBitwise(sums, target)
                     \o CorrelatedXor(bases, PairXors(pairs, how), target, w), e, how, w), e)
WithSurfaces(e, bases, pairs, sums, how, w) ==
  IF Len(sums) > Bounds.sums11 THEN e ELSE SearchGrammar(e, SampledAt(e, w), bases, pairs, sums, how, w)
WithPairs(e, bases, pairs, how, w) ==
  IF Len(pairs) > Bounds.pairs11 THEN e
  ELSE WithSurfaces(e, bases, pairs, RetainCheapest(AdditiveSurfaces(bases, pairs, w), how, w), how, w)
WithBases(e, bases, how, w) ==
  IF Len(bases) > Bounds.bases11 THEN e ELSE WithPairs(e, bases, RetainCheapest(BitwisePairs(bases), how, w), how, w)
SynthesizeCarry(e, how, w) ==
  IF InFragment(e) THEN WithBases(e, RetainCheapest(BaseExpressions(e, w), how, w), how, w) ELSE e
=============================================================================
