------------------------------- MODULE Lowbit -------------------------------
(***************************************************************************)
(* P8 (core/src/p8.rs): conjunctions of a word and a negated one.  A word   *)
(* that is part of another absorbs it (P8a), the negation of a word under a *)
(* mask that is zero up to its lowest one is a difference (P8b), and what   *)
(* is zero there has nothing in common with the lowest one (P8c).          *)
(***************************************************************************)
EXTENDS Closure

CONSTANTS
  MaxAnchors,  \* MAX_ANCHORS
  MaxNodes8,   \* MAX_NODES
  MaxBases     \* words an operand is compared with

(* RelativeDivisibility: what is known of the lowest one of an expression,    *)
(* next to that of the anchor.                                               *)
NoRelation == 0
AtLeastLowBit == 1
AboveLowBit == 2

(* is_arithmetic_negation *)
Negates(d, e, w) == Reduced(T("add", <<d, e>>), w) = Zero0

(* DivisibilityAnalyzer::analyze, from what is known of the operands.        *)
FromOperands(e, known, w) ==
  CASE e.op = "scale" -> IF Low(e.k, w) % 2 = 0 /\ AtLeastLowBit \in known THEN AboveLowBit ELSE Max(known)
    [] e.op \in {"add", "or", "xor"} -> Min(known)
    [] e.op \in {"and", "mul"} -> Max(known)
    [] OTHER -> NoRelation
RECURSIVE Divisibility(_, _, _)
Relation(a, e, w) ==
  IF e = Zero0 THEN AboveLowBit
  ELSE IF e = a \/ Negates(e, a, w) THEN AtLeastLowBit
  ELSE FromOperands(e, {Divisibility(a, e.args[j], w) : j \in DOMAIN e.args}, w)
Divisibility(a, e, w) == Relation(Reduced(a, w), Reduced(e, w), w)
-----------------------------------------------------------------------------
(* P8a.  A WordTerm is the expression that to_expr gives: a variable, a       *)
(* constant, a power of two times a word, a union of two words in order, or   *)
(* the negation of one.                                                      *)
UnionOf(t, u) == T("or", IF Below(u, t) THEN <<u, t>> ELSE <<t, u>>)
IsNegation(t) == t.op = "scale" /\ t.k = AllOnes

(* parse_word_term *)
ScaledWord(k, t, w) ==
  IF t = NoTree \/ k = 1 THEN t
  ELSE IF k = 2 ^ w - 1 THEN Neg(t)
  ELSE IF k \in {2 ^ b : b \in 1 .. w - 1} THEN Tree("scale", k, <<t>>) ELSE NoTree
United(words) ==
  IF Contains(words, NoTree) THEN NoTree ELSE FoldLeft(UnionOf, words[1], Tail(words))
RECURSIVE Parsed(_, _)
Parsed(e, w) ==
  CASE e.op = "var"   -> e
    [] e.op = "const" -> C(Low(e.k, w))
    [] e.op = "scale" -> ScaledWord(Low(e.k, w), Parsed(e.args[1], w), w)
    [] e.op = "or"    -> United([j \in DOMAIN e.args |-> Parsed(e.args[j], w)] \o <<>>)
    [] OTHER -> NoTree

(* valuation: the place of the lowest one, from those of the variables, w if  *)
(* there is none.  It is not known of a negation.                            *)
RECURSIVE Subtrees(_)
Subtrees(e) == {e} \cup UNION {Subtrees(e.args[j]) : j \in DOMAIN e.args}
LowestOne(k, w) == Min({w} \cup {b \in 0 .. w - 1 : (k \div 2 ^ b) % 2 = 1})
RECURSIVE Valuation(_, _, _)
Valuation(t, x, w) ==
  CASE t.op = "var"   -> x[t.k]
    [] t.op = "const" -> LowestOne(t.k, w)
    [] t.op = "scale" -> Min({w, LowestOne(t.k, w) + Valuation(t.args[1], x, w)})
    [] t.op = "or"    -> Min({Valuation(t.args[j], x, w) : j \in DOMAIN t.args})
ValuationsEqual(t, u, w) ==
  /\ ~\E s \in Subtrees(t) \cup Subtrees(u) : IsNegation(s)
  /\ \A x \in [TreeVars(t) \cup TreeVars(u) -> 0 .. w] : Valuation(t, x, w) = Valuation(u, x, w)

(* SubmaskDomain: <<t, u>> says that t is part of u. *)
Inferred8(facts, terms, w) ==
  LET found == facts \cup UNION {{<<u.args[1], u>>, <<u.args[2], u>>} : u \in {t \in terms : t.op = "or"}}
  IN found \cup {<<Neg(f[2]), Neg(f[1])>> : f \in {g \in found : ValuationsEqual(g[1], g[2], w)}}
Saturated(terms, w) == Inferred8(Inferred8({}, terms, w), terms, w)
Facts(t, u, w) == Saturated(Subtrees(t) \cup Subtrees(u), w)

(* observations_match: all variables at one of four words, then hashed words. *)
Observations(w) == {{}, 0 .. w - 1, {0}, 1 .. w - 1}
ObservationsMatch(d, e, w) ==
  LET S == TreeVars(d) \cup TreeVars(e) IN
  \A x \in {[v \in S |-> o] : o \in Observations(w)} \cup {[v \in S |-> Hashed[i][v]] : i \in DOMAIN Hashed} :
    TreeEval(d, x) \cap (0 .. w - 1) = TreeEval(e, x) \cap (0 .. w - 1)

(* normalize_word_operand: what is not a word itself may be the union, or the *)
(* negated union, of two words in it.                                        *)
LessWord(t, u) == TreeSize(t) < TreeSize(u) \/ (TreeSize(t) = TreeSize(u) /\ Below(t, u))
BasesOf(e, w) == SetToSortSeq({Parsed(d, w) : d \in Subtrees(e)} \ {NoTree}, LessWord)
WordPairs(bases) ==
  FlattenSeq([i \in DOMAIN bases |->
    FlattenSeq([j \in 1 .. Len(bases) - i |->
      <<UnionOf(bases[i], bases[i + j]), Neg(UnionOf(bases[i], bases[i + j]))>>])])
Simplified0(e, w) == IsZero(Baseline(e, w))
IsWord(e, t, w) == ObservationsMatch(e, t, w) /\ Simplified0(T("add", <<e, Neg(t)>>), w)
WordAt(words, i) == IF i = 0 THEN NoTree ELSE words[i]
FirstWord(e, words, w) == WordAt(words, SelectInSeq(words, LAMBDA t : IsWord(e, t, w)))
FirstFew(s, n) == SubSeq(s, 1, Min({n, Len(s)}))
WordOperand(e, w) ==
  IF Parsed(e, w) # NoTree THEN Parsed(e, w)
  ELSE FirstWord(e, WordPairs(FirstFew(BasesOf(e, w), MaxBases)), w)

(* rewrite_submask_ands; simplify_and *)
Absorption(t, u, facts, e) ==
  IF <<t, u>> \in facts THEN t ELSE IF <<u, t>> \in facts THEN u ELSE e
AbsorbedWords(t, u, e, w) == IF NoTree \in {t, u} THEN e ELSE Absorption(t, u, Facts(t, u, w), e)
AbsorbedAt(e, w) ==
  IF e.op = "and" /\ Len(e.args) = 2
  THEN AbsorbedWords(WordOperand(e.args[1], w), WordOperand(e.args[2], w), e, w) ELSE e
RECURSIVE Absorbed(_, _)
Absorbed(e, w) == AbsorbedAt(With(e, [j \in DOMAIN e.args |-> Absorbed(e.args[j], w)]), w)

(* What a pass returns: what it rewrote, if anything, simplified, if that is  *)
(* smaller.                                                                  *)
Improves(e, original) == e = Zero0 \/ TreeSize(e) < TreeSize(original)
Bettered(r, original) == IF ~Fails(r) /\ Improves(r.e, original) THEN r ELSE [r EXCEPT !.e = original]
AfterRewrite(rewritten, original, w) ==
  IF rewritten = NoTree THEN Answer(original, [err |-> "none", call |-> NewCall])
  ELSE Bettered(Baseline(rewritten, w), original)
IfOther(f, e) == IF f = e THEN NoTree ELSE f
AnalyzeSubmask(e, w) == AfterRewrite(IfOther(Absorbed(e, w), e), e, w)
-----------------------------------------------------------------------------
(* P8b.  collect_conjunctive_arithmetic: what is left of a word outside       *)
(* another is a difference.                                                  *)
WithoutPart(e, i) == T("add", <<e.args[3 - i], Neg(T("and", <<e.args[3 - i], e.args[i].args[1]>>))>>)
DifferenceAt(e) ==
  IF e.op # "and" \/ Len(e.args) # 2 THEN e
  ELSE IF e.args[2].op = "not" THEN WithoutPart(e, 2)
  ELSE IF e.args[1].op = "not" THEN WithoutPart(e, 1) ELSE e
RECURSIVE Collected(_, _)
Collected(e, w) == Reduced(DifferenceAt(With(e, [j \in DOMAIN e.args |-> Collected(e.args[j], w)])), w)

(* The operand of a conjunction that is masked when the other is -v.         *)
MaskOf(e, v, w) ==
  IF Negates(e.args[1], V(v), w) THEN e.args[2]
  ELSE IF Negates(e.args[2], V(v), w) THEN e.args[1] ELSE NoTree
MaskedAnchors(e, vs, w) ==
  IF e.op = "and" /\ Len(e.args) = 2 THEN {v \in vs : MaskOf(e, v, w) # NoTree} ELSE {}
ContainsMaskedNegation(e, vs, w) == \E d \in Subtrees(e) : MaskedAnchors(d, vs, w) # {}

(* normalize_masked_negation_once: the first anchor that will do.            *)
Provable(e, vs, w) ==
  {v \in MaskedAnchors(e, vs, w) : Divisibility(V(v), MaskOf(e, v, w), w) = AboveLowBit}
Difference(m, v, w) == Reduced(T("add", <<m, Neg(T("and", <<m, V(v)>>))>>), w)
WithoutMask(e, fit, w) == IF fit = {} THEN e ELSE Difference(MaskOf(e, Min(fit), w), Min(fit), w)
UnmaskedAt(e, vs, w) == WithoutMask(e, Provable(e, vs, w), w)
RECURSIVE Unmasked(_, _, _)
Unmasked(e, vs, w) == UnmaskedAt(With(e, [j \in DOMAIN e.args |-> Unmasked(e.args[j], vs, w)]), vs, w)

(* Two passes, if the first changes anything.                               *)
TwiceUnmasked(e, once, vs, w) ==
  IF once = e THEN NoTree ELSE Reduced(Unmasked(Reduced(once, w), vs, w), w)
UnmaskedFrom(e, vs, w) ==
  IF ContainsMaskedNegation(e, vs, w) THEN TwiceUnmasked(e, Unmasked(e, vs, w), vs, w) ELSE NoTree
NormalizeMaskedNegations(e, w) ==
  AfterRewrite(IF TreeSize(e) > MaxNodes8 \/ Cardinality(TreeVars(e)) > MaxAnchors THEN NoTree
               ELSE UnmaskedFrom(Collected(e, w), TreeVars(e), w), e, w)
-----------------------------------------------------------------------------
(* P8c.  rewrite_lowbit_above: two operands that are negations of each other  *)
(* leave the lowest one; the others are zero there.                          *)
Others(e, i, j) == SelectSeq([k \in DOMAIN e.args |-> k], LAMBDA k : k \notin {i, j})
OtherArgs(e, i, j) == LET q == Others(e, i, j) IN [k \in DOMAIN q |-> e.args[q[k]]]
(* Mutant of Disjoint: at or above the lowest one will do. *)
DisjointAtLeast(a, s, w) == s # <<>> /\ Divisibility(a, OrOnly("and", s, NoTree), w) >= AtLeastLowBit
Disjoint(a, s, w) == s # <<>> /\ Divisibility(a, OrOnly("and", s, NoTree), w) = AboveLowBit
Selections(e, w) ==
  {i \in DOMAIN e.args : \E j \in i + 1 .. Len(e.args) :
     Negates(e.args[i], e.args[j], w) /\ Disjoint(e.args[i], OtherArgs(e, i, j), w)}
SelectedAt(e, w) == IF e.op = "and" /\ Selections(e, w) # {} THEN Zero0 ELSE e
RECURSIVE Selected(_, _)
Selected(e, w) == SelectedAt(With(e, [j \in DOMAIN e.args |-> Selected(e.args[j], w)]), w)
TwiceSelected(e, once, w) ==
  IF once = e THEN NoTree ELSE Reduced(Selected(Reduced(once, w), w), w)
SelectedFrom(e, w) == TwiceSelected(e, Selected(e, w), w)
SelectLowbitAbove(e, w) ==
  AfterRewrite(IF TreeSize(e) > MaxNodes8 THEN NoTree ELSE SelectedFrom(Reduced(e, w), w), e, w)
=============================================================================
