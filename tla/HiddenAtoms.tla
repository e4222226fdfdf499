----------------------------- MODULE HiddenAtoms -----------------------------
(***************************************************************************)
(* The experiments on the hidden words of a scope (core/src/simplify.rs):   *)
(* words that are bitwise functions of their parents (P7b), two words that  *)
(* are complements (P7c), aliases of pairs the result suggests (P7d), sums  *)
(* of two words (P7f), and what a caller expects (P7e).  Each tries its     *)
(* relations one by one, and replaces what is proved in the result of the   *)
(* scope before it was restored.                                            *)
(***************************************************************************)
EXTENDS Lowbit

CONSTANTS
  MaxParents,  \* MAX_DIRECT_PARENTS
  MaxPairs,    \* MAX_GUIDED_ALIAS_PAIRS
  Expected     \* what callers expect: words, and functions of others

VARIABLES
  trial,      \* the experiment
  pending,    \* the relations it has still to try
  certified,  \* those it keeps, in the order in which they were proved
  work,       \* the expression they are used in
  outcome     \* simplified_after_substitution

trialVars == <<trial, pending, certified, work, outcome>>

Trials == {"direct", "complement", "aliases", "ternary", "expected"}

(* A relation: claim is zero if target is by.  One is kept in each group.    *)
Attempt(group, claim, target, by) == [group |-> group, claim |-> claim, target |-> target, by |-> by]

(* simplify_mba: the later stages of the pipeline may also see that all is    *)
(* zero where the baseline does not.                                         *)
Vanishes(e, w) == \A x \in [TreeVars(e) -> SUBSET LowBits(w)] : TreeEval(e, x) \cap LowBits(w) = {}
OrZero(r, e, w) == {r} \cup {[q EXCEPT !.e = Zero0] : q \in {p \in {r} : ~Fails(p) /\ Vanishes(e, w)}}
Simplifications(e, w) == OrZero(Baseline(e, w), e, w)

DirectAtoms(e) == Ascending(TreeVars(e) \cap HiddenIn(scope))
-----------------------------------------------------------------------------
(* finalize_hidden_trace: the kind ArithmeticDependent.                      *)
IsLowbitAnd(e, w) ==
  e.op = "and" /\ \E i, j \in DOMAIN e.args : i # j /\ Reduced(e.args[j], w) = Reduced(Neg(e.args[i]), w)
LowbitCandidate(e, w) == \E d \in Subtrees(e) : IsLowbitAnd(d, w)
StrictlyBitwise(e, w) ==
  \A d \in Subtrees(e) : d.op \in Bitwise \cup {"var"} \/ (IsConst(d) /\ BitwiseConst(d.k, w))
ArithmeticDependent(v, s) ==
  /\ DependentAtoms(v, s) # {}
  /\ ~\E e \in {AtomIn(v, s).e, Definition(v, s)} : LowbitCandidate(e, s.n)
  /\ ~StrictlyBitwise(Definition(v, s), s.n)

(* try_certify_bitwise_candidate: the function that a definition is where all *)
(* its parents are zero or all ones.                                         *)
Corner(e, words, a, w) ==
  TreeEval(e, [v \in {words[i].v : i \in DOMAIN words} |->
    IF \E i \in DOMAIN words : words[i].v = v /\ (a \div 2 ^ (i - 1)) % 2 = 1 THEN LowBits(w) ELSE {}])
    \cap LowBits(w)
Corners(words) == 0 .. 2 ^ Len(words) - 1
BooleanCube(e, words, w) == \A a \in Corners(words) : Corner(e, words, a, w) \in {{}, LowBits(w)}
FromCube(e, words, w) ==
  LET ones == Ascending({a \in Corners(words) : Corner(e, words, a, w) # {}})
  IN Reduced(OrOnly("or", [i \in DOMAIN ones |-> Minterm(words, ones[i])], Zero0), w)
DirectAttempt(v, e, words, w) ==
  IF ~BooleanCube(e, words, w) THEN <<>>
  ELSE <<Attempt(<<v>>, Reduced(Minus(e, FromCube(e, words, w)), w), v, FromCube(e, words, w))>>

(* P7b, experiment_direct_bitwise_dependencies. *)
DirectAttempts(s) ==
  LET tried == SelectSeq(DirectAtoms(s.pre), LAMBDA v :
                 ArithmeticDependent(v, s) /\ Cardinality(TreeVars(Definition(v, s))) <= MaxParents)
      Of(v) == DirectAttempt(v, Definition(v, s), Words1(TreeVars(Definition(v, s)), TRUE), s.n)
  IN FlattenSeq([i \in DOMAIN tried |-> Of(tried[i])])

(* Mutant of Complements: the constant is forgotten. *)
ComplementsTo0(d, e, w) == Reduced(T("add", <<d, e>>), w)
Complements(d, e, w) == Reduced(T("add", <<T("add", <<d, e>>), C(1)>>), w)

(* P7c, experiment_direct_complement_relation. *)
ComplementAttempts(s) ==
  LET d == DirectAtoms(s.pre) IN
  IF Len(d) # 2 THEN <<>>
  ELSE <<Attempt(<<d[2]>>, Complements(AtomIn(d[1], s).e, AtomIn(d[2], s).e, s.n), d[2], T("not", <<V(d[1])>>))>>
-----------------------------------------------------------------------------
(* P7d.  atom_contexts_in_add_term: words with the same company.             *)
Companies == <<"and", "or", "xor", "mul">>
RECURSIVE Body(_)
Body(e) == IF e.op = "scale" THEN Body(e.args[1]) ELSE e
Company(e, i, w) == <<SelectInSeq(Companies, LAMBDA op : op = e.op), Reduced(T(e.op, OtherArgs(e, i, i)), w)>>
ContextsIn(e, direct, w) ==
  IF e.op = "var" THEN {<<e.k, <<0, Zero0>>>> : v \in {e.k} \cap direct}
  ELSE IF ~Contains(Companies, e.op) THEN {}
  ELSE {<<e.args[i].k, Company(e, i, w)>> : i \in {j \in DOMAIN e.args : e.args[j].op = "var" /\ e.args[j].k \in direct}}
TermsOf(e) == IF e.op = "add" THEN e.args ELSE <<e>>
Contexts(e, direct, w) == UNION {ContextsIn(Body(t), direct, w) : t \in Range(TermsOf(e))}
EarlierContext(c, d) == c[1] < d[1] \/ (c[1] = d[1] /\ Below(c[2], d[2]))

AllPairs(q) == FlattenSeq([i \in DOMAIN q |-> [j \in 1 .. Len(q) - i |-> <<q[i], q[i + j]>>]])
ContextPairs(found) ==
  LET order == SetToSortSeq({f[2] : f \in found}, EarlierContext)
  IN FlattenSeq([i \in DOMAIN order |-> AllPairs(Ascending({f[1] : f \in {g \in found : g[2] = order[i]}}))])

(* collect_locally_copresent_pairs *)
RECURSIVE LocalPairs(_, _)
LocalPairs(e, direct) ==
  (IF Contains(Companies, e.op) THEN AllPairs(Ascending(TreeVars(e) \cap direct)) ELSE <<>>)
    \o FlattenSeq([j \in DOMAIN e.args |-> LocalPairs(e.args[j], direct)])

(* select_guided_direct_pairs *)
FirstOnly(s) == FoldLeft(LAMBDA r, p : IF Contains(r, p) THEN r ELSE Append(r, p), <<>>, s)
GuidedPairs(e, direct, w) ==
  FirstFew(FirstOnly(ContextPairs(Contexts(e, direct, w)) \o LocalPairs(e, direct)), MaxPairs)

(* What the definitions of words may be simplified to. *)
SimplifiedTo(e, w) == {IF Fails(r) THEN e ELSE r.e : r \in Simplifications(e, w)}
OneOfEach(to, vs) == {f \in [vs -> UNION {to[v] : v \in vs}] : \A v \in vs : f[v] \in to[v]}
Definitions(vs, s) == OneOfEach([v \in vs |-> SimplifiedTo(AtomIn(v, s).e, s.n)], vs)

(* Equal, Complement and ArithmeticOpposite. *)
AliasAttempts(l, r, defs, w) ==
  <<Attempt(<<l, r>>, Reduced(Minus(defs[l], defs[r]), w), r, V(l)),
    Attempt(<<l, r>>, Complements(defs[l], defs[r], w), r, T("not", <<V(l)>>)),
    Attempt(<<l, r>>, Reduced(T("add", <<defs[l], defs[r]>>), w), r, Neg(V(l)))>>
GuidedAttempts(pairs, defs, w) ==
  FlattenSeq([i \in DOMAIN pairs |-> AliasAttempts(pairs[i][1], pairs[i][2], defs, w)])
-----------------------------------------------------------------------------
(* P7f.  The words left, the most frequent first, and three of them.         *)
RECURSIVE Occurrences(_, _)
Occurrences(v, e) == IF e = V(v) THEN 1 ELSE SumOver(LAMBDA a : Occurrences(v, a), e.args)
MoreFrequent(u, v, e) ==
  Occurrences(u, e) > Occurrences(v, e) \/ (Occurrences(u, e) = Occurrences(v, e) /\ u < v)
Remaining(e) == SetToSortSeq(TreeVars(e) \cap HiddenIn(scope), LAMBDA u, v : MoreFrequent(u, v, e))

(* make_guided_ternary_relation *)
Sum3(d, e, f, w) == Reduced(T("add", <<d, e, f>>), w)
TernaryAttempts(a, b, c, defs, w) ==
  <<Attempt(<<a>>, Sum3(defs[a], Neg(defs[b]), Neg(defs[c]), w), a, Reduced(T("add", <<V(b), V(c)>>), w)),
    Attempt(<<c>>, Sum3(defs[a], defs[b], Neg(defs[c]), w), c, Reduced(T("add", <<V(a), V(b)>>), w)),
    Attempt(<<c>>, Complements(T("add", <<defs[a], defs[b]>>), defs[c], w), c, Sum3(Neg(V(a)), Neg(V(b)), C(AllOnes), w))>>
Triples3(n) ==
  IF n \notin 3 .. 4 THEN <<>>
  ELSE SetToSortSeq({t \in (1 .. n) \X (1 .. n) \X (1 .. n) : t[1] < t[2] /\ t[2] < t[3]}, Lower)
SumAttempts(q, defs, w) ==
  LET t == Triples3(Len(q))
  IN FlattenSeq([i \in DOMAIN t |-> TernaryAttempts(q[t[i][1]], q[t[i][2]], q[t[i][3]], defs, w)])
-----------------------------------------------------------------------------
(* P7e-micro, experiment_expected_bitwise_dependency, with aliases that were  *)
(* certified before.                                                         *)
Replacing(relations) ==
  [v \in {r.target : r \in Range(relations)} |->
     relations[SelectLastInSeq(relations, LAMBDA r : r.target = v)].by]
Defined(v, s, aliases) ==
  IF aliases = <<>> THEN AtomIn(v, s).e
  ELSE Expanded(Subst(Definition(v, s), Replacing(aliases)), s)
ExpectedAttempt(d, s, aliases) ==
  Attempt(<<d.target>>, Reduced(Minus(Defined(d.target, s, aliases),
                                  Expanded(Subst(d.candidate, Replacing(aliases)), s)), s.n),
          d.target, d.candidate)
-----------------------------------------------------------------------------
NoTrial == trial = "none" /\ pending = <<>> /\ certified = <<>> /\ work = NoTree /\ outcome = NoTree

Begin(name, e, attempts) ==
  /\ trial' = name /\ work' = e /\ pending' = attempts
  /\ outcome' = NoTree /\ UNCHANGED doubtful
Fresh == trial = "none" /\ scope.pre # NoTree
AfterAliases == trial = "aliases" /\ outcome # NoTree

BeginDirect == Fresh /\ Begin("direct", scope.pre, DirectAttempts(scope)) /\ certified' = <<>>
BeginComplement ==
  /\ Fresh /\ Len(DirectAtoms(scope.pre)) = 2
  /\ Begin("complement", scope.pre, ComplementAttempts(scope)) /\ certified' = <<>>
BeginAliases ==
  /\ Fresh
  /\ \E defs \in Definitions(Range(DirectAtoms(scope.pre)), scope) :
       Begin("aliases", scope.pre,
             GuidedAttempts(GuidedPairs(scope.pre, Range(DirectAtoms(scope.pre)), scope.n), defs, scope.n))
  /\ certified' = <<>>
BeginTernary ==
  /\ AfterAliases
  /\ \E defs \in Definitions(Range(Remaining(outcome)), scope) :
       Begin("ternary", outcome, SumAttempts(Remaining(outcome), defs, scope.n))
  /\ certified' = <<>>
BeginExpected ==
  /\ Fresh \/ AfterAliases
  /\ \E d \in {c \in Expected : c.target \in HiddenIn(scope)} :
       Begin("expected", scope.pre, <<ExpectedAttempt(d, scope, certified)>>)
  /\ UNCHANGED certified

Recorded1(a, r) == IsZero(r) /\ ~\E c \in Range(certified) : c.group = a.group
TryRelation ==
  /\ trial # "none" /\ pending # <<>>
  /\ pending' = Tail(pending)
  /\ \E a \in {Head(pending)} : \E r \in Simplifications(a.claim, scope.n) :
       /\ certified' = IF Recorded1(a, r) THEN Append(certified, a) ELSE certified
       /\ doubtful' = (doubtful \/ r.s.call.mixed)
  /\ UNCHANGED <<trial, work, outcome>>

(* What is proved is replaced: one after the other (P7b, P7c), the newest     *)
(* word first (P7d), or all at once.                                         *)
InTurn(e, relations) == FoldLeft(LAMBDA f, r : Subst(f, r.target :> r.by), e, relations)
ByTarget(relations, Before(_, _)) ==
  LET order == SetToSortSeq(DOMAIN relations, LAMBDA i, j : Before(<<relations[i].target, i>>, <<relations[j].target, j>>))
  IN [i \in DOMAIN order |-> relations[order[i]]]
(* Mutant of NewestFirst: the oldest word first. *)
OldestFirst(relations) == ByTarget(relations, Lower)
NewestFirst(relations) == ByTarget(relations, LAMBDA p, q : Lower(<<q[1], p[2]>>, <<p[1], q[2]>>))
Replaced(e, name, relations) ==
  CASE name \in {"direct", "complement"} -> InTurn(e, relations)
    [] name = "aliases" -> InTurn(e, NewestFirst(relations))
    [] name = "ternary" -> Subst(e, Replacing(relations))
    [] name = "expected" -> Expanded(Subst(e, Replacing(relations)), scope)
NeedsProof == trial \in {"complement", "expected"}
EndTrial ==
  /\ trial \in Trials /\ pending = <<>> /\ outcome = NoTree
  /\ ~NeedsProof \/ \E c \in Range(certified) : c.group = <<c.target>>
  /\ \E r \in Simplifications(Replaced(work, trial, certified), scope.n) :
       /\ ~Fails(r)
       /\ outcome' = r.e
       /\ doubtful' = (doubtful \/ r.s.call.mixed)
  /\ UNCHANGED <<trial, pending, certified, work>>

TrialNext ==
  \/ BeginDirect \/ BeginComplement \/ BeginAliases \/ BeginTernary \/ BeginExpected
  \/ TryRelation \/ EndTrial
-----------------------------------------------------------------------------
(* "This diagnostic does not alter the ordinary simplification path", but     *)
(* what it substitutes is certified: a relation that is kept holds of the     *)
(* hidden words on all inputs, and the result is worth, with the words that   *)
(* are left restored, what the scope's result is worth.                      *)
RelationsHold ==
  ~doubtful =>
    /\ \A c \in Range(certified) : SameIn(AtomIn(c.target, scope).e, Expanded(c.by, scope), scope.n)
    /\ outcome # NoTree => SameIn(Expanded(outcome, scope), Expanded(scope.pre, scope), scope.n)

(* P7d replaces the newest word first, so that no word taken for an older one *)
(* is left when that one is taken for a still older one.                     *)
NoAliasLeft ==
  trial = "aliases" => TreeVars(Replaced(work, trial, certified)) \cap {c.target : c \in Range(certified)} = {}
=============================================================================
