------------------------------- MODULE Closure -------------------------------
(***************************************************************************)
(* P7e (core/src/simplify.rs): production_p7e takes the first scope of the  *)
(* trace that was given the simplifier's result, and                       *)
(* experiment_bitwise_dependency_closure looks there for hidden words that  *)
(* are bitwise functions of older ones or of variables.  What samples do    *)
(* not rule out is tried in order of size and proved by the simplifier; the *)
(* proved functions replace their words, and the rest is simplified again.  *)
(***************************************************************************)
EXTENDS Simplify

CONSTANTS
  ClosurePasses,  \* P7E_LITE_CLOSURE_PASSES
  Hashed          \* the values splitmix64 gives the variables, sample by sample

VARIABLES
  phase,     \* what the closure does next
  base,      \* what the simplifier returned
  scope,
  round,
  targets,   \* round_direct_atoms still to look at
  deps,      \* the dependencies of earlier rounds
  newly,     \* and of this one
  closed,    \* simplified_after_substitution, if there was a round
  p7e,       \* what production_p7e returns
  doubtful   \* history: a proof used a solution found at another width

closureVars == <<phase, base, scope, round, targets, deps, newly, closed, p7e, doubtful>>

NoScope == NewScope(NoTree, 0)

(* The words of a scope that stand for something hidden, and for what. *)
HiddenIn(s) == {a.v : a \in Range(s.atoms)}
AtomIn(v, s) == CHOOSE a \in Range(s.atoms) : a.v = v

(* expand_scope_hidden_atoms: once, the words are not expanded in turn. *)
Expanded(e, s) == Subst(e, Expose(Range(s.atoms)))

(* finalize_hidden_trace: the definition of a word by other words, where it   *)
(* has parts that are the definitions of others.                             *)
RECURSIVE AbstractKnown(_, _, _)
AbstractKnown(e, current, atoms) ==
  LET Found == SelectInSeq(atoms, LAMBDA a : a.v # current /\ a.e = e)
  IN IF Found # 0 THEN V(atoms[Found].v)
     ELSE With(e, [j \in DOMAIN e.args |-> AbstractKnown(e.args[j], current, atoms)])
Definition(v, s) == AbstractKnown(AtomIn(v, s).e, v, s.atoms)
DependentAtoms(v, s) == TreeVars(Definition(v, s)) \cap HiddenIn(s)
-----------------------------------------------------------------------------
(* A dependency: the table of a function of words, by the inputs where it is  *)
(* one.  An input is a number, a word's bit at the word's place.             *)
WordRef(v, hidden) == [v |-> v, hidden |-> hidden]
Fn(words, table) == [words |-> words, table |-> table]
NoFn == Fn(<<>>, {-1})

Literal(v, one) == IF one THEN V(v) ELSE T("not", <<V(v)>>)
Minterm(words, a) ==
  OrOnly("and", [i \in DOMAIN words |-> Literal(words[i].v, (a \div 2 ^ (i - 1)) % 2 = 1)], NoTree)

(* synthesize_unary_bitwise_function, synthesize_binary_bitwise_function. *)
Synthesized(spec, w) ==
  LET ones == SetToSortSeq(spec.table, LAMBDA a, b : a < b)
  IN IF spec.table = 0 .. 2 ^ Len(spec.words) - 1 THEN C(2 ^ w - 1)
     ELSE OrOnly("or", [i \in DOMAIN ones |-> Minterm(spec.words, ones[i])], Zero0)

(* apply_certified_dependencies: the newest word is replaced first. *)
Applied(e, ds) ==
  FoldLeft(LAMBDA f, d : Subst(f, d.target :> d.candidate), e,
           SetToSortSeq(ds, LAMBDA c, d : c.target > d.target))
Targets(ds) == {d.target : d \in ds}
InScope(e, s, ds) == Expanded(Applied(e, ds), s)

(* canonical_bitwise_word: a word that is another is that other. *)
RECURSIVE Canonical(_, _, _)
Canonical(word, ds, met) ==
  LET same == {d \in ds : word.hidden /\ d.target = word.v /\ d.table = {1} /\ Len(d.words) = 1}
  IN IF same = {} \/ word.v \in met THEN word
     ELSE Canonical((CHOOSE d \in same : TRUE).words[1], ds, met \cup {word.v})

(* collect_p7e_parent_words: older words among those of the round, and the    *)
(* variables that are left.                                                  *)
Ascending(S) == SetToSortSeq(S, LAMBDA u, v : u < v)
Words1(S, hidden) == LET q == Ascending(S) IN [i \in DOMAIN q |-> WordRef(q[i], hidden)]
(* Mutant of Eligible: any other word will do. *)
EligibleAny(target, direct) == direct \ {target}
Eligible(target, direct) == {v \in direct : v < target}
ParentWords(target, rewritten, direct, s, ds) ==
  FoldLeft(LAMBDA found, u :
             LET c == Canonical(u, ds, {}) IN
             IF c.v = target \/ Contains(found, c) THEN found ELSE Append(found, c),
           <<>>,
           Words1(Eligible(target, direct), TRUE) \o Words1(TreeVars(rewritten) \ HiddenIn(s), FALSE))
-----------------------------------------------------------------------------
(* deterministic_root_values: six patterns, then hashed values. *)
LowBits(w) == 0 .. w - 1
Patterns(w) ==
  <<{}, LowBits(w), {0}, LowBits(w) \ {0}, {b \in LowBits(w) : b % 2 = 1}, {b \in LowBits(w) : b % 2 = 0}>>
RootValues(i, S, w) ==
  [v \in S |-> IF i <= 6 THEN Patterns(w)[i] ELSE Hashed[i - 6][v] \cap LowBits(w)]
Samples(e, w) ==
  [i \in 1 .. 6 + Len(Hashed) |-> TreeEval(e, RootValues(i, TreeVars(e), w)) \cap LowBits(w)] \o <<>>

(* infer_unary_tables, infer_binary_tables: the tables no bit of a sample     *)
(* contradicts.                                                              *)
Observed(target, parents, w) ==
  {<<MapThenSumSet(LAMBDA j : IF b \in parents[j][i] THEN 2 ^ (j - 1) ELSE 0, DOMAIN parents),
     b \in target[i]>> : i \in DOMAIN target, b \in LowBits(w)}
Consistent(observed, n) == {S \in SUBSET (0 .. 2 ^ n - 1) : \A o \in observed : (o[1] \in S) = o[2]}

(* canonical_binary_candidate: only functions of both parents are kept, with  *)
(* the parents in order, variables before hidden words.                      *)
OfBoth(S) == /\ \E a \in {0, 2} : (a \in S) # (a + 1 \in S)
             /\ \E a \in {0, 1} : (a \in S) # (a + 2 \in S)
Earlier(c, d) == (~c.hidden /\ d.hidden) \/ (c.hidden = d.hidden /\ c.v < d.v)
Swapped(S) == {(a % 2) * 2 + a \div 2 : a \in S}
InOrderSpec(l, r, S) == IF Earlier(r, l) THEN Fn(<<r, l>>, Swapped(S)) ELSE Fn(<<l, r>>, S)

(* infer_p7e_candidates, from the samples of the target and of its parents. *)
Inferred(target, parents, words, w) ==
  LET I == DOMAIN words
      all == [i \in DOMAIN target |-> LowBits(w)]
      none == [i \in DOMAIN target |-> {}]
  IN {Fn(<<>>, IF target = all THEN {0} ELSE {}) : t \in {target} \cap {all, none}}
       \cup UNION {{Fn(<<words[i]>>, S) :
                      S \in Consistent(Observed(target, <<parents[i]>>, w), 1) \cap {{0}, {1}}} : i \in I}
       \cup UNION {{InOrderSpec(words[i], words[j], S) :
                      S \in {U \in Consistent(Observed(target, <<parents[i], parents[j]>>, w), 2) : OfBoth(U)}} :
                   <<i, j>> \in {p \in I \X I : p[1] < p[2]}}

(* p7e_candidate_score: few parents first, then small and flat, then the rest. *)
RECURSIVE Depth(_)
Depth(e) == 1 + FoldLeft(LAMBDA m, a : IF Depth(a) > m THEN Depth(a) ELSE m, 0, e.args)
Score(c, w) ==
  LET e == Synthesized(c, w) IN
  <<Len(c.words), TreeSize(e), Depth(e)>>
    \o FlattenSeq([i \in DOMAIN c.words |-> <<IF c.words[i].hidden THEN 1 ELSE 0, c.words[i].v>>])
    \o <<Num(c.table)>>
Lower(p, q) == \E i \in DOMAIN p : (\A j \in 1 .. i - 1 : p[j] = q[j]) /\ p[i] < q[i]
ByScore(specs, w) == SetToSortSeq(specs, LAMBDA c, d : Lower(Score(c, w), Score(d, w)))

(* certify_p7e_candidate, for each until one is proved.                      *)
Minus(d, e) == T("add", <<d, Neg(e)>>)
IsZero(r) == ~Fails(r) /\ r.e = Zero0
Tried(acc, c, r) ==
  [found |-> IF IsZero(r) THEN c ELSE NoFn, mixed |-> acc.mixed \/ r.s.call.mixed]
FirstProved(specs, definition, s, ds) ==
  FoldLeft(LAMBDA acc, c :
             IF acc.found # NoFn THEN acc
             ELSE Tried(acc, c, Baseline(Reduced(Minus(definition, InScope(Synthesized(c, s.n), s, ds)), s.n), s.n)),
           [found |-> NoFn, mixed |-> FALSE], specs)
-----------------------------------------------------------------------------
(* The candidates for a word that is defined, without the words replaced so   *)
(* far, by definition, with parents among words.                             *)
CandidatesOf(definition, words, s, ds) ==
  ByScore(Inferred(Samples(definition, s.n),
                   [i \in DOMAIN words |-> Samples(InScope(V(words[i].v), s, ds), s.n)] \o <<>>,
                   words, s.n), s.n)
ProvedFor(definition, words, s, ds) == FirstProved(CandidatesOf(definition, words, s, ds), definition, s, ds)

Compact(target, s, ds) == Reduced(Applied(Definition(target, s), ds), s.n)
RoundAtoms(rewritten, s, ds) == (TreeVars(rewritten) \cap HiddenIn(s)) \ Targets(ds)
ProofOf(target, rewritten, s, ds) ==
  ProvedFor(InScope(Compact(target, s, ds), s, ds),
            ParentWords(target, rewritten, RoundAtoms(rewritten, s, ds), s, ds), s, ds)
Dependency(target, c, w) ==
  [target |-> target, words |-> c.words, table |-> c.table, candidate |-> Synthesized(c, w)]
-----------------------------------------------------------------------------
ClosureInit ==
  /\ phase = "idle" /\ base = NoTree /\ scope = NoScope /\ round = 0
  /\ targets = <<>> /\ deps = {} /\ newly = {} /\ closed = NoTree /\ p7e = NoTree /\ doubtful = FALSE

Give(e) == phase' = "done" /\ p7e' = e

(* The first scope of the trace that has atoms and was given e. *)
ScopesOf(e) == SelectSeq(call.trace, LAMBDA s : s.input = e /\ s.atoms # <<>>)
FindScope(e) ==
  /\ phase = "idle"
  /\ base' = e
  /\ \/ /\ ScopesOf(e) = <<>>
        /\ Give(e) /\ UNCHANGED scope
     \/ /\ ScopesOf(e) # <<>>
        /\ scope' = ScopesOf(e)[1]
        /\ phase' = "round" /\ UNCHANGED p7e
  /\ UNCHANGED <<round, targets, deps, newly, closed, doubtful>>

Rest == Applied(scope.pre, deps)
StartRound ==
  /\ phase = "round"
  /\ targets' = Ascending(RoundAtoms(Rest, scope, deps))
  /\ phase' = IF targets' = <<>> THEN "conclude" ELSE "prove"
  /\ UNCHANGED <<base, scope, round, deps, newly, closed, p7e, doubtful>>

(* A word whose definition speaks of one proved in this round has to wait. *)
Waits(target) == TreeVars(Compact(target, scope, deps)) \cap Targets(newly) # {}
ProveTarget ==
  /\ phase = "prove" /\ targets # <<>>
  /\ targets' = Tail(targets)
  /\ \/ Waits(Head(targets)) /\ UNCHANGED <<newly, doubtful>>
     \/ /\ ~Waits(Head(targets))
        /\ \E r \in {ProofOf(Head(targets), Rest, scope, deps)} :
             /\ newly' = newly \cup {Dependency(Head(targets), c, scope.n) : c \in {r.found} \ {NoFn}}
             /\ doubtful' = (doubtful \/ r.mixed)
  /\ UNCHANGED <<phase, base, scope, round, deps, closed, p7e>>

(* The words replaced, the rest restored and simplified; an error gives up    *)
(* the whole closure.                                                        *)
Substituted(ds) == Baseline(InScope(scope.pre, scope, ds), scope.n)
EndRound ==
  /\ phase = "prove" /\ targets = <<>>
  /\ newly' = {} /\ deps' = deps \cup newly
  /\ \/ newly = {} /\ phase' = "conclude" /\ UNCHANGED <<round, closed, p7e, doubtful>>
     \/ /\ newly # {}
        /\ round' = round + 1
        /\ \E r \in {Substituted(deps')} :
             /\ doubtful' = (doubtful \/ r.s.call.mixed)
             /\ IF Fails(r) THEN Give(base) /\ UNCHANGED closed
                ELSE /\ closed' = r.e /\ UNCHANGED p7e
                     /\ phase' = IF r.e = Zero0 \/ round' = ClosurePasses THEN "conclude" ELSE "round"
  /\ UNCHANGED <<base, scope, targets>>

Conclude ==
  /\ phase = "conclude"
  /\ \/ closed # NoTree /\ Give(closed) /\ UNCHANGED doubtful
     \/ /\ closed = NoTree
        /\ \E r \in {Substituted(deps)} :
             /\ Give(IF Fails(r) THEN base ELSE r.e)
             /\ doubtful' = (doubtful \/ r.s.call.mixed)
  /\ UNCHANGED <<base, scope, round, targets, deps, newly, closed>>

ClosureNext == StartRound \/ ProveTarget \/ EndRound \/ Conclude
-----------------------------------------------------------------------------
(* "A unary or binary bitwise dependency proved exactly": a proved word has,  *)
(* on all inputs, the value of the function of its parents; "Hidden           *)
(* dependencies only point to older atoms, which makes cycles impossible",    *)
(* also for a word taken for the older one that it equals; and so one pass,   *)
(* the newest word first, leaves none of the proved words in the result.      *)
SameIn(d, e, w) ==
  \A i \in InputNumbers : TreeEval(d, Input(i)) \cap LowBits(w) = TreeEval(e, Input(i)) \cap LowBits(w)
DependenciesHold ==
  LET found == deps \cup newly IN
  /\ \A d \in found :
       /\ ~doubtful => SameIn(AtomIn(d.target, scope).e, InScope(d.candidate, scope, {}), scope.n)
       /\ \A j \in DOMAIN d.words : d.words[j].hidden => d.words[j].v < d.target
  /\ found # {} => TreeVars(Applied(scope.pre, found)) \cap Targets(found) = {}
=============================================================================
