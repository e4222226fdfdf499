------------------------------- MODULE Solver -------------------------------
(***************************************************************************)
(* MBASolver (core/src/simplify.rs).  An expression becomes a polynomial in *)
(* bitwise functions, with what is not bitwise solved on its own and hidden *)
(* behind a variable; the polynomial becomes a linear expression over one   *)
(* copy of the variables for each factor, is solved from its signature,     *)
(* and is taken back.                                                       *)
(*                                                                         *)
(* A solver's state s: its width n, the next free variable t, the degree,   *)
(* the hidden expressions in order, its error, its scope, and what it       *)
(* shares with the other solvers of the call: the cache, whether a solution *)
(* in it was found at another width than it was used at, and the trace, a   *)
(* scope for each solver in the order in which they began.                  *)
(***************************************************************************)
EXTENDS Reduce

CONSTANTS
  MaxVars,      \* MAX_VARS
  BitwiseVars   \* variables up to which a sum is tried as a bitwise function

NoTree == T("none", <<>>)
Answer(e, s) == [e |-> e, s |-> s]
Fails(r) == r.s.err # "none"
Fail(e, s, why) == Answer(e, [s EXCEPT !.err = why])

(* The operator ?: what follows, unless a failed. *)
Then(a, F(_, _)) == IF Fails(a) THEN a ELSE F(a.e, a.s)

(* F on each term of a list in turn, until one fails. *)
Sweep(terms, s, F(_, _)) ==
  LET Joined(r, c) == [e |-> Append(r.e, c.e), s |-> c.s]
      Next(r, c) == IF Fails(r) THEN r ELSE Joined(r, F(c, r.s))
  IN FoldLeft(Next, Answer(<<>>, s), terms)

(* Expr::try_map. *)
Over(e, s, F(_, _)) == Then(Sweep(e.args, s, F), LAMBDA r, q : Answer(With(e, r), q))

(* F on the operands of e if its operator is op, on e itself if not. *)
Within(op, e, s, F(_, _)) ==
  Then(Sweep(IF e.op = op THEN e.args ELSE <<e>>, s, F),
       LAMBDA r, q : Answer(IF e.op = op THEN With(e, r) ELSE r[1], q))
-----------------------------------------------------------------------------
(* conjunction_sum_from_signature over the variables 0 .. t - 1. *)
SumOf(sig, t, w) ==
  LET c == Coefficients(sig, w)
      Ids(j) == SelectSeq([i \in 1 .. t |-> i - 1], LAMBDA v : (j \div 2 ^ v) % 2 = 1)
      Coefficient(j) == c[Range(Ids(j))]
      Of(j) == IF j = 0 THEN C(Coefficient(j))
               ELSE Scaled(Coefficient(j), T("and", [i \in DOMAIN Ids(j) |-> V(Ids(j)[i])]))
      terms == SelectSeq([j \in 1 .. 2 ^ t |-> j - 1], LAMBDA j : Coefficient(j) # 0)
  IN OrOnly("add", [i \in DOMAIN terms |-> Of(terms[i])], Zero0)

(* reduce_vars and restore_vars: variables are numbered as they occur. *)
Numbering(e) == LET o == Occurring(e) IN [v \in Range(o) |-> V(SelectInSeq(o, LAMBDA u : u = v) - 1)]

(* Mutant of Naming: variables are counted from one. *)
NamingFromOne(e) == LET o == Occurring(e) IN [i \in DOMAIN o |-> V(o[i])]
Naming(e) == LET o == Occurring(e) IN [i \in 0 .. Len(o) - 1 |-> V(o[i + 1])]

(* solve_linear, with the cache the solvers of a call share. *)
Insert(key, e, s) == Answer(e, [s EXCEPT !.call.cache = (key :> [e |-> e, n |-> s.n]) @@ @])
Solution(key, t, s) ==
  LET cache == s.call.cache IN
  IF key \in DOMAIN cache
  THEN Answer(cache[key].e, [s EXCEPT !.call.mixed = @ \/ cache[key].n # s.n])
  ELSE IF t > MaxVars THEN Fail(key, s, "too many variables")
  ELSE Insert(key, SumOf(TreeSignature(key, 0 .. t - 1, s.n), t, s.n), s)

Restored(e, name, s) ==
  IF TreeVars(e) \subseteq DOMAIN name THEN Answer(Subst(e, name), s)
  ELSE Fail(e, s, "unknown variable")
SolveLinear(e, s) ==
  Then(Solution(Subst(e, Numbering(e)), Len(Occurring(e)), s),
       LAMBDA f, q : Restored(f, Naming(e), q))
-----------------------------------------------------------------------------
Sign(odd) == IF odd THEN AllOnes ELSE 1

(* poly_to_linear: factor i of a product speaks of the i-th copy of the variables. *)
RECURSIVE PolyToLinear(_, _, _)
PolyToLinear(e, copy, s) ==
  CASE e.op = "var" -> V((copy - 1) * s.t + e.k)
    [] e.op = "mul" ->
         Scaled(Sign((s.degree - Len(e.args)) % 2 = 1),
                T("and", [i \in DOMAIN e.args |-> PolyToLinear(e.args[i], copy + i, s)]))
    [] e.op = "const" ->
         IF copy # 0 THEN e ELSE C(Low(Sign(s.degree % 2 = 0) * e.k, MachineBits))
    [] OTHER -> With(e, [i \in DOMAIN e.args |-> PolyToLinear(e.args[i], copy, s)])

(* linear_to_poly: the variables of one copy are a factor again. *)
RECURSIVE LinearToPoly(_, _)
LinearToPoly(e, s) ==
  LET Of(d) == SelectSeq(e.args, LAMBDA v : v.k \div s.t = d)
      copies == SelectSeq([d \in 1 .. s.degree |-> d - 1], LAMBDA d : Of(d) # <<>>)
      Factor(d) == T("and", [j \in DOMAIN Of(d) |-> V(Of(d)[j].k % s.t)])
  IN CASE e.op = "and" ->
            IF \E j \in DOMAIN e.args : e.args[j].op # "var" THEN Fail(e, s, "unrecognized form")
            ELSE Answer(Scaled(Sign((s.degree - Len(copies)) % 2 = 1),
                               T("mul", [i \in DOMAIN copies |-> Factor(copies[i])])), s)
       [] e.op \in {"add", "scale"} -> Over(e, s, LinearToPoly)
       [] e.op = "var" -> Answer(Scaled(Sign(s.degree % 2 = 0), V(e.k % s.t)), s)
       [] e.op = "const" -> Answer(Scaled(Sign(s.degree % 2 = 0), e), s)
       [] OTHER -> Fail(e, s, "unrecognized form")

SolvePolynomial(e, s) ==
  IF s.degree = 1 THEN SolveLinear(e, s)
  ELSE Then(SolveLinear(PolyToLinear(e, 0, s), s), LAMBDA l, q :
         Then(LinearToPoly(l, q), LAMBDA p, r : Answer(Reduced(p, s.n), r)))
-----------------------------------------------------------------------------
(* find_lambda_int: the multiple of y to take from x so that every entry is a *)
(* or b and the first is a.  Where two would do, the one that gives a at the  *)
(* last entry that y changes.                                                *)
AsSigned(n, w) == IF n < 2 ^ (w - 1) THEN n ELSE n - 2 ^ w
FindLambda(x, y, a, b, w) ==
  LET Less(i, m) == AsSigned(x[i], w) - m * AsSigned(y[i], w)
      fits == {m \in -(2 ^ w) .. 2 ^ w : \A i \in DOMAIN x : Less(i, m) \in {a, b}}
      changed == {i \in DOMAIN x : y[i] # 0}
      good == {m \in fits : Less(1, m) = a}
      first == {m \in good : Less(Max(changed), m) = a}
  IN {m % 2 ^ w : m \in IF changed = {} THEN fits \cap {0} ELSE IF first # {} THEN first ELSE good}

BitwiseConst(k, w) == Low(k, w) \in {0, 2 ^ w - 1}
RECURSIVE IsBitwise(_, _)
IsBitwise(e, w) ==
  CASE e.op = "const" -> BitwiseConst(e.k, w)
    [] e.op = "var"   -> TRUE
    [] e.op \in {"not", "and", "or", "xor"} -> \A i \in DOMAIN e.args : IsBitwise(e.args[i], w)
    [] OTHER -> FALSE
IsLinear(e, w) ==
  LET Part(p) == IsConst(p) \/ IsBitwise(IF p.op = "scale" THEN p.args[1] ELSE p, w)
  IN IF e.op = "add" THEN \A i \in DOMAIN e.args : Part(e.args[i]) ELSE Part(e)

(* The signature of e as a list, over the variables of f as they occur. *)
Table(e, f, w) ==
  LET o == Occurring(f)
      sig == TreeSignature(e, Range(o), w)
  IN [j \in 1 .. 2 ^ Len(o) |-> sig[{o[i] : i \in {i \in DOMAIN o : ((j - 1) \div 2 ^ (i - 1)) % 2 = 1}}]]

(* variable_substitution: with one hidden variable, a multiple of the zero it *)
(* makes with its own expression may leave a bitwise function.               *)
Multiples(x, y, w) ==
  LET up == FindLambda(x, y, 0, 1, w)
  IN IF up # {} THEN up ELSE FindLambda(x, y, -1, -2, w)
LessZero(e, zero, s) ==
  LET f == T("add", <<e, zero>>)
  IN {T("add", <<e, Neg(Scaled(m, zero))>>) :
        m \in Multiples(Table(e, f, s.n), Table(zero, f, s.n), s.n)}
Substitutions(e, s) ==
  LET hiding == {h \in Range(s.hidden) : h.v \in TreeVars(e)}
  IN IF Cardinality(hiding) # 1 THEN {}
     ELSE UNION {LessZero(e, T("add", <<V(h.v), Neg(h.e)>>), s) : h \in {g \in hiding : IsLinear(g.e, s.n)}}

(* Mutant of BitwiseSignature: where an entry is zero does not matter. *)
BitwiseSignatureAnywhere(sig, w) ==
  LET top == 2 ^ w - 1 IN
  (\A S \in DOMAIN sig : sig[S] \in {0, 1}) \/ \A S \in DOMAIN sig : sig[S] \in {top, top - 1}

(* is_signature_bitwise: entries 0 and 1 from 0, or -1 and -2 from -1. *)
BitwiseSignature(sig, w) ==
  LET top == 2 ^ w - 1 IN
  \/ sig[{}] = 0 /\ \A S \in DOMAIN sig : sig[S] \in {0, 1}
  \/ sig[{}] = top /\ \A S \in DOMAIN sig : sig[S] \in {top, top - 1}

(* is_linear_bitwise: what may stand for the sum e as a bitwise function. *)
AsBitwise(e, s, w) ==
  IF Cardinality(TreeVars(e)) > BitwiseVars THEN {}
  ELSE IF BitwiseSignature(TreeSignature(e, TreeVars(e), w), w) THEN {e}
  ELSE Substitutions(e, s)

(* Dynamic masking: each constant that is all ones at its low end, in turn,   *)
(* narrows the mask.                                                         *)
Narrowed(args, w) ==
  FoldLeft(LAMBDA m, e :
             IF IsConst(e) /\ \E j \in 0 .. m : Low(e.k, m) = 2 ^ j - 1
             THEN CHOOSE j \in 0 .. m : Low(e.k, m) = 2 ^ j - 1 ELSE m,
           w, args)

RECURSIVE SolveAt(_, _, _)

(* hide_in_var *)
Behind(e, s) == SelectInSeq(s.hidden, LAMBDA h : h.e = e)
Variable(e, note, original, s) ==
  IF Behind(e, s) # 0 THEN Answer(V(s.hidden[Behind(e, s)].v), s)
  ELSE IF Behind(note, s) # 0 THEN Answer(T("not", <<V(s.hidden[Behind(note, s)].v)>>), s)
  ELSE Answer(V(s.t), [s EXCEPT !.t = @ + 1,
                                !.hidden = Append(@, [v |-> s.t, e |-> e, original |-> original])])
Nested(r, s, w) == Answer(Reduced(r.e, w), [s EXCEPT !.call = r.s.call, !.err = r.s.err])
Hide(e, s, w) ==
  Then(IF IsConst(e) THEN Answer(e, s) ELSE Nested(SolveAt(e, w, s.call), s, w),
       LAMBDA f, q : Variable(f, Reduced(T("add", <<Neg(f), Neg(C(1))>>), w), e, q))

RECURSIVE MakeBitwise(_, _, _)

(* make_linear: sums of constants and of multiples of bitwise functions. *)
MakeScaledBitwise(e, s, w) ==
  IF IsConst(e) THEN Answer(e, s)
  ELSE Within("scale", e, s, LAMBDA c, q : MakeBitwise(c, q, w))
MakeLinear(e, s, w) == Within("add", e, s, LAMBDA c, q : MakeScaledBitwise(c, q, w))

(* What e is as a bitwise function, if it is one: MakeBitwise hides the rest. *)
Chosen(found) == IF found = {} THEN NoTree ELSE CHOOSE f \in found : TRUE
AsIs(e, s, w) ==
  CASE e.op = "var" -> Answer(e, s)
    [] e.op = "const" -> Answer(IF Low(e.k, w) \in {0, 2 ^ s.n - 1} THEN e ELSE NoTree, s)
    [] e.op = "and" /\ w = 0 -> Answer(Zero0, s)
    [] e.op \in {"not", "or", "xor", "and"} /\ w # 0 -> Over(e, s, LAMBDA c, q : MakeBitwise(c, q, w))
    [] e.op \in {"add", "scale"} ->
         Then(Over(e, s, LAMBDA c, q : MakeLinear(c, q, w)),
              LAMBDA l, q : Answer(Chosen(AsBitwise(l, q, w)), q))
    [] e.op = "mul" -> Answer(NoTree, s)
MakeBitwise(e, s, w) ==
  Then(AsIs(e, s, IF e.op = "and" THEN Narrowed(e.args, w) ELSE w),
       LAMBDA f, q : IF f = NoTree THEN Hide(e, q, w) ELSE Answer(f, q))

Wide(e, s) == MakeBitwise(e, s, s.n)
MakeProduct(e, s) ==
  LET degree == IF e.op = "mul" /\ Len(e.args) > s.degree THEN Len(e.args) ELSE s.degree
  IN Then(Within("mul", e, [s EXCEPT !.degree = degree], Wide),
          LAMBDA p, q : Answer(IF e.op = "mul" THEN p ELSE T("mul", <<p>>), q))
MakeScaledProduct(e, s) == IF IsConst(e) THEN Answer(e, s) ELSE Within("scale", e, s, MakeProduct)
MakePolynomial(e, s) == Within("add", e, s, MakeScaledProduct)

(* The trace: what each solver of the call was given, at which width, what it *)
(* found before it put the hidden expressions back, and those (its atoms).   *)
NewScope(e, n) == [input |-> e, n |-> n, pre |-> NoTree, atoms |-> <<>>]
Recorded(p, s) ==
  [s EXCEPT !.call.trace[s.scope] = [@ EXCEPT !.pre = p, !.atoms = s.hidden]]

(* simplify_mba_inner: a solver of its own at n bits, in the call it shares.  *)
NewCall == [cache |-> <<>>, mixed |-> FALSE, trace |-> <<>>]
Largest(vs) == FoldLeft(LAMBDA m, v : IF v > m THEN v ELSE m, 0, vs)
Expose(hidden) == [v \in {h.v : h \in hidden} |-> (CHOOSE h \in hidden : h.v = v).e]
Restore(p, s) ==
  IF s.hidden = <<>> THEN Answer(p, s)
  ELSE Answer(Reduced(Subst(p, Expose(Range(s.hidden))), s.n), s)
SolveAt(e, n, call) ==
  LET fresh == [n |-> n, t |-> Largest(Occurring(e)) + 1, degree |-> 1, hidden |-> <<>>,
                err |-> "none", scope |-> Len(call.trace) + 1,
                call |-> [call EXCEPT !.trace = Append(@, NewScope(e, n))]]
  IN Then(MakePolynomial(Reduced(e, n), fresh), LAMBDA m, s :
       Then(SolvePolynomial(m, s), LAMBDA p, q : Restore(p, Recorded(p, q))))
=============================================================================
