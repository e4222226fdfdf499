------------------------------- MODULE Reduce -------------------------------
(***************************************************************************)
(* Reducer (core/src/reduce.rs): constants folded, nested operators        *)
(* flattened, exclusive or pulled out of and, and out of or, sums out of    *)
(* products, like terms collected; each at a mask of w one bits.           *)
(***************************************************************************)
EXTENDS MbaTrees

IsConst(e) == e.op = "const"
NotConst(e) == e.op # "const"
Low(n, w) == n % 2 ^ w
ConstWords(s) == LET q == SelectSeq(s, IsConst) IN [j \in DOMAIN q |-> Word(q[j].k)]

(* The constants of s under op, at w bits. *)
Folded(op, s, w) == Low(Num(Result([op |-> op, k |-> 0], ConstWords(s), <<>>)), w)

RECURSIVE Spread(_, _)
Spread(op, e) == IF e.op = op THEN FlattenSeq([j \in DOMAIN e.args |-> Spread(op, e.args[j])]) ELSE <<e>>

(* What is left of a list of operands: none, one, or several under op.       *)
OrOnly(op, s, none) == IF s = <<>> THEN none ELSE IF Len(s) = 1 THEN s[1] ELSE T(op, s)

(* distribute!: the first operand of kind inner, if any, is pulled outside. *)
FirstOf(op, s) == SelectInSeq(s, LAMBDA e : e.op = op)
DistributedAt(i, outer, inner, s) ==
  T(inner, [j \in DOMAIN s[i].args |-> T(outer, [s EXCEPT ![i] = s[i].args[j]])])
Distributed(outer, inner, s) == DistributedAt(FirstOf(inner, s), outer, inner, s)

(* remove_pairs: of each run of equal neighbours, one if the run is odd. *)
EndsOddRun(s, i) ==
  /\ i = Len(s) \/ s[i + 1] # s[i]
  /\ (i - Max({0} \cup {j \in 1 .. i : s[j] # s[i]})) % 2 = 1
Kept0(s, q) == [k \in DOMAIN q |-> s[q[k]]]
RemovePairs(s) == Kept0(s, SelectSeq([i \in DOMAIN s |-> i], LAMBDA i : EndsOddRun(s, i)))

Dedupe(s) == Sorted(Listed(Range(s)))

(* group_terms: a factor for each distinct term. *)
Term1(e) == IF e.op = "scale" THEN e.args[1] ELSE e
Factor1(e) == IF e.op = "scale" THEN e.k ELSE 1
Counts(s, w) ==
  [t \in {Term1(s[i]) : i \in DOMAIN s} |->
     Low(MapThenSumSet(LAMBDA i : Factor1(s[i]), {i \in DOMAIN s : Term1(s[i]) = t}), w)]
ScaledTerms(count) == Sorted(Listed({Scaled(count[t], t) : t \in {u \in DOMAIN count : count[u] # 0}}))
Grouped(s, w) == ScaledTerms(Counts(s, w))

RECURSIVE Reduced(_, _)

(* flatten: the operands reduced, those of the same kind opened, last first.  *)
(* Here and below a length is asked for where TLC had better have the list.  *)
Opened(parts) == IF Len(parts) = 0 THEN <<>> ELSE Reverse(FlattenSeq(parts))
Flat(op, args, w) == Opened([j \in DOMAIN args |-> Spread(op, Reduced(args[j], w))] \o <<>>)

(* The operands of a flattened list, with the constant last if it counts.    *)
Neutral(op, w) == IF op = "and" THEN 2 ^ w - 1 ELSE 0
Operands(c, s, neutral) == SelectSeq(s, NotConst) \o IF c = neutral THEN <<>> ELSE <<C(c)>>

ReduceNot(e, w) ==
  CASE e.op = "not"   -> Reduced(e.args[1], w)
    [] e.op = "const" -> C(AllOnes - e.k)
    [] e.op \in {"and", "or"} ->
         T(IF e.op = "and" THEN "or" ELSE "and",
           [j \in DOMAIN e.args |-> Reduced(T("not", <<e.args[j]>>), w)])
    [] OTHER -> T("not", <<Reduced(e, w)>>)

Multiplied(c, r, w) ==
  CASE r.op = "const" -> C(Low(c * r.k, w))
    [] r.op = "scale" -> Scaled(Low(c * r.k, w), r.args[1])
    [] r.op = "add" -> Reduced(T("add", [j \in DOMAIN r.args |-> Scaled(c, r.args[j])]), w)
    [] OTHER -> Scaled(c, r)
ReduceScale(k, e, w) ==
  CASE Low(k, w) = 0 -> Zero0
    [] Low(k, w) = 1 -> Reduced(e, w)
    [] OTHER -> Multiplied(Low(k, w), Reduced(e, w), w)

(* Of and, or: distributed over the other operator, or without repetitions.  *)
Spanned(outer, inner, s, none, w) ==
  IF FirstOf(inner, s) # 0 THEN Reduced(Distributed(outer, inner, s), w)
  ELSE OrOnly(outer, Dedupe(s), none)
ReduceLattice(op, s, w) ==
  Spanned(op, IF op = "and" THEN "xor" ELSE "and", s, IF op = "and" THEN C(AllOnes) ELSE Zero0, w)

ReduceXor(s) == OrOnly("xor", RemovePairs(s), Zero0)

(* group_terms, once more when terms were collected. *)
SumOfTerms(g, s, w) == IF Len(g) < Len(s) THEN Reduced(T("add", g), w) ELSE T("add", g)
ReduceAdd(s, w) == IF Len(s) <= 1 THEN OrOnly("add", s, Zero0) ELSE SumOfTerms(Grouped(s, w), s, w)

(* From the constants, folded, and the other operands. *)
Rebuilt(op, c, s, w) ==
  CASE op = "and" /\ c = 0 -> Zero0
    [] op = "or" \/ (op = "and" /\ c # 0) -> ReduceLattice(op, s, w)
    [] op = "xor" -> ReduceXor(s)
    [] op = "add" -> ReduceAdd(s, w)
FromConst(op, c, flat, w) == Rebuilt(op, c, Operands(c, flat, Neutral(op, w)), w)
ReduceFlat(op, flat, w) == FromConst(op, Folded(op, flat, w), flat, w)

ConstFactor(flat, w) ==
  Low(FoldLeft(LAMBDA a, e : a * (IF e.op \in {"const", "scale"} THEN e.k ELSE 1), 1, flat), w)
ProductOf(c, s, w) ==
  IF c = 0 THEN Zero0
  ELSE IF FirstOf("add", s) # 0 THEN Reduced(Scaled(c, Distributed("mul", "add", s)), w)
  ELSE IF s = <<>> THEN C(c)
  ELSE Scaled(c, OrOnly("mul", Sorted(s), Zero0))
Unscaled(s) == [j \in DOMAIN s |-> Term1(s[j])] \o <<>>
ReduceMul(flat, w) ==
  IF Len(flat) = 0 THEN C(1)
  ELSE ProductOf(ConstFactor(flat, w), Unscaled(SelectSeq(flat, NotConst)), w)

(* With dynamic masking to one bit a sum is an exclusive or, a product an and. *)
AtOneBit(op, w) == IF w > 1 THEN op ELSE IF op = "add" THEN "xor" ELSE IF op = "mul" THEN "and" ELSE op

ReducedAs(op, e, w) ==
  CASE op = "var"   -> e
    [] op = "const" -> C(Low(e.k, w))
    [] op = "not"   -> ReduceNot(e.args[1], w)
    [] op = "scale" -> ReduceScale(e.k, e.args[1], w)
    [] op = "mul"   -> ReduceMul(Flat(op, e.args, w), w)
    [] OTHER        -> ReduceFlat(op, Flat(op, e.args, w), w)
Reduced(e, w) == ReducedAs(AtOneBit(e.op, w), e, w)
-----------------------------------------------------------------------------
(* normalize_p9_expression (core/src/p9.rs): the constant factors of a        *)
(* product become a scale.                                                   *)
ScaledLow(c, e, w) ==
  CASE e.op = "const" -> C(Low(c * e.k, w))
    [] e.op = "scale" -> Scaled(Low(c * e.k, w), e.args[1])
    [] OTHER -> Scaled(Low(c, w), e)
ScaleOf(e) == IF e.op \in {"const", "scale"} THEN e.k ELSE 1
FactorsOf(e) ==
  CASE e.op = "const" -> <<>>
    [] e.op \in {"scale", "mul"} -> e.args
    [] OTHER -> <<e>>
RECURSIVE Normalized(_, _)
Normalized(e, w) ==
  LET args == [j \in DOMAIN e.args |-> Normalized(e.args[j], w)]
      c == FoldLeft(LAMBDA a, f : Low(a * ScaleOf(f), w), 1, args)
  IN CASE e.op = "const" -> C(Low(e.k, w))
       [] e.op = "scale" -> ScaledLow(e.k, args[1], w)
       [] e.op = "mul" -> ScaledLow(c, OrOnly("mul", FlattenSeq([j \in DOMAIN args |-> FactorsOf(args[j])]), C(1)), w)
       [] OTHER -> With(e, args)
=============================================================================
