------------------------------ MODULE MbaTerms ------------------------------
(***************************************************************************)
(* Expressions (core/src/expr.rs) with shared subexpressions, as P9 interns *)
(* them: a sequence of nodes, each after its children, and the root, by    *)
(* which all are used.                                                     *)
(* [op, k, of]: k is the variable, the constant or the coefficient, of the *)
(* positions of the children.  A word is the set of its one bits.          *)
(***************************************************************************)
EXTENDS Integers, Sequences, FiniteSetsExt, SequencesExt

CONSTANT Width   \* bits of a word

ASSUME WidthAssumption == Width \in Nat \ {0}

Bits == 0 .. Width - 1
Words == SUBSET Bits
Num(word) == SumFunction([b \in word |-> 2 ^ b])
Word(n) == {b \in Bits : (n \div 2 ^ b) % 2 = 1}

Node(op, k, of) == [op |-> op, k |-> k, of |-> of]
Listed(S) == FoldSet(LAMBDA e, s : Append(s, e), <<>>, S)
SumOver(f(_), of) == SumFunction([j \in DOMAIN of |-> f(of[j])])

Ops == {"var", "const", "not", "and", "or", "xor", "add", "scale", "mul"}
Nodes == [op : Ops, k : Int, of : Seq(Nat)]
ChildrenFirst(nodes) ==
  \A i \in DOMAIN nodes :
    /\ \A j \in DOMAIN nodes[i].of : nodes[i].of[j] \in 1 .. i - 1
    /\ nodes[i].op \in {"not", "scale"} => Len(nodes[i].of) = 1
WellFormed(e) == e.nodes \in Seq(Nodes) /\ ChildrenFirst(e.nodes) /\ e.root \in DOMAIN e.nodes

(* Expr::eval at a node, of which words gives those of the children.         *)
Product(words) == FoldLeft(LAMBDA a, w : a * Num(w), 1, words)
Result(n, words, x) ==
  LET I == DOMAIN words IN
  CASE n.op = "var"   -> x[n.k]
    [] n.op = "const" -> Word(n.k)
    [] n.op = "not"   -> Bits \ words[1]
    [] n.op = "and"   -> {b \in Bits : \A j \in I : b \in words[j]}
    [] n.op = "or"    -> {b \in Bits : \E j \in I : b \in words[j]}
    [] n.op = "xor"   -> {b \in Bits : Cardinality({j \in I : b \in words[j]}) % 2 = 1}
    [] n.op = "add"   -> Word(SumOver(Num, words))
    [] n.op = "scale" -> Word(n.k * Num(words[1]))
    [] n.op = "mul"   -> Word(Product(words))

(* The words of all nodes, x giving those of the variables.                  *)
Values(nodes, x) ==
  LET v[i \in DOMAIN nodes] ==
        LET of == nodes[i].of IN Result(nodes[i], [j \in DOMAIN of |-> v[of[j]]], x)
  IN v
Eval(e, x) == Values(e.nodes, x)[e.root]

Size(e) ==
  LET size[i \in DOMAIN e.nodes] == 1 + SumOver(LAMBDA c : size[c], e.nodes[i].of)
  IN size[e.root]

VarsIn(nodes) == {nodes[i].k : i \in {j \in DOMAIN nodes : nodes[j].op = "var"}}
VarsOf(e) == VarsIn(e.nodes)
Inputs(e) == [VarsOf(e) -> Words]
-----------------------------------------------------------------------------
(* Mutant of Same: constants and coefficients are not compared. *)
SameShape(m, n) == m.op = n.op /\ m.of = n.of /\ (m.op = "var" => m.k = n.k)
Same(m, n) == m = n

(* A table: nodes, and the positions at of those interned last.  Equal nodes  *)
(* are shared.                                                               *)
Interned(nodes, at) == [nodes |-> nodes, at |-> at]
Placed(table, m, at) ==
  IF at # {} THEN Interned(table.nodes, Append(table.at, CHOOSE i \in at : TRUE))
  ELSE Interned(Append(table.nodes, m), Append(table.at, Len(table.nodes) + 1))
InternNode(table, m) == Placed(table, m, {i \in DOMAIN table.nodes : Same(table.nodes[i], m)})

(* The nodes of e interned after those already there. *)
Renumbered(n, at) == [n EXCEPT !.of = [j \in DOMAIN n.of |-> at[n.of[j]]]]
InternNext(table, n) == InternNode(table, Renumbered(n, table.at))
Intern(nodes, e) ==
  LET first[i \in 0 .. Len(e.nodes)] ==
        IF i = 0 THEN Interned(nodes, <<>>) ELSE InternNext(first[i - 1], e.nodes[i])
  IN first[Len(e.nodes)]

(* The expression op(args). *)
WithRoot(t, n) == [nodes |-> Append(t.nodes, n), root |-> Len(t.nodes) + 1]
OnOperands(t, op, k) == WithRoot(t, Node(op, k, t.at))
WithOperand(at, t, e) == Interned(t.nodes, Append(at, t.at[e.root]))
Operand(t, e) == WithOperand(t.at, Intern(t.nodes, e), e)
Op(op, k, args) ==
  LET first[i \in 0 .. Len(args)] ==
        IF i = 0 THEN Interned(<<>>, <<>>) ELSE Operand(first[i - 1], args[i])
  IN OnOperands(first[Len(args)], op, k)
Var(v) == Op("var", v, <<>>)
Const(c) == Op("const", c, <<>>)

(* One operand stands for itself. *)
OpOrOnly(op, args) == IF Len(args) = 1 THEN args[1] ELSE Op(op, 0, args)
-----------------------------------------------------------------------------
(* The signature of e on the cube {0, point}: its value with the variables    *)
(* of S at point and the others at zero.                                     *)
Signature(e, point) ==
  [S \in SUBSET VarsOf(e) |->
     Num(Eval(e, [v \in VarsOf(e) |-> IF v \in S THEN point ELSE {}]))]
OnCube(e) == Signature(e, {0})

(* Mutant of Coefficients: what the smaller sets contribute is not removed.  *)
CoefficientsRaw(sig, w) == [S \in DOMAIN sig |-> IF S = {} THEN sig[S] ELSE (sig[S] - sig[{}]) % 2 ^ w]

(* The coefficient of a conjunction is what is left of its entry once those  *)
(* of its subsets have been subtracted, at w bits (sub_coeff).               *)
Coefficients(sig, w) ==
  LET c[S \in DOMAIN sig] == (sig[S] - SumFunction([T \in (SUBSET S) \ {S} |-> c[T]])) % 2 ^ w
  IN c

(* conjunction_sum_from_signature and the reduction that follows it: the sum *)
(* of the terms of nonzero coefficient, a conjunction of one variable being   *)
(* that variable; at one bit addition reduces to exclusive or.               *)
Conjunction(S) == OpOrOnly("and", Listed({Var(v) : v \in S}))
Times(c, e) == IF c = 1 THEN e ELSE Op("scale", c, <<e>>)
Term(c, S) == IF S = {} THEN Const(c) ELSE Times(c, Conjunction(S))
SumOfAll(terms) ==
  IF terms = <<>> THEN Const(0) ELSE OpOrOnly(IF Width = 1 THEN "xor" ELSE "add", terms)
ConjunctionSum(coefficient) ==
  SumOfAll(Listed({Term(coefficient[S], S) : S \in {T \in DOMAIN coefficient : coefficient[T] # 0}}))

(* generate_linear_projection *)
Projection(e) == ConjunctionSum(Coefficients(OnCube(e), Width))

(* generate_affine_candidate *)
Singles(c) == [S \in DOMAIN c |-> IF Cardinality(S) > 1 THEN 0 ELSE c[S]]
Affine(e) == ConjunctionSum(Singles(Coefficients(OnCube(e), Width)))

(* e is a sum of multiples of constants and of bitwise functions of variables. *)
LinearMba(e) ==
  LET Of(i) == {e.nodes[i].of[j] : j \in DOMAIN e.nodes[i].of}
      bitwise[i \in DOMAIN e.nodes] ==
        e.nodes[i].op \in {"var", "not", "and", "or", "xor"} /\ \A c \in Of(i) : bitwise[c]
      linear[i \in DOMAIN e.nodes] ==
        \/ bitwise[i] \/ e.nodes[i].op = "const"
        \/ e.nodes[i].op \in {"add", "scale"} /\ \A c \in Of(i) : linear[c]
  IN linear[e.root]

(* generate_bitwise_candidate gives the projection if this holds. *)
UniformOnMask(e) == Range(Signature(e, Bits)) \subseteq {0, 2 ^ Width - 1}
=============================================================================
