------------------------------ MODULE MbaTrees ------------------------------
(***************************************************************************)
(* Expressions as trees (core/src/expr.rs), as the reducer and the solver   *)
(* work on them: [op, k, args], k as in a node of MbaTerms.  Constants have  *)
(* MachineBits bits; only masking cuts them to the width asked for.         *)
(***************************************************************************)
EXTENDS MbaTerms

CONSTANT MachineBits

ASSUME MachineBitsAssumption == MachineBits \in Nat /\ Width <= MachineBits

(* The concatenation makes TLC compute each argument once and for all. *)
Tree(op, k, args) == [op |-> op, k |-> k, args |-> args \o <<>>]
V(v) == Tree("var", v, <<>>)
C(k) == Tree("const", k, <<>>)
T(op, args) == Tree(op, 0, args)
Zero0 == C(0)
AllOnes == 2 ^ MachineBits - 1

(* Expr::scale and the product of a constant and an expression. *)
Scaled(c, e) ==
  IF c = 0 THEN Zero0 ELSE IF c = 1 THEN e ELSE Tree("scale", c, <<e>>)
Neg(e) == Tree("scale", AllOnes, <<e>>)

(* Expr::map: e with other arguments; a scale is built anew. *)
With(e, args) ==
  CASE e.op \in {"var", "const"} -> e
    [] e.op = "scale" -> Scaled(e.k, args[1])
    [] OTHER -> Tree(e.op, e.k, args)

RECURSIVE TreeEval(_, _)
TreeEval(e, x) == Result(e, [j \in DOMAIN e.args |-> TreeEval(e.args[j], x)] \o <<>>, x)

RECURSIVE TreeSize(_)
TreeSize(e) == 1 + SumOver(TreeSize, e.args)

(* The variables of e, in the order in which they occur first. *)
RECURSIVE Occurring(_)
Occurring(e) ==
  IF e.op = "var" THEN <<e.k>>
  ELSE FoldLeft(LAMBDA s, a : s \o SelectSeq(Occurring(a), LAMBDA v : ~Contains(s, v)), <<>>, e.args)
TreeVars(e) == Range(Occurring(e))

(* e with f[v] in place of each variable v of the domain of f. *)
RECURSIVE Subst(_, _)
Subst(e, f) ==
  IF e.op = "var" THEN IF e.k \in DOMAIN f THEN f[e.k] ELSE e
  ELSE With(e, [j \in DOMAIN e.args |-> Subst(e.args[j], f)])

(* The derived order of Expr: by variant, then by contents. *)
Variants == <<"var", "const", "not", "scale", "and", "or", "xor", "add", "mul">>
Rank(op) == CHOOSE i \in DOMAIN Variants : Variants[i] = op
RECURSIVE Below(_, _)
Below(d, e) ==
  \/ Rank(d.op) < Rank(e.op)
  \/ d.op = e.op /\ d.k < e.k
  \/ /\ d.op = e.op /\ d.k = e.k
     /\ LET p == CHOOSE i \in 1 .. Len(d.args) + 1 :
                   /\ \A j \in 1 .. i - 1 : j <= Len(e.args) /\ d.args[j] = e.args[j]
                   /\ i > Len(d.args) \/ i > Len(e.args) \/ d.args[i] # e.args[i]
        IN p <= Len(e.args) /\ (p > Len(d.args) \/ Below(d.args[p], e.args[p]))
Sorted(s) == SortSeq(s, Below)

(* The shared nodes of a tree. *)
RECURSIVE ToTerm(_)
ToTerm(e) == Op(e.op, e.k, [j \in DOMAIN e.args |-> ToTerm(e.args[j])] \o <<>>)

(* The signature of e over the variables of S on the cube {0, 1}, at w bits. *)
TreeSignature(e, S, w) ==
  [A \in SUBSET S |-> Num(TreeEval(e, [v \in S |-> IF v \in A THEN {0} ELSE {}])) % 2 ^ w]
=============================================================================
