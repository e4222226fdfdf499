---------------------------- MODULE MCExperiments ----------------------------
(* Instances of Experiments: products and sums of two variables for the       *)
(* analyses and their traces, systems of two unknowns, and scopes like those  *)
(* the tests of the library put together.                                    *)
EXTENDS Experiments

X == V(0)
Y == V(1)
Not(e) == T("not", <<e>>)
Plus == T("add", <<X, Y>>)
Xor == T("xor", <<X, Y>>)
And == T("and", <<X, Y>>)
Twice(e) == Tree("scale", 2, <<e>>)
Square == T("mul", <<X, X>>)
(* Plus, in disguise. *)
Lin == T("add", <<Xor, Twice(And)>>)
MCSources == {
  T("mul", <<Lin, X>>),
  T("add", <<T("mul", <<Plus, T("add", <<X, Neg(Y)>>)>>), Neg(T("mul", <<X, X>>)), T("mul", <<Y, Y>>)>>),
  T("add", <<T("mul", <<Lin, Lin>>), Neg(T("mul", <<Plus, Plus>>))>>),
  T("mul", <<Tree("scale", 4, <<X>>), T("and", <<Plus, X>>)>>),
  T("or", <<T("and", <<Plus, Not(Xor)>>), T("and", <<Not(Plus), Xor>>)>>),
  T("add", <<T("and", <<T("mul", <<Plus, X>>), Y>>),
             Neg(T("and", <<T("add", <<T("mul", <<X, X>>), T("mul", <<X, Y>>)>>), Y>>))>>),
  T("mul", <<Tree("scale", 4, <<X>>), T("xor", <<Plus, Twice(And)>>)>>),
  T("mul", <<Twice(Y), T("and", <<Lin, X>>)>>),
  T("add", <<T("and", <<Plus, X>>), T("and", <<Plus, Y>>)>>)}

MCSurfaces == {
  T("add", <<X, Y, Neg(And)>>),
  T("add", <<Square, T("mul", <<X, Y>>), Neg(T("mul", <<X, And>>))>>),
  T("add", <<C(AllOnes), Neg(X), Neg(Y)>>),
  T("or", <<T("and", <<X, Y>>), T("and", <<X, Plus>>)>>),
  T("add", <<T("and", <<X, Twice(X)>>), T("or", <<X, Twice(X)>>), Not(X), C(1)>>)}

Entry == {0, 1, 2, 3, 4, 6}
MCSystems ==
  {[matrix |-> <<<<a, b>>, <<c, d>>>>, rhs |-> r] :
     a \in Entry, b \in {0, 2, 3}, c \in {1, 2, 4}, d \in {0, 2, 5}, r \in {<<1, 2>>, <<2, 4>>, <<0, 6>>}}
  \cup {[matrix |-> <<<<a, 2>>, <<4, 3>>, <<2, 6>>>>, rhs |-> <<0, 2, r>>] : a \in Entry, r \in {0, 2, 5}}

Hides(v, e) == [v |-> v, e |-> e]
Hand(pre, atoms) == [NewScope(pre, Width) EXCEPT !.pre = pre, !.atoms = atoms]
Both(op, e, vs) == [i \in DOMAIN vs |-> T(op, <<e, V(vs[i])>>)]
MCHand == {
  Hand(T("add", <<Neg(Y)>> \o Both("and", Y, <<2, 3>>)),
       <<Hides(2, Plus), Hides(3, T("add", <<Neg(Plus), C(AllOnes)>>))>>),
  Hand(T("add", <<V(2), V(3)>>), <<Hides(2, Plus), Hides(3, Lin)>>),
  Hand(T("add", Both("and", X, <<2, 3>>) \o Both("and", Y, <<3, 4>>)),
       <<Hides(2, Plus), Hides(3, Lin), Hides(4, Not(Plus))>>),
  Hand(T("add", Both("or", X, <<2, 3>>) \o <<V(4), V(5)>>),
       <<Hides(2, Plus), Hides(3, Neg(Plus)), Hides(4, Square), Hides(5, T("add", <<C(AllOnes), Neg(Square)>>))>>),
  Hand(T("add", <<V(4), Neg(V(3)), Neg(V(2))>>),
       <<Hides(2, Plus), Hides(3, T("mul", <<X, Y>>)), Hides(4, T("add", <<T("mul", <<X, Y>>), Plus>>))>>),
  Hand(T("and", <<V(2), T("or", <<V(2), Y>>)>>), <<Hides(2, Twice(X))>>),
  Hand(T("add", <<T("and", <<V(2), Neg(X)>>), T("and", <<V(2), X>>)>>), <<Hides(2, Twice(X))>>),
  Hand(T("and", <<V(2), Neg(V(2)), T("or", <<Twice(V(2)), Tree("scale", 4, <<V(2)>>)>>)>>), <<Hides(2, Square)>>),
  Hand(T("and", <<V(2), X, Neg(X)>>), <<Hides(2, T("mul", <<X, Y>>))>>),
  Hand(T("and", <<V(2), X, Neg(X)>>), <<Hides(2, T("add", <<Twice(Square), Y>>))>>),
  Hand(T("and", <<V(2), Neg(T("or", <<X, Y>>))>>), <<Hides(2, Neg(X))>>),
  Hand(T("and", <<V(2), Neg(T("or", <<X, Twice(X)>>))>>), <<Hides(2, Neg(X))>>)}
MCExpected == {[target |-> 3, candidate |-> V(2)], [target |-> 3, candidate |-> Not(V(2))]}
MCBounds ==
  [vars |-> 2, nodes |-> 24, fitted |-> 2, degree |-> 4, monomials |-> 12, evaluations |-> 40,
   multiplier |-> 1, holdouts |-> 2, size |-> 20, factors |-> 6, muls |-> 4, tries |-> 4, parts |-> 16, parents |-> 8,
   pairs |-> 30, certifications |-> 40, atoms |-> 2, components |-> 6,
   representatives |-> 3, promotions |-> 4, residuals |-> 3, rounds |-> 2,
   bases11 |-> 8, pairs11 |-> 64, sums11 |-> 64, proofs11 |-> 6]
MCHashed == <<[v \in 0 .. 8 |-> IF v % 2 = 0 THEN {0, 2} ELSE {1, 2}], [v \in 0 .. 8 |-> IF v % 2 = 0 THEN {1} ELSE {0}]>>
=============================================================================
