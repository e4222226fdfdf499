---------------------------- MODULE MCProduction ----------------------------
(* Instances of Production.  To certify: every expression of two operations   *)
(* over up to two variables and a constant, and some longer ones.  To         *)
(* simplify: expressions of up to three operations over two variables.       *)
EXTENDS Production

X == Node("var", 1, <<>>)
Y == Node("var", 2, <<>>)
K(k) == Node("const", k, <<>>)
Leaves == {<<X>>, <<X, Y>>, <<X, K(1)>>, <<X, K(6)>>,
           <<X, Y, K(1)>>}
OneMore(s) ==
  LET I == DOMAIN s
      pairs == {<<i, j>> : i \in I, j \in I}
  IN {Append(s, n) : n \in
        {Node("not", 0, <<i>>) : i \in I} \cup
        {Node("scale", k, <<i>>) : k \in {2, 7}, i \in I} \cup
        {Node(op, 0, p) : op \in {"and", "or", "xor", "add", "mul"}, p \in {q \in pairs : q[1] < q[2]}} \cup
        {Node("add", 0, <<i, i>>) : i \in I}}
AllUsed(s) == \A i \in DOMAIN s : i = Len(s) \/ \E j \in DOMAIN s : i \in Range(s[j].of)
Rooted(S) == {[nodes |-> s, root |-> Len(s)] : s \in {t \in S : AllUsed(t)}}
One == UNION {OneMore(s) : s \in Leaves}
Two == UNION {OneMore(s) : s \in One}

Longer == {
  <<X, Y, Node("and", 0, <<1, 2>>), Node("or", 0, <<1, 2>>), Node("add", 0, <<3, 4>>)>>,
  <<X, Y, Node("xor", 0, <<1, 2>>), Node("and", 0, <<1, 2>>), Node("scale", 2, <<4>>),
    Node("add", 0, <<3, 5>>)>>,
  <<X, Y, Node("or", 0, <<1, 2>>), Node("scale", 7, <<1>>), Node("add", 0, <<3, 4>>),
    Node("and", 0, <<5, 2>>), Node("xor", 0, <<6, 2>>)>>,
  <<X, Y, Node("not", 0, <<1>>), Node("not", 0, <<2>>), Node("and", 0, <<1, 4>>),
    Node("and", 0, <<3, 2>>), Node("or", 0, <<5, 6>>), Node("xor", 0, <<1, 7>>)>>}

MCExprs == Rooted(Leaves \cup One \cup Two \cup Longer)
MCGiven == Rooted({<<X>>, <<K(0)>>, <<Y, X, Node("add", 0, <<1, 2>>)>>,
                   <<X, Y, Node("mul", 0, <<1, 2>>)>>})
AtMost(v, n, s) == [vars |-> v, nodes |-> n, states |-> s, candidates |-> 2]
MCDefaultLimits == AtMost(2, 24, 16)
MCLimits == {AtMost(2, 12, 8), AtMost(2, 12, 2), AtMost(2, 5, 8), AtMost(1, 12, 1)}

V0 == V(0)
V1 == V(1)
Operators == {"and", "or", "xor", "add", "mul"}
Simple == {T("not", <<V0>>), Tree("scale", 2, <<V0>>), Tree("scale", 15, <<V1>>)} \cup
  {T("and", <<V0, C(1)>>)} \cup {T(op, <<V0, e>>) : op \in Operators, e \in {V1, C(3)}}
Second == {V1, T("add", <<C(1), Tree("scale", 15, <<V0>>)>>), T("xor", <<V0, V1>>), T("mul", <<V0, V1>>)}
Pairs2 == {T(op, <<d, e>>) : op \in Operators \ {"mul"}, d \in Simple, e \in Second}
Triples == {T(op, <<e, T("add", <<V1, e>>)>>) : op \in Operators, e \in Second}
(* The sum is hidden at two bits and at three, and solved for both at once.   *)
Sum == T("add", <<T("xor", <<V0, V1>>), V0>>)
MCNarrowed == {T("add", <<T("and", <<C(3), Sum>>), T("or", <<V1, Sum>>)>>)}
(* Bitwise functions of a sum. *)
Plus == T("add", <<V0, V1>>)
Not(e) == T("not", <<e>>)
Frontiers == {T(op, <<d, e>>) : op \in {"and", "or", "xor"},
  d \in {T("and", <<Plus, V0>>), T("or", <<Plus, Not(V0)>>), T("xor", <<Plus, V1>>), T("and", <<Plus, Not(Plus)>>)},
  e \in {Plus, Not(Plus), V0, T("and", <<Not(Plus), V1>>), T("xor", <<Not(Plus), V0>>)}}
(* Bitwise functions in disguise: Plus less what it shares with another, and  *)
(* the complement, are bitwise only with Plus hidden and taken for a variable.*)
Less(e) == <<V0, V1, Neg(T("and", <<Plus, e>>))>>
Disguised == {T(op, <<d, T("add", s)>>) : op \in {"and", "or"}, d \in {V1, C(3)},
  s \in UNION {{Less(e), <<C(AllOnes), Neg(V0), Neg(V1), T("and", <<Plus, e>>)>>} : e \in {V0, Not(V1)}}}
(* Constants that are neither zero nor all ones are hidden too, and some of   *)
(* them are bitwise functions of others.                                     *)
Masked(op, i, j, k) == T(op, <<T("and", <<V0, C(i)>>), T("and", <<V1, C(j)>>), T("and", <<V0, C(k)>>)>>)
Masks == {Masked("xor", 4, 3, 3), Masked("xor", 1, 4, 3), Masked("xor", 2, 6, 1), Masked("add", 1, 5, 4),
          Masked("xor", 4, 3, 6), Masked("xor", 5, 4, 3)}
MCSources == Simple \cup Pairs2 \cup Triples \cup Frontiers \cup Disguised \cup Masks
(* Under the mask 3 in a part that vanishes, the rest is solved at two bits   *)
(* before it is the result at three.                                         *)
Gone(e) == T("and", <<C(3), e, V0, Not(V0), T("or", <<V1, C(5)>>)>>)
MCMasked == {T("add", <<e, Gone(e)>>) : e \in {T("add", <<T("and", <<V1, Plus>>)>> \o s) :
  s \in {<<V0>>, <<V0, Tree("scale", 4, <<V1>>)>>}}}
MCHashed == <<[v \in 0 .. 8 |-> IF v % 2 = 0 THEN {0, 2} ELSE {1, 2}], [v \in 0 .. 8 |-> IF v % 2 = 0 THEN {1} ELSE {0}]>>
=============================================================================
