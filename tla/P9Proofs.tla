--------------------------- MODULE P9Proofs ---------------------------
(*****************************************************************************)
(* Proofs about the certifier, for all expressions, widths and limits:       *)
(*   1. interning shares nodes and keeps the words of both expressions;      *)
(*   2. the bit-serial machine computes those words: its carries are the     *)
(*      quotients by the powers of two;                                      *)
(*   3. what the search over carry vectors concludes holds of every run of   *)
(*      the machine, although it keeps one input for each vector;            *)
(*   4. candidates speak of the variables of the expression only;            *)
(*   5. hence a proved pair is equal, a counterexample replays, and what     *)
(*      replaces an expression has its value on all inputs;                  *)
(*   6. a linear combination of bitwise functions is decided by its words    *)
(*      at the corners of the cube, so its projection is never refuted.      *)
(* And about the elimination of p9_p.rs, for every system of any size:       *)
(*   7. six steps of Newton's iteration invert an odd number of 64 bits;     *)
(*   8. each column done keeps the solutions, under a one-to-one change of   *)
(*      variables that transform follows;                                    *)
(*   9. hence what is returned is a solution, and nothing is returned only   *)
(*      where there is none.                                                 *)
(*****************************************************************************)
EXTENDS P9Linear, ModularSystem, Inductions

(* A step by step reading of the recursion: each node's word from those of its children. *)
ValuesAre(v, ns, x) ==
  /\ DOMAIN v = DOMAIN ns
  /\ \A i \in DOMAIN ns :
       v[i] = Result(ns[i], [j \in DOMAIN ns[i].of |-> v[ns[i].of[j]]], x)
Formed(ns) == ns \in Seq(Nodes) /\ ChildrenFirst(ns)

(* A formed node has its children before it. *)
LEMMA NodeForm ==
  ASSUME NEW ns, Formed(ns), NEW i \in DOMAIN ns
  PROVE  /\ ns[i].op \in Ops /\ ns[i].k \in Int /\ ns[i].of \in Seq(Nat)
         /\ IsFiniteSet(DOMAIN ns[i].of)
         /\ i \in Nat /\ \A j \in DOMAIN ns[i].of : ns[i].of[j] \in DOMAIN ns /\ ns[i].of[j] < i
         /\ ns[i].op \in {"not", "scale"} => DOMAIN ns[i].of = {1}
<1>1. ns[i] \in Nodes /\ i \in 1 .. Len(ns) /\ DOMAIN ns = 1 .. Len(ns) /\ Len(ns) \in Nat
  BY DEF Formed
<1>2. ns[i].op \in Ops /\ ns[i].k \in Int /\ ns[i].of \in Seq(Nat)
  BY <1>1 DEF Nodes
<1>3. DOMAIN ns[i].of = 1 .. Len(ns[i].of) /\ Len(ns[i].of) \in Nat
  BY <1>2
<1>4. IsFiniteSet(DOMAIN ns[i].of)
  BY <1>3, FS_Interval
<1>5. \A j \in DOMAIN ns[i].of : ns[i].of[j] \in 1 .. i - 1
  BY <1>1 DEF Formed, ChildrenFirst
<1>6. ns[i].op \in {"not", "scale"} => Len(ns[i].of) = 1
  BY <1>1 DEF Formed, ChildrenFirst
<1>7. \A k \in 1 .. i - 1 : k \in DOMAIN ns /\ k < i
  BY <1>1
<1>8. ns[i].op \in {"not", "scale"} => DOMAIN ns[i].of = {1}
  BY <1>3, <1>6
<1> QED BY <1>1, <1>2, <1>4, <1>5, <1>7, <1>8

(* What is known of a node is known of all, if it follows from its children. *)
FromChildren(ns, T) ==
  \A i \in DOMAIN ns : (\A j \in DOMAIN ns[i].of : ns[i].of[j] \in T) => i \in T

(* What holds of a node whenever it holds of its children holds of all nodes. *)
LEMMA NodeCases ==
  ASSUME NEW ns, Formed(ns), NEW T, FromChildren(ns, T)
  PROVE  \A i \in DOMAIN ns : i \in T
<1> DEFINE U == {i \in Nat : i \in DOMAIN ns => i \in T}
<1>1. ASSUME NEW n \in Nat, \A k \in 0 .. n - 1 : k \in U PROVE n \in U
  <2> SUFFICES ASSUME n \in DOMAIN ns PROVE n \in T
    OBVIOUS
  <2>1. \A j \in DOMAIN ns[n].of : ns[n].of[j] \in DOMAIN ns /\ ns[n].of[j] < n /\ ns[n].of[j] \in Nat
    <3>1. DOMAIN ns = 1 .. Len(ns)
      BY DEF Formed
    <3> QED BY <3>1, NodeForm
  <2>2. \A j \in DOMAIN ns[n].of : ns[n].of[j] \in T
    <3> TAKE j \in DOMAIN ns[n].of
    <3>1. ns[n].of[j] \in 0 .. n - 1
      BY <2>1
    <3> QED BY <2>1, <3>1, <1>1
  <2> QED BY <2>2 DEF FromChildren
<1>2. \A n \in Nat : n \in U
  <2> HIDE DEF U
  <2>1. U \in SUBSET Nat
    BY DEF U
  <2> QED BY <1>1, <2>1, StrongCases
<1>3. DOMAIN ns \subseteq Nat
  BY NodeForm
<1> QED BY <1>2, <1>3

(* The word of a node that is no variable is a word. *)
LEMMA ResultBits ==
  ASSUME NEW n, NEW words, NEW x, n.op \in Ops \ {"var"}
  PROVE  Result(n, words, x) \in Words
<1>1. \A m : Word(m) \in Words
  BY DEF Word, Words
<1>2. CASE n.op \in {"const", "add", "scale", "mul"}
  BY <1>1, <1>2 DEF Result
<1>3. CASE n.op \in {"not", "and", "or", "xor"}
  BY <1>3 DEF Result, Words
<1> QED BY <1>2, <1>3 DEF Ops

(* Values gives every node its word. *)
LEMMA ValuesExist ==
  ASSUME NEW ns, Formed(ns), NEW x
  PROVE  ValuesAre(Values(ns, x), ns, x)
<1> DEFINE D == DOMAIN ns
           V == Words \cup {x[ns[i].k] : i \in D}
           place == [i \in D |-> i]
           low == [i \in D |-> {ns[i].of[j] : j \in DOMAIN ns[i].of}]
           step == [i \in D |-> [w \in [low[i] -> V] |->
                      Result(ns[i], [j \in DOMAIN ns[i].of |-> w[ns[i].of[j]]], x)]]
           rec(v) == [i \in D |-> Result(ns[i], [j \in DOMAIN ns[i].of |-> v[ns[i].of[j]]], x)]
<1>1. \A i \in D : \A e \in low[i] : e \in D /\ place[e] < place[i]
  BY NodeForm
<1>2. \A i \in D : step[i] \in [[low[i] -> V] -> V]
  <2> TAKE i \in D
  <2>1. ASSUME NEW w PROVE Result(ns[i], w, x) \in V
    <3>1. CASE ns[i].op = "var"
      BY <3>1 DEF Result
    <3>2. CASE ns[i].op # "var"
      <4>1. ns[i].op \in Ops \ {"var"}
        BY <3>2, NodeForm
      <4> QED BY <4>1, ResultBits
    <3> QED BY <3>1, <3>2
  <2> HIDE DEF V
  <2> QED BY <2>1
<1>3. Len(ns) \in Nat /\ place \in [D -> 0 .. Len(ns)]
  BY DEF Formed
<1>4. PICK v \in [D -> V] : \A i \in D : v[i] = step[i][Restrict(v, low[i])]
  <2> HIDE DEF D, V, place, low, step
  <2>1. RankedSteps(D, Len(ns), place, V, step, low)
    BY <1>1, <1>2, <1>3 DEF RankedSteps
  <2> QED BY <2>1, RankRecursion
<1>5. v = rec(v)
  <2> SUFFICES ASSUME NEW i \in D
               PROVE  v[i] = Result(ns[i], [j \in DOMAIN ns[i].of |-> v[ns[i].of[j]]], x)
    BY <1>4
  <2> DEFINE w == Restrict(v, low[i])
  <2>1. low[i] \subseteq D
    BY <1>1
  <2>2. w \in [low[i] -> V] /\ \A e \in low[i] : w[e] = v[e]
    BY <2>1, <1>4 DEF Restrict
  <2>3. step[i][w] = Result(ns[i], [j \in DOMAIN ns[i].of |-> w[ns[i].of[j]]], x)
    <3> HIDE DEF w, V, low
    <3> QED BY <2>2
  <2>4. [j \in DOMAIN ns[i].of |-> w[ns[i].of[j]]] = [j \in DOMAIN ns[i].of |-> v[ns[i].of[j]]]
    <3>1. \A j \in DOMAIN ns[i].of : ns[i].of[j] \in low[i]
      OBVIOUS
    <3> HIDE DEF w, low
    <3> QED BY <3>1, <2>2
  <2> HIDE DEF w, step, low
  <2>5. v[i] = step[i][w]
    BY <1>4 DEF w
  <2> QED BY <2>3, <2>4, <2>5
<1>6. Values(ns, x) = CHOOSE u : u = rec(u)
  BY Zenon DEF Values
<1>7. Values(ns, x) = rec(Values(ns, x))
  <2> HIDE DEF rec
  <2> QED BY <1>5, <1>6
<1> HIDE DEF V, step, low, place
<1> DEFINE u == Values(ns, x)
<1>8. u = rec(u)
  BY <1>7
<1> HIDE DEF u
<1>9. ValuesAre(u, ns, x)
  BY <1>8 DEF ValuesAre
<1> QED BY <1>9 DEF u

(* A node is evaluated by its operator, its constant and its children only. *)
LEMMA ResultSame ==
  ASSUME NEW m, NEW n, NEW words, NEW x, NEW y,
         m.op = n.op, m.k = n.k, n.op \in Ops, n.op = "var" => x[n.k] = y[n.k]
  PROVE  Result(m, words, y) = Result(n, words, x)
BY DEF Result, Ops

(* On words the nodes have words. *)
LEMMA ValuesAreWords ==
  ASSUME NEW ns, Formed(ns), NEW x, \A v \in VarsIn(ns) : x[v] \in Words
  PROVE  \A i \in DOMAIN ns : Values(ns, x)[i] \in Words
<1> TAKE i \in DOMAIN ns
<1> DEFINE words == [j \in DOMAIN ns[i].of |-> Values(ns, x)[ns[i].of[j]]]
<1>1. Values(ns, x)[i] = Result(ns[i], words, x)
  BY ValuesExist DEF ValuesAre
<1> HIDE DEF words
<1>2. CASE ns[i].op = "var"
  <2>1. x[ns[i].k] \in Words
    BY <1>2 DEF VarsIn
  <2>2. Result(ns[i], words, x) = x[ns[i].k]
    BY <1>2 DEF Result
  <2> QED BY <1>1, <2>1, <2>2
<1>3. CASE ns[i].op # "var"
  <2>1. ns[i].op \in Ops \ {"var"}
    BY <1>3, NodeForm
  <2> QED BY <1>1, <2>1, ResultBits
<1> QED BY <1>2, <1>3

(* A copy of nodes among others: at says where each is. *)
Copied(ns, ms, at) ==
  \A i \in DOMAIN ns :
    /\ at[i] \in DOMAIN ms
    /\ ms[at[i]].op = ns[i].op /\ ms[at[i]].k = ns[i].k
    /\ ms[at[i]].of = [j \in DOMAIN ns[i].of |-> at[ns[i].of[j]]]

(* A copy of a node, its children copied too, has the word of the node. *)
LEMMA CopiesHaveTheValue ==
  ASSUME NEW ns, Formed(ns), NEW ms, Formed(ms), NEW at, Copied(ns, ms, at),
         NEW x, NEW y, \A v \in VarsIn(ns) : x[v] = y[v]
  PROVE  \A i \in DOMAIN ns : Values(ms, y)[at[i]] = Values(ns, x)[i]
<1> DEFINE u == Values(ms, y)  v == Values(ns, x)
           T == {i \in DOMAIN ns : u[at[i]] = v[i]}
<1>1. ValuesAre(u, ms, y) /\ ValuesAre(v, ns, x)
  BY ValuesExist
<1> HIDE DEF u, v
<1>2. ASSUME NEW i \in DOMAIN ns, \A j \in DOMAIN ns[i].of : ns[i].of[j] \in T
      PROVE  u[at[i]] = v[i]
  <2> DEFINE of == ns[i].of  m == ms[at[i]]
             ws == [j \in DOMAIN m.of |-> u[m.of[j]]]
             wt == [j \in DOMAIN of |-> v[of[j]]]
  <2>1. at[i] \in DOMAIN ms /\ m.op = ns[i].op /\ m.k = ns[i].k /\ m.of = [j \in DOMAIN of |-> at[of[j]]]
    BY DEF Copied
  <2>2. ws = wt
    <3>1. DOMAIN m.of = DOMAIN of /\ \A j \in DOMAIN of : m.of[j] = at[of[j]]
      BY <2>1
    <3>2. \A j \in DOMAIN of : u[at[of[j]]] = v[of[j]]
      BY <1>2
    <3> QED BY <3>1, <3>2
  <2>3. u[at[i]] = Result(m, ws, y) /\ v[i] = Result(ns[i], wt, x)
    BY <1>1, <2>1 DEF ValuesAre
  <2>4. ns[i].op = "var" => x[ns[i].k] = y[ns[i].k]
    BY DEF VarsIn
  <2>5. ns[i].op \in Ops
    BY NodeForm
  <2> HIDE DEF ws, wt, m
  <2> QED BY <2>1, <2>2, <2>3, <2>4, <2>5, ResultSame
<1>3. FromChildren(ns, T)
  BY <1>2 DEF FromChildren
<1> HIDE DEF T
<1>4. \A i \in DOMAIN ns : i \in T
  BY <1>3, NodeCases
<1> QED BY <1>4 DEF T, u, v
-----------------------------------------------------------------------------
(* Interning: a table holds copies of the nodes it was given, what it held     *)
(* stays, and nothing else is in it.                                         *)
Table(t) ==
  /\ Formed(t.nodes) /\ t.at \in Seq(Nat)
  /\ \A j \in DOMAIN t.at : t.at[j] \in DOMAIN t.nodes
Extends(ns, ms) == \A i \in DOMAIN ns : i \in DOMAIN ms /\ ms[i] = ns[i]
Kind(n) == <<n.op, n.k>>
Kinds(ns) == {Kind(ns[i]) : i \in DOMAIN ns}
Fits(m, ns) ==
  /\ m \in Nodes /\ \A j \in DOMAIN m.of : m.of[j] \in DOMAIN ns
  /\ m.op \in {"not", "scale"} => Len(m.of) = 1
AddedAt(u, t, m) ==
  /\ Table(u) /\ Len(u.at) = Len(t.at) + 1
  /\ \A j \in DOMAIN t.at : u.at[j] = t.at[j]
  /\ u.nodes[u.at[Len(u.at)]] = m
  /\ Extends(t.nodes, u.nodes)
  /\ Kinds(u.nodes) \subseteq Kinds(t.nodes) \cup {Kind(m)}

(* A node of the nodes there can be added to them. *)
LEMMA AppendForms ==
  ASSUME NEW ns, Formed(ns), NEW m, Fits(m, ns)
  PROVE  /\ Formed(Append(ns, m)) /\ Extends(ns, Append(ns, m))
         /\ Len(Append(ns, m)) = Len(ns) + 1 /\ Append(ns, m)[Len(ns) + 1] = m
         /\ DOMAIN Append(ns, m) = 1 .. Len(ns) + 1
         /\ Kinds(Append(ns, m)) \subseteq Kinds(ns) \cup {Kind(m)}
<1> DEFINE a == Append(ns, m)
<1>1. ns \in Seq(Nodes) /\ m \in Nodes /\ DOMAIN ns = 1 .. Len(ns) /\ Len(ns) \in Nat
  BY DEF Formed, Fits
<1>2. /\ a \in Seq(Nodes) /\ Len(a) = Len(ns) + 1 /\ DOMAIN a = 1 .. Len(ns) + 1
      /\ \A i \in DOMAIN ns : a[i] = ns[i]
      /\ a[Len(ns) + 1] = m
  BY <1>1
<1> HIDE DEF a
<1>3. \A i \in DOMAIN a : i \in DOMAIN ns \/ i = Len(ns) + 1
  BY <1>1, <1>2
<1>4. ASSUME NEW i \in DOMAIN a
      PROVE  /\ \A j \in DOMAIN a[i].of : a[i].of[j] \in 1 .. i - 1
             /\ a[i].op \in {"not", "scale"} => Len(a[i].of) = 1
  <2>1. CASE i \in DOMAIN ns
    BY <1>2, <2>1 DEF Formed, ChildrenFirst
  <2>2. CASE i = Len(ns) + 1
    <3>1. a[i] = m /\ i - 1 = Len(ns)
      BY <1>1, <1>2, <2>2
    <3> QED BY <1>1, <3>1 DEF Fits
  <2> QED BY <1>3, <2>1, <2>2
<1>5. Formed(a)
  BY <1>2, <1>4 DEF Formed, ChildrenFirst
<1>6. Extends(ns, a)
  BY <1>1, <1>2 DEF Extends
<1>7. Kinds(a) \subseteq Kinds(ns) \cup {Kind(m)}
  <2> SUFFICES ASSUME NEW i \in DOMAIN a PROVE Kind(a[i]) \in Kinds(ns) \cup {Kind(m)}
    BY DEF Kinds
  <2> QED BY <1>2, <1>3 DEF Kinds
<1> QED BY <1>2, <1>5, <1>6, <1>7 DEF a

(* Interning a node gives a table in which it was placed last. *)
LEMMA InternNodeAdds ==
  ASSUME NEW t, Table(t), NEW m, Fits(m, t.nodes)
  PROVE  AddedAt(InternNode(t, m), t, m)
<1> DEFINE at == {i \in DOMAIN t.nodes : Same(t.nodes[i], m)}
           u == InternNode(t, m)
<1>1. u = Placed(t, m, at)
  BY DEF InternNode
<1>2. Formed(t.nodes) /\ t.at \in Seq(Nat) /\ t.nodes \in Seq(Nodes)
      /\ DOMAIN t.nodes = 1 .. Len(t.nodes) /\ Len(t.nodes) \in Nat
      /\ \A j \in DOMAIN t.at : t.at[j] \in DOMAIN t.nodes
  BY DEF Table, Formed
<1>3. ASSUME NEW p \in Nat
      PROVE  LET s == Append(t.at, p)
             IN /\ s \in Seq(Nat) /\ Len(s) = Len(t.at) + 1 /\ s[Len(s)] = p
                /\ \A j \in DOMAIN t.at : s[j] = t.at[j]
                /\ \A j \in DOMAIN s : s[j] = p \/ j \in DOMAIN t.at
  BY <1>2
<1>4. CASE at # {}
  <2> DEFINE p == CHOOSE i \in at : TRUE
  <2>1. p \in at
    BY <1>4
  <2> HIDE DEF p
  <2>2. p \in DOMAIN t.nodes /\ t.nodes[p] = m /\ p \in Nat
    BY <1>2, <2>1 DEF Same
  <2>3. u.nodes = t.nodes /\ u.at = Append(t.at, p)
    BY <1>1, <1>4 DEF Placed, Interned, p
  <2> HIDE DEF u, at
  <2>4. Table(u)
    BY <1>2, <1>3, <2>2, <2>3 DEF Table
  <2>5. Extends(t.nodes, u.nodes)
    BY <2>3 DEF Extends
  <2>6. Len(u.at) = Len(t.at) + 1 /\ u.nodes[u.at[Len(u.at)]] = m /\ \A j \in DOMAIN t.at : u.at[j] = t.at[j]
    BY <1>3, <2>2, <2>3
  <2> QED BY <2>3, <2>4, <2>5, <2>6 DEF AddedAt, u
<1>5. CASE at = {}
  <2> DEFINE a == Append(t.nodes, m)  p == Len(t.nodes) + 1
  <2>1. /\ Formed(a) /\ Extends(t.nodes, a) /\ a[p] = m /\ DOMAIN a = 1 .. p
        /\ Kinds(a) \subseteq Kinds(t.nodes) \cup {Kind(m)}
    BY <1>2, AppendForms
  <2>2. u.nodes = a /\ u.at = Append(t.at, p)
    BY <1>1, <1>5 DEF Placed, Interned
  <2>3. p \in Nat /\ p \in DOMAIN a /\ \A j \in DOMAIN t.nodes : j \in DOMAIN a
    BY <1>2, <2>1
  <2> HIDE DEF u, at, a, p
  <2>4. Table(u)
    BY <1>2, <1>3, <2>1, <2>2, <2>3 DEF Table
  <2>5. Len(u.at) = Len(t.at) + 1 /\ u.nodes[u.at[Len(u.at)]] = m /\ \A j \in DOMAIN t.at : u.at[j] = t.at[j]
    BY <1>3, <2>1, <2>2, <2>3
  <2> QED BY <2>1, <2>2, <2>4, <2>5 DEF AddedAt, u
<1> QED BY <1>4, <1>5

(* Intern takes the nodes in turn. *)
Interns(g, ns, e) ==
  /\ g[0] = Interned(ns, <<>>)
  /\ \A i \in 1 .. Len(e.nodes) : g[i] = InternNext(g[i - 1], e.nodes[i])

(* Intern takes one node at a time. *)
LEMMA InternRuns ==
  ASSUME NEW ns, NEW e, Len(e.nodes) \in Nat
  PROVE  \E g : Interns(g, ns, e) /\ Intern(ns, e) = g[Len(e.nodes)]
<1> DEFINE n == Len(e.nodes)
           rec(g) == [i \in 0 .. n |-> IF i = 0 THEN Interned(ns, <<>>) ELSE InternNext(g[i - 1], e.nodes[i])]
           G(g, k) == g[0] = Interned(ns, <<>>) /\ \A i \in 1 .. k : g[i] = InternNext(g[i - 1], e.nodes[i])
           T == {k \in Nat : \E g : G(g, k)}
<1>1. 0 \in T
  <2> DEFINE g == [i \in {0} |-> Interned(ns, <<>>)]
  <2>1. G(g, 0)
    OBVIOUS
  <2> HIDE DEF G
  <2> QED BY <2>1
<1>2. ASSUME NEW k \in T PROVE k + 1 \in T
  <2>1. PICK g : G(g, k)
    OBVIOUS
  <2> DEFINE h == [i \in 0 .. k + 1 |-> IF i = k + 1 THEN InternNext(g[k], e.nodes[k + 1]) ELSE g[i]]
  <2>2. k \in Nat /\ h[k + 1] = InternNext(g[k], e.nodes[k + 1]) /\ \A i \in 0 .. k : h[i] = g[i]
    OBVIOUS
  <2> HIDE DEF h
  <2>3. G(h, k + 1)
    <3>1. ASSUME NEW i \in 1 .. k + 1 PROVE h[i] = InternNext(h[i - 1], e.nodes[i])
      <4>1. CASE i = k + 1
        BY <2>2, <4>1
      <4>2. CASE i # k + 1
        <5>1. i \in 1 .. k /\ i \in 0 .. k /\ i - 1 \in 0 .. k
          BY <2>2, <4>2
        <5> QED BY <2>1, <2>2, <5>1
      <4> QED BY <4>1, <4>2
    <3> QED BY <2>1, <2>2, <3>1
  <2> HIDE DEF G
  <2> QED BY <2>2, <2>3
<1>3. n \in T
  <2> HIDE DEF T
  <2>1. T \in SUBSET Nat
    BY DEF T
  <2> QED BY <1>1, <1>2, <2>1, NatCases
<1>4. PICK g : G(g, n)
  BY <1>3
<1> DEFINE f == rec(g)
<1>5. f = rec(f)
  <2>1. \A i \in 0 .. n : f[i] = g[i]
    BY <1>4
  <2> HIDE DEF f
  <2>4. \A i \in 0 .. n : i = 0 \/ i - 1 \in 0 .. n
    OBVIOUS
  <2>2. \A i \in 0 .. n : i = 0 \/ f[i - 1] = g[i - 1]
    BY <2>1, <2>4
  <2>3. f = rec(g) /\ rec(g) = rec(f)
    BY <2>2 DEF f
  <2> QED BY <2>3
<1> HIDE DEF f
<1>6. Intern(ns, e) = (CHOOSE h : h = rec(h))[n]
  BY Zenon DEF Intern
<1> DEFINE c == CHOOSE h : h = rec(h)
<1>7. c = rec(c)
  <2> HIDE DEF rec
  <2> QED BY <1>5
<1> HIDE DEF c
<1>8. Interns(c, ns, e)
  BY <1>7 DEF Interns
<1> QED BY <1>6, <1>8 DEF c

(* After k nodes of e. *)
InternedSoFar(t, ns, e, k) ==
  /\ Table(t) /\ Len(t.at) = k /\ Extends(ns, t.nodes)
  /\ \A j \in 1 .. k : t.nodes[t.at[j]] = Renumbered(e.nodes[j], t.at)
  /\ Kinds(t.nodes) \subseteq Kinds(ns) \cup Kinds(e.nodes)

(* at places the nodes before the i-th among ns; other places them alike. *)
Places(at, i, ns) == ns \in Seq(Nodes) /\ \A j \in 1 .. i - 1 : at[j] \in DOMAIN ns
PlacesAlike(other, at, i) == \A j \in 1 .. i - 1 : other[j] = at[j]

(* A node moves by the places of its children only. *)
LEMMA RenumberedAlike ==
  ASSUME NEW es, Formed(es), NEW i \in DOMAIN es, NEW at, NEW other, PlacesAlike(other, at, i)
  PROVE  Renumbered(es[i], other) = Renumbered(es[i], at)
<1> DEFINE n == es[i]
<1>1. \A j \in DOMAIN n.of : n.of[j] \in 1 .. i - 1
  BY DEF Formed, ChildrenFirst
<1>2. [j \in DOMAIN n.of |-> other[n.of[j]]] = [j \in DOMAIN n.of |-> at[n.of[j]]]
  BY <1>1 DEF PlacesAlike
<1> QED BY <1>2 DEF Renumbered

(* A node whose children are placed can be placed. *)
LEMMA RenumberedNode ==
  ASSUME NEW es, Formed(es), NEW i \in DOMAIN es, NEW at, NEW ns, Places(at, i, ns)
  PROVE  /\ Fits(Renumbered(es[i], at), ns) /\ Kind(Renumbered(es[i], at)) = Kind(es[i])
         /\ Renumbered(es[i], at).of = [j \in DOMAIN es[i].of |-> at[es[i].of[j]]]
<1> DEFINE n == es[i]  of == [j \in DOMAIN n.of |-> at[n.of[j]]]  m == Renumbered(n, at)
<1>1. /\ n.op \in Ops /\ n.k \in Int /\ n.of \in Seq(Nat) /\ n \in Nodes
      /\ \A j \in DOMAIN n.of : n.of[j] \in 1 .. i - 1
      /\ n.op \in {"not", "scale"} => Len(n.of) = 1
  <2>1. \A j \in DOMAIN n.of : n.of[j] \in 1 .. i - 1
    BY DEF Formed, ChildrenFirst
  <2>2. n.op \in {"not", "scale"} => Len(n.of) = 1
    BY DEF Formed, ChildrenFirst
  <2>3. n \in Nodes
    BY DEF Formed
  <2> QED BY <2>1, <2>2, <2>3, NodeForm
<1>2. n = [op |-> n.op, k |-> n.k, of |-> n.of]
  BY <1>1 DEF Nodes
<1>3. m = [op |-> n.op, k |-> n.k, of |-> of]
  BY <1>2 DEF Renumbered
<1>4. \A j \in DOMAIN n.of : of[j] \in DOMAIN ns /\ of[j] \in Nat
  <2>1. DOMAIN ns \subseteq Nat
    BY DEF Places
  <2> QED BY <1>1, <2>1 DEF Places
<1>5. of \in Seq(Nat) /\ Len(of) = Len(n.of) /\ DOMAIN of = DOMAIN n.of
  <2>1. Len(n.of) \in Nat /\ DOMAIN n.of = 1 .. Len(n.of)
    BY <1>1
  <2>2. of \in [1 .. Len(n.of) -> Nat]
    BY <1>4, <2>1
  <2> HIDE DEF of
  <2> QED BY <2>1, <2>2
<1> HIDE DEF of
<1>7. m \in Nodes /\ m.op = n.op /\ m.k = n.k /\ m.of = of
  BY <1>1, <1>3, <1>5 DEF Nodes
<1> HIDE DEF m, n
<1>8. Fits(m, ns)
  BY <1>1, <1>4, <1>5, <1>7 DEF Fits
<1>9. Kind(m) = Kind(n)
  BY <1>7 DEF Kind
<1> QED BY <1>7, <1>8, <1>9 DEF m, n, of

(* Interning one node more keeps what was placed. *)
LEMMA InternNextKeeps ==
  ASSUME NEW ns, NEW e, Formed(e.nodes), NEW t, NEW k \in Nat, k + 1 \in DOMAIN e.nodes,
         InternedSoFar(t, ns, e, k)
  PROVE  InternedSoFar(InternNext(t, e.nodes[k + 1]), ns, e, k + 1)
<1> DEFINE n == e.nodes[k + 1]  m == Renumbered(n, t.at)  u == InternNode(t, m)
<1>1. /\ Table(t) /\ Len(t.at) = k /\ Extends(ns, t.nodes) /\ DOMAIN t.at = 1 .. k
      /\ Kinds(t.nodes) \subseteq Kinds(ns) \cup Kinds(e.nodes)
      /\ t.nodes \in Seq(Nodes)
      /\ \A j \in 1 .. k : t.at[j] \in DOMAIN t.nodes
  BY DEF InternedSoFar, Table, Formed
<1>2. /\ Fits(m, t.nodes) /\ Kind(m) = Kind(n)
  <2>1. Places(t.at, k + 1, t.nodes)
    <3>1. (k + 1) - 1 = k
      OBVIOUS
    <3> QED BY <1>1, <3>1 DEF Places
  <2> DEFINE es == e.nodes  at == t.at  ns2 == t.nodes  i == k + 1
  <2>2. Formed(es) /\ i \in DOMAIN es /\ Places(at, i, ns2)
    BY <2>1
  <2> HIDE DEF es, at, ns2, i
  <2>3. Fits(Renumbered(es[i], at), ns2) /\ Kind(Renumbered(es[i], at)) = Kind(es[i])
    BY <2>2, RenumberedNode
  <2> QED BY <2>3 DEF es, at, ns2, i
<1> HIDE DEF m
<1>3. AddedAt(u, t, m)
  BY <1>1, <1>2, InternNodeAdds
<1>4. InternNext(t, n) = u
  BY DEF InternNext, m
<1> HIDE DEF u
<1>5. /\ Table(u) /\ Len(u.at) = k + 1 /\ \A j \in 1 .. k : u.at[j] = t.at[j]
      /\ u.nodes[u.at[k + 1]] = m /\ Extends(t.nodes, u.nodes)
      /\ Kinds(u.nodes) \subseteq Kinds(t.nodes) \cup {Kind(m)}
  BY <1>1, <1>3 DEF AddedAt
<1>6. Extends(ns, u.nodes)
  BY <1>1, <1>5 DEF Extends
<1>7. Kinds(u.nodes) \subseteq Kinds(ns) \cup Kinds(e.nodes)
  <2>1. Kind(m) \in Kinds(e.nodes)
    BY <1>2 DEF Kinds
  <2> QED BY <1>1, <1>5, <2>1
<1>8. ASSUME NEW j \in 1 .. k + 1 PROVE u.nodes[u.at[j]] = Renumbered(e.nodes[j], u.at)
  <2>1. CASE j = k + 1
    <3>1. PlacesAlike(u.at, t.at, k + 1)
      <4>1. (k + 1) - 1 = k
        OBVIOUS
      <4> QED BY <1>5, <4>1 DEF PlacesAlike
    <3>2. Renumbered(n, u.at) = m
      BY <3>1, RenumberedAlike DEF m
    <3> QED BY <1>5, <2>1, <3>2
  <2>2. CASE j # k + 1
    <3>1. j \in 1 .. k
      BY <2>2
    <3>2. u.nodes[u.at[j]] = t.nodes[t.at[j]]
      BY <1>1, <1>5, <3>1 DEF Extends
    <3>3. t.nodes[t.at[j]] = Renumbered(e.nodes[j], t.at)
      BY <3>1 DEF InternedSoFar
    <3>4. Renumbered(e.nodes[j], u.at) = Renumbered(e.nodes[j], t.at)
      <4>1. j \in DOMAIN e.nodes
        BY <3>1 DEF Formed
      <4>2. PlacesAlike(u.at, t.at, j)
        <5>1. \A i \in 1 .. j - 1 : i \in 1 .. k
          BY <3>1
        <5> QED BY <1>5, <5>1 DEF PlacesAlike
      <4> QED BY <4>1, <4>2, RenumberedAlike
    <3> QED BY <3>2, <3>3, <3>4
  <2> QED BY <2>1, <2>2
<1> QED BY <1>4, <1>5, <1>6, <1>7, <1>8 DEF InternedSoFar

(* Interning an expression copies its nodes and brings in no other kind. *)
LEMMA InternCopies ==
  ASSUME NEW ns, Formed(ns), NEW e, Formed(e.nodes)
  PROVE  LET t == Intern(ns, e)
         IN /\ Formed(t.nodes) /\ Extends(ns, t.nodes) /\ Copied(e.nodes, t.nodes, t.at)
            /\ Kinds(t.nodes) \subseteq Kinds(ns) \cup Kinds(e.nodes)
            /\ t.at \in Seq(Nat)
<1> DEFINE n == Len(e.nodes)  t == Intern(ns, e)
<1>1. n \in Nat /\ DOMAIN e.nodes = 1 .. n
  BY DEF Formed
<1>2. PICK g : Interns(g, ns, e) /\ t = g[n]
  BY <1>1, InternRuns
<1> DEFINE T == {k \in Nat : k <= n => InternedSoFar(g[k], ns, e, k)}
<1>3. 0 \in T
  <2>1. g[0] = Interned(ns, <<>>)
    BY <1>2 DEF Interns
  <2>2. g[0].nodes = ns /\ g[0].at = <<>>
    BY <2>1 DEF Interned
  <2>3. Table(g[0]) /\ Extends(ns, ns)
    BY <2>2 DEF Table, Extends
  <2> QED BY <2>2, <2>3 DEF InternedSoFar
<1>4. ASSUME NEW k \in T PROVE k + 1 \in T
  <2> SUFFICES ASSUME k + 1 <= n PROVE InternedSoFar(g[k + 1], ns, e, k + 1)
    OBVIOUS
  <2>1. k \in Nat /\ k <= n /\ k + 1 \in DOMAIN e.nodes /\ (k + 1) - 1 = k
    BY <1>1
  <2>2. g[k + 1] = InternNext(g[k], e.nodes[k + 1])
    BY <1>1, <1>2, <2>1 DEF Interns
  <2> QED BY <2>1, <2>2, InternNextKeeps
<1>5. n \in T
  <2> HIDE DEF T, n
  <2>1. T \in SUBSET Nat
    BY DEF T
  <2> QED BY <1>1, <1>3, <1>4, <2>1, NatCases
<1>6. InternedSoFar(t, ns, e, n)
  BY <1>1, <1>2, <1>5
<1> HIDE DEF t
<1>7. Table(t) /\ Len(t.at) = n /\ DOMAIN t.at = 1 .. n
  BY <1>6 DEF InternedSoFar, Table
<1>8. Copied(e.nodes, t.nodes, t.at)
  <2> SUFFICES ASSUME NEW i \in DOMAIN e.nodes
               PROVE  /\ t.at[i] \in DOMAIN t.nodes
                      /\ t.nodes[t.at[i]].op = e.nodes[i].op /\ t.nodes[t.at[i]].k = e.nodes[i].k
                      /\ t.nodes[t.at[i]].of = [j \in DOMAIN e.nodes[i].of |-> t.at[e.nodes[i].of[j]]]
    BY DEF Copied
  <2>1. t.at[i] \in DOMAIN t.nodes
    BY <1>1, <1>7 DEF Table
  <2>2. t.nodes[t.at[i]] = Renumbered(e.nodes[i], t.at)
    BY <1>1, <1>6 DEF InternedSoFar
  <2>3. /\ Kind(Renumbered(e.nodes[i], t.at)) = Kind(e.nodes[i])
        /\ Renumbered(e.nodes[i], t.at).of = [j \in DOMAIN e.nodes[i].of |-> t.at[e.nodes[i].of[j]]]
    <3>1. \A j \in 1 .. i - 1 : t.at[j] \in DOMAIN t.nodes
      <4>1. \A j \in 1 .. i - 1 : j \in DOMAIN t.at
        BY <1>1, <1>7
      <4> QED BY <1>7, <4>1 DEF Table
    <3>2. Places(t.at, i, t.nodes)
      BY <1>7, <3>1 DEF Table, Formed, Places
    <3> QED BY <3>2, RenumberedNode
  <2> QED BY <2>1, <2>2, <2>3 DEF Kind
<1> QED BY <1>6, <1>7, <1>8 DEF InternedSoFar, Table, t
-----------------------------------------------------------------------------
(* The shared nodes of two expressions have the words of both. *)
DagOf(ns, l, r, d, e) ==
  /\ Formed(ns) /\ l \in DOMAIN ns /\ r \in DOMAIN ns
  /\ Kinds(ns) \subseteq Kinds(d.nodes) \cup Kinds(e.nodes)
  /\ \A x : Values(ns, x)[l] = Eval(d, x) /\ Values(ns, x)[r] = Eval(e, x)

(* The nodes shared by two expressions have the words of both. *)
LEMMA DagShares ==
  ASSUME WellFormed(expression), WellFormed(candidate)
  PROVE  DagOf(Dag.nodes, Dag.left, Dag.right, expression, candidate)
<1> DEFINE d == expression  e == candidate
           s == Intern(<<>>, d)  t == Intern(s.nodes, e)
<1>1. Formed(d.nodes) /\ d.root \in DOMAIN d.nodes /\ Formed(e.nodes) /\ e.root \in DOMAIN e.nodes
  BY DEF WellFormed, Formed
<1>2. Dag.nodes = t.nodes /\ Dag.left = s.at[d.root] /\ Dag.right = t.at[e.root]
  BY DEF Dag
<1>3. \A x : Eval(d, x) = Values(d.nodes, x)[d.root] /\ Eval(e, x) = Values(e.nodes, x)[e.root]
  BY DEF Eval
<1>4. Formed(<<>>) /\ Kinds(<<>>) = {}
  BY DEF Formed, ChildrenFirst, Kinds
<1>5. /\ Formed(s.nodes) /\ Copied(d.nodes, s.nodes, s.at)
      /\ Kinds(s.nodes) \subseteq Kinds(d.nodes)
  <2> HIDE DEF d
  <2> QED BY <1>1, <1>4, InternCopies
<1> HIDE DEF s, d, e
<1>6. /\ Formed(t.nodes) /\ Extends(s.nodes, t.nodes) /\ Copied(e.nodes, t.nodes, t.at)
      /\ Kinds(t.nodes) \subseteq Kinds(s.nodes) \cup Kinds(e.nodes)
  BY <1>1, <1>5, InternCopies
<1> HIDE DEF t
<1>7. Copied(d.nodes, t.nodes, s.at)
  BY <1>5, <1>6 DEF Copied, Extends
<1>8. s.at[d.root] \in DOMAIN t.nodes /\ t.at[e.root] \in DOMAIN t.nodes
  BY <1>1, <1>6, <1>7 DEF Copied
<1>9. ASSUME NEW x
      PROVE  /\ Values(t.nodes, x)[s.at[d.root]] = Eval(d, x)
             /\ Values(t.nodes, x)[t.at[e.root]] = Eval(e, x)
  <2>1. \A i \in DOMAIN d.nodes : Values(t.nodes, x)[s.at[i]] = Values(d.nodes, x)[i]
    BY <1>1, <1>6, <1>7, CopiesHaveTheValue
  <2>2. \A i \in DOMAIN e.nodes : Values(t.nodes, x)[t.at[i]] = Values(e.nodes, x)[i]
    BY <1>1, <1>6, CopiesHaveTheValue
  <2> QED BY <1>1, <1>3, <2>1, <2>2
<1>10. DagOf(t.nodes, s.at[d.root], t.at[e.root], d, e)
  BY <1>5, <1>6, <1>8, <1>9 DEF DagOf
<1> QED BY <1>2, <1>10 DEF d, e
-----------------------------------------------------------------------------
(* Words as numbers: the bits below k, bit k, and a multiple of 2^(k+1).      *)
BitOf(word, k) == IF k \in word THEN 1 ELSE 0
LowBits(word, k) == Num(word \cap 0 .. k - 1)

(* A word is a finite set of numbers. *)
LEMMA WordFinite ==
  ASSUME NEW w \in Words, NEW S
  PROVE  IsFiniteSet(w) /\ IsFiniteSet(w \cap S) /\ w \subseteq Nat
<1>1. IsFiniteSet(Bits) /\ Bits \subseteq Nat
  <2>1. 0 \in Int /\ Width - 1 \in Int
    BY WidthAssumption
  <2> QED BY <2>1, FS_Interval, WidthAssumption DEF Bits
<1> QED BY <1>1, FS_Subset DEF Words

(* The number of a finite set of bits is an integer. *)
LEMMA NumInt ==
  ASSUME NEW S, IsFiniteSet(S), S \subseteq Nat
  PROVE  IntFunction([b \in S |-> 2 ^ b], S) /\ Num(S) \in Int
<1> DEFINE g == [b \in S |-> 2 ^ b]
<1>1. IntFunction(g, S)
  BY PowPositive DEF IntFunction
<1>2. Num(S) = SumFunction(g)
  BY Zenon DEF Num
<1> HIDE DEF g
<1>3. SumFunction(g) \in Int
  BY <1>1, SumType
<1> QED BY <1>1, <1>2, <1>3 DEF g

(* So is that of the low bits of a word. *)
LEMMA LowInt ==
  ASSUME NEW w \in Words, NEW k \in Nat
  PROVE  Num(w) \in Int /\ LowBits(w, k) \in Int
BY WordFinite, NumInt DEF LowBits

(* No bit lies below bit zero. *)
LEMMA LowNone == \A w : LowBits(w, 0) = 0
<1> TAKE w
<1>1. w \cap 0 .. 0 - 1 = {}
  OBVIOUS
<1> DEFINE g == [b \in {} |-> 2 ^ b]
<1>2. IntFunction(g, {})
  BY FS_EmptySet DEF IntFunction
<1>3. Num({}) = SumFunction(g)
  BY Zenon DEF Num
<1> HIDE DEF g
<1> QED BY <1>1, <1>2, <1>3, SumEmpty DEF LowBits

(* Bit k adds its power of two. *)
LEMMA LowNext ==
  ASSUME NEW w \in Words, NEW k \in Nat
  PROVE  LowBits(w, k + 1) = LowBits(w, k) + 2 ^ k * BitOf(w, k)
<1> DEFINE A == w \cap 0 .. k  B == w \cap 0 .. k - 1
           f == [b \in A |-> 2 ^ b]  g == [b \in B |-> 2 ^ b]
<1>1. LowBits(w, k + 1) = Num(A) /\ LowBits(w, k) = Num(B)
  <2>1. (k + 1) - 1 = k
    OBVIOUS
  <2> QED BY <2>1 DEF LowBits
<1>2. LowBits(w, k) \in Int /\ 2 ^ k \in Nat
  BY LowInt, PowPositive
<1>3. CASE k \in w
  <2>1. k \in A /\ A \ {k} = B
    BY <1>3
  <2>2. IsFiniteSet(A) /\ A \subseteq Nat
    BY WordFinite
  <2>3. IntFunction(f, A) /\ f[k] = 2 ^ k
    BY <2>1, <2>2, NumInt
  <2>4. Restrict(f, A \ {k}) = g
    BY <2>1 DEF Restrict
  <2>5. Num(A) = SumFunction(f) /\ Num(B) = SumFunction(g)
    BY Zenon DEF Num
  <2> HIDE DEF f, g, A, B
  <2>6. SumFunction(f) = f[k] + SumFunction(Restrict(f, A \ {k}))
    BY <2>1, <2>3, SumTake
  <2>7. LowBits(w, k + 1) = 2 ^ k + LowBits(w, k)
    BY <1>1, <2>3, <2>4, <2>5, <2>6
  <2>8. BitOf(w, k) = 1
    BY <1>3 DEF BitOf
  <2> QED BY <1>2, <2>7, <2>8
<1>4. CASE k \notin w
  <2>1. A = B
    BY <1>4
  <2>2. BitOf(w, k) = 0
    BY <1>4 DEF BitOf
  <2> HIDE DEF A, B
  <2> QED BY <1>1, <1>2, <2>1, <2>2
<1> QED BY <1>3, <1>4

(* The bits from k on make a multiple of the power of k. *)
LEMMA HighMultiple ==
  ASSUME NEW w \in Words, NEW k \in Nat
  PROVE  \E q \in Int : Num(w) = LowBits(w, k) + 2 ^ k * q
<1> DEFINE T == {n \in Nat : \E q \in Int : LowBits(w, k + n) = LowBits(w, k) + 2 ^ k * q}
<1>1. 0 \in T
  <2>1. LowBits(w, k + 0) = LowBits(w, k) + 2 ^ k * 0
    <3>1. LowBits(w, k) \in Int /\ 2 ^ k \in Nat /\ k + 0 = k
      BY LowInt, PowPositive
    <3> QED BY <3>1
  <2> QED BY <2>1
<1>2. ASSUME NEW n \in T PROVE n + 1 \in T
  <2>1. PICK q \in Int : LowBits(w, k + n) = LowBits(w, k) + 2 ^ k * q
    OBVIOUS
  <2>2. PICK p \in Nat : 2 ^ (k + n) = 2 ^ k * p
    <3>1. k + n \in Nat /\ k <= k + n
      OBVIOUS
    <3> QED BY <3>1, PowMultiple
  <2>3. LowBits(w, k + (n + 1)) = LowBits(w, k + n) + 2 ^ (k + n) * BitOf(w, k + n)
    <3>1. k + n \in Nat /\ k + (n + 1) = (k + n) + 1
      OBVIOUS
    <3> QED BY <3>1, LowNext
  <2> DEFINE a == 2 ^ k  l == LowBits(w, k)  z == BitOf(w, k + n)
  <2>4. a \in Nat /\ l \in Int /\ z \in Int
    BY PowPositive, LowInt DEF BitOf
  <2>5. LowBits(w, k + (n + 1)) = (l + a * q) + (a * p) * z
    BY <2>1, <2>2, <2>3
  <2>6. n + 1 \in Nat
    OBVIOUS
  <2> HIDE DEF a, l, z
  <2>7. (l + a * q) + (a * p) * z = l + a * (q + p * z) /\ q + p * z \in Int
    <3>1. (a * p) * z = a * (p * z) /\ p * z \in Int
      BY <2>4
    <3> HIDE <2>1, <2>2, <2>3
    <3> DEFINE y == p * z
    <3> HIDE DEF y
    <3> QED BY <2>4, <3>1 DEF y
  <2>8. \E r \in Int : LowBits(w, k + (n + 1)) = l + a * r
    BY <2>5, <2>7
  <2> QED BY <2>6, <2>8 DEF a, l
<1>3. Width \in T
  <2> HIDE DEF T
  <2>1. T \in SUBSET Nat
    BY DEF T
  <2> QED BY <1>1, <1>2, <2>1, NatCases, WidthAssumption
<1>4. LowBits(w, k + Width) = Num(w)
  <2>1. w \cap 0 .. (k + Width) - 1 = w
    <3>1. 0 .. Width - 1 \subseteq 0 .. (k + Width) - 1
      BY WidthAssumption
    <3>2. w \subseteq 0 .. Width - 1
      BY DEF Words, Bits
    <3> QED BY <3>1, <3>2
  <2> QED BY <2>1 DEF LowBits
<1> QED BY <1>3, <1>4
-----------------------------------------------------------------------------
(* What a node that adds or scales gathers from the bits below k of its        *)
(* children's words: the carry before bit k is its quotient by 2^k.          *)
Gathered(n, words, k) ==
  IF n.op = "add" THEN SumFunction([j \in DOMAIN words |-> LowBits(words[j], k)])
  ELSE Signed(n.k) * LowBits(words[1], k)
ChildBits(words, k) == [j \in DOMAIN words |-> BitOf(words[j], k)]
Taken(n, words, k) ==
  IF n.op = "add" THEN SumFunction(ChildBits(words, k)) ELSE Signed(n.k) * BitOf(words[1], k)
ChildWords(n, words) ==
  /\ n.op \in Ops \ {"mul"} /\ n.k \in Int
  /\ IsFiniteSet(DOMAIN words) /\ \A j \in DOMAIN words : words[j] \in Words
  /\ words = [j \in DOMAIN words |-> words[j]]
  /\ n.op \in {"not", "scale"} => DOMAIN words = {1}
Carrying(n) == n.op \in {"add", "scale"}

(* A coefficient and its signed number differ by a multiple of the modulus. *)
LEMMA SignedInt ==
  ASSUME NEW c \in Int
  PROVE  /\ Signed(c) \in Int
         /\ \E q \in Int : c = Signed(c) + 2 ^ Width * q
<1>1. 2 ^ Width \in Nat
  BY WidthAssumption, PowPositive
<1>2. CASE c < 2 ^ (Width - 1)
  <2>1. Signed(c) = c /\ c = c + 2 ^ Width * 0
    BY <1>1, <1>2 DEF Signed
  <2> QED BY <2>1
<1>3. CASE ~(c < 2 ^ (Width - 1))
  <2>1. Signed(c) = c - 2 ^ Width /\ c = (c - 2 ^ Width) + 2 ^ Width * 1
    BY <1>1, <1>3 DEF Signed
  <2> QED BY <1>1, <2>1
<1> QED BY <1>2, <1>3

(* The bits and the low bits of the children are integers. *)
LEMMA ChildBitsInt ==
  ASSUME NEW n, NEW words, ChildWords(n, words), NEW k \in Nat
  PROVE  /\ IntFunction(ChildBits(words, k), DOMAIN words)
         /\ IntFunction([j \in DOMAIN words |-> LowBits(words[j], k)], DOMAIN words)
<1>1. \A j \in DOMAIN words : BitOf(words[j], k) \in Int
  BY DEF BitOf
<1>2. \A j \in DOMAIN words : LowBits(words[j], k) \in Int
  BY LowInt DEF ChildWords
<1> QED BY <1>1, <1>2 DEF ChildWords, IntFunction, ChildBits

(* What is gathered grows by what bit k takes in. *)
LEMMA GatheredNext ==
  ASSUME NEW n, NEW words, ChildWords(n, words), Carrying(n), NEW k \in Nat
  PROVE  /\ Gathered(n, words, k) \in Int /\ Taken(n, words, k) \in Int
         /\ Gathered(n, words, k + 1) = Gathered(n, words, k) + 2 ^ k * Taken(n, words, k)
<1> DEFINE d == 2 ^ k
           f == [j \in DOMAIN words |-> LowBits(words[j], k)]
           g == ChildBits(words, k)
           h == [j \in DOMAIN words |-> LowBits(words[j], k + 1)]
<1>1. d \in Int
  BY PowPositive
<1>2. CASE n.op = "add"
  <2>1. IntFunction(f, DOMAIN words) /\ IntFunction(g, DOMAIN words) /\ IntFunction(h, DOMAIN words)
    <3>1. k + 1 \in Nat
      OBVIOUS
    <3> QED BY <3>1, ChildBitsInt
  <2>2. \A j \in DOMAIN words : h[j] = f[j] + d * g[j]
    BY LowNext DEF ChildWords, ChildBits
  <2>3. /\ Gathered(n, words, k) = SumFunction(f) /\ Gathered(n, words, k + 1) = SumFunction(h)
        /\ Taken(n, words, k) = SumFunction(g)
    BY <1>2 DEF Gathered, Taken
  <2> HIDE DEF f, g, h, d
  <2>4. SumFunction(f) \in Int /\ SumFunction(g) \in Int
    BY <2>1, SumType
  <2>5. SumFunction(h) = SumFunction(f) + d * SumFunction(g)
    BY <1>1, <2>1, <2>2, SumLinear
  <2> QED BY <2>3, <2>4, <2>5 DEF d
<1>3. CASE n.op = "scale"
  <2> DEFINE s == Signed(n.k)  l == LowBits(words[1], k)  b == BitOf(words[1], k)
  <2>1. words[1] \in Words
    BY <1>3 DEF ChildWords
  <2>2. s \in Int /\ l \in Int /\ b \in Int
    BY <2>1, LowInt, SignedInt DEF ChildWords, BitOf
  <2>3. LowBits(words[1], k + 1) = l + d * b
    BY <2>1, LowNext
  <2>4. /\ Gathered(n, words, k) = s * l /\ Gathered(n, words, k + 1) = s * LowBits(words[1], k + 1)
        /\ Taken(n, words, k) = s * b
    BY <1>3 DEF Gathered, Taken
  <2> HIDE DEF s, l, b, d
  <2>5. s * (l + d * b) = s * l + d * (s * b)
    BY <1>1, <2>2
  <2>6. s * l \in Int /\ s * b \in Int
    BY <2>2
  <2> QED BY <2>3, <2>4, <2>5, <2>6 DEF d
<1> QED BY <1>2, <1>3 DEF Carrying

(* Nothing is gathered below bit zero. *)
LEMMA GatheredNone ==
  ASSUME NEW n, NEW words, ChildWords(n, words), Carrying(n)
  PROVE  Gathered(n, words, 0) = 0
<1>1. CASE n.op = "add"
  <2> DEFINE f == [j \in DOMAIN words |-> LowBits(words[j], 0)]
  <2>1. IntFunction(f, DOMAIN words) /\ \A j \in DOMAIN words : f[j] = 0
    BY ChildBitsInt, LowNone
  <2>2. Gathered(n, words, 0) = SumFunction(f)
    BY <1>1 DEF Gathered
  <2> DEFINE s == SumFunction(f)
  <2> HIDE DEF f
  <2>3. s = s + 1 * s
    BY <2>1, SumLinear
  <2>4. s \in Int
    BY <2>1, SumType
  <2>5. Gathered(n, words, 0) = s
    BY <2>2
  <2> HIDE DEF s
  <2>6. s = 0
    BY <2>3, <2>4
  <2> QED BY <2>5, <2>6
<1>2. CASE n.op = "scale"
  BY <1>2, LowNone, SignedInt DEF Gathered, ChildWords
<1> QED BY <1>1, <1>2 DEF Carrying

(* The total is the quotient of what is gathered up to the bit. *)
LEMMA TotalIsQuotient ==
  ASSUME NEW n, NEW words, ChildWords(n, words), Carrying(n), NEW k \in Nat, NEW symbol
  PROVE  /\ Total(n, k, symbol, Gathered(n, words, k) \div 2 ^ k, ChildBits(words, k))
              = Gathered(n, words, k + 1) \div 2 ^ k
         /\ Gathered(n, words, k + 1) \div 2 ^ (k + 1) = (Gathered(n, words, k + 1) \div 2 ^ k) \div 2
<1> DEFINE a == Gathered(n, words, k)  b == Gathered(n, words, k + 1)  t == Taken(n, words, k)
           d == 2 ^ k  bits == ChildBits(words, k)
<1>1. a \in Int /\ t \in Int /\ b = a + d * t /\ d \in Nat \ {0} /\ b \in Int /\ 2 ^ (k + 1) = 2 * d
  <2>1. k + 1 \in Nat
    OBVIOUS
  <2> QED BY <2>1, GatheredNext, PowPositive, PowNext
<1>2. Total(n, k, symbol, a \div d, bits) = (a \div d) + t
  <2>1. CASE n.op = "add"
    BY <2>1 DEF Total, Taken
  <2>2. CASE n.op = "scale"
    <3>1. bits[1] = BitOf(words[1], k)
      BY <2>2 DEF ChildWords, ChildBits
    <3> HIDE DEF bits
    <3> QED BY <2>2, <3>1 DEF Total, Taken
  <2> QED BY <2>1, <2>2 DEF Carrying
<1> HIDE DEF a, b, t, d, bits
<1>3. (a + d * t) \div d = (a \div d) + t
  BY <1>1, DivAdd
<1>4. b \div (2 * d) = (b \div d) \div 2
  BY <1>1, DivDiv
<1> QED BY <1>1, <1>2, <1>3, <1>4 DEF a, b, t, d, bits

(* The word of the node, as a number, is what is gathered up to the bit and a  *)
(* multiple of the power above it.                                           *)
LEMMA WholeIsGathered ==
  ASSUME NEW n, NEW words, ChildWords(n, words), Carrying(n), NEW k \in Bits
  PROVE  \E s, q \in Int : /\ \A x : Result(n, words, x) = Word(s)
                           /\ s = Gathered(n, words, k + 1) + 2 ^ (k + 1) * q
<1> DEFINE d == 2 ^ (k + 1)
<1>1. k \in Nat /\ k + 1 \in Nat /\ d \in Int
  BY PowPositive DEF Bits
<1>2. CASE n.op = "add"
  <2> DEFINE low == [j \in DOMAIN words |-> LowBits(words[j], k + 1)]
             all == [j \in DOMAIN words |-> Num(words[j])]
             high == [j \in DOMAIN words |->
                        CHOOSE q \in Int : Num(words[j]) = LowBits(words[j], k + 1) + d * q]
  <2>1. \A j \in DOMAIN words : high[j] \in Int /\ all[j] = low[j] + d * high[j]
    <3> TAKE j \in DOMAIN words
    <3>1. \E q \in Int : Num(words[j]) = LowBits(words[j], k + 1) + d * q
      BY <1>1, HighMultiple DEF ChildWords
    <3> QED BY <3>1
  <2>2. \A j \in DOMAIN words : all[j] \in Int
    BY <1>1, LowInt DEF ChildWords
  <2>3. IntFunction(low, DOMAIN words)
    BY <1>1, ChildBitsInt
  <2>4. IntFunction(all, DOMAIN words) /\ IntFunction(high, DOMAIN words)
    <3>1. all = [j \in DOMAIN words |-> all[j]] /\ high = [j \in DOMAIN words |-> high[j]]
      OBVIOUS
    <3> HIDE DEF all, high
    <3> QED BY <2>1, <2>2, <3>1 DEF IntFunction, ChildWords
  <2>5. \A x : Result(n, words, x) = Word(SumFunction(all))
    BY <1>2 DEF Result, SumOver
  <2>6. Gathered(n, words, k + 1) = SumFunction(low)
    BY <1>2 DEF Gathered
  <2> HIDE DEF low, all, high, d
  <2>7. SumFunction(all) = SumFunction(low) + d * SumFunction(high)
    BY <1>1, <2>1, <2>3, <2>4, SumLinear
  <2>8. SumFunction(all) \in Int /\ SumFunction(high) \in Int
    BY <2>4, SumType
  <2> QED BY <2>5, <2>6, <2>7, <2>8 DEF d
<1>3. CASE n.op = "scale"
  <2> DEFINE c == Signed(n.k)  l == LowBits(words[1], k + 1)  w == Num(words[1])
  <2>1. words[1] \in Words /\ n.k \in Int
    BY <1>3 DEF ChildWords
  <2>2. c \in Int /\ l \in Int /\ w \in Int
    BY <1>1, <2>1, LowInt, SignedInt
  <2>3. PICK p \in Int : w = l + d * p
    BY <1>1, <2>1, HighMultiple
  <2>4. PICK q \in Int : n.k = c + 2 ^ Width * q
    BY <2>1, SignedInt
  <2>5. PICK r \in Nat : 2 ^ Width = d * r
    <3>1. k + 1 <= Width /\ Width \in Nat
      BY WidthAssumption DEF Bits
    <3> QED BY <1>1, <3>1, PowMultiple
  <2>6. \A x : Result(n, words, x) = Word(n.k * w)
    BY <1>3 DEF Result
  <2>7. Gathered(n, words, k + 1) = c * l
    BY <1>3 DEF Gathered
  <2> HIDE DEF c, l, w, d
  <2>8. n.k * w = c * l + d * (c * p + (r * q) * w)
    <3>1. n.k = c + d * (r * q)
      <4>1. (d * r) * q = d * (r * q)
        BY <1>1
      <4> QED BY <2>4, <2>5, <4>1
    <3>2. (c + d * (r * q)) * w = c * w + d * ((r * q) * w)
      BY <1>1, <2>2
    <3>3. c * (l + d * p) = c * l + d * (c * p)
      BY <1>1, <2>2
    <3> DEFINE u == c * p  v == (r * q) * w
    <3>4. u \in Int /\ v \in Int /\ c * l \in Int
      BY <2>2
    <3>5. n.k * w = (c * l + d * u) + d * v
      BY <2>3, <3>1, <3>2, <3>3
    <3> HIDE DEF u, v
    <3>6. (c * l + d * u) + d * v = c * l + d * (u + v)
      <4> DEFINE y == c * l
      <4>1. y \in Int
        BY <3>4
      <4> HIDE DEF y
      <4>2. (y + d * u) + d * v = y + d * (u + v)
        BY <1>1, <3>4, <4>1
      <4> QED BY <4>2 DEF y
    <3> QED BY <3>5, <3>6 DEF u, v
  <2>9. n.k * w \in Int /\ c * p + (r * q) * w \in Int
    BY <2>1, <2>2
  <2> QED BY <2>6, <2>7, <2>8, <2>9 DEF d
<1> QED BY <1>2, <1>3 DEF Carrying

(* Bit k of a node's word is a bit of what it gathered. *)
LEMMA SlotBit ==
  ASSUME NEW n, NEW words, ChildWords(n, words), Carrying(n), NEW k \in Bits, NEW x
  PROVE  BitOf(Result(n, words, x), k) = (Gathered(n, words, k + 1) \div 2 ^ k) % 2
<1>1. PICK s, q \in Int : /\ \A y : Result(n, words, y) = Word(s)
                          /\ s = Gathered(n, words, k + 1) + 2 ^ (k + 1) * q
  BY WholeIsGathered
<1> DEFINE g == Gathered(n, words, k + 1)  d == 2 ^ k
<1>2. k \in Nat /\ g \in Int /\ d \in Nat \ {0} /\ 2 ^ (k + 1) = 2 * d
  <2>1. k \in Nat /\ k + 1 \in Nat
    BY DEF Bits
  <2> QED BY <2>1, GatheredNext, PowPositive, PowNext
<1>3. s = g + d * (2 * q)
  <2>1. (2 * d) * q = d * (2 * q)
    BY <1>2
  <2> QED BY <1>1, <1>2, <2>1
<1>4. BitOf(Result(n, words, x), k) = IF (s \div d) % 2 = 1 THEN 1 ELSE 0
  BY <1>1 DEF Word, BitOf
<1> HIDE DEF g, d
<1>5. s \div d = (g \div d) + 2 * q /\ g \div d \in Int
  <2> DEFINE p == 2 * q
  <2>1. p \in Int
    OBVIOUS
  <2> HIDE DEF p
  <2>2. (g + d * p) \div d = (g \div d) + p
    BY <1>2, <2>1, DivAdd
  <2> QED BY <1>2, <1>3, <2>2, DivMod DEF p
<1>6. (s \div d) % 2 = (g \div d) % 2 /\ (g \div d) % 2 \in 0 .. 1
  <2> DEFINE e == g \div d
  <2>1. e \in Int
    BY <1>5
  <2> HIDE DEF e
  <2>2. (e + 2 * q) % 2 = e % 2 /\ e % 2 \in 0 .. 1
    BY <2>1
  <2> QED BY <1>5, <2>2 DEF e
<1> QED BY <1>4, <1>6 DEF g, d

(* Every node's total is its word's bit, modulo two. *)
Fed(n, words, k, x, symbol, carried) ==
  /\ ChildWords(n, words) /\ k \in Bits
  /\ n.op = "var" => (n.k \in symbol <=> k \in x[n.k])
  /\ Carrying(n) => carried = Gathered(n, words, k) \div 2 ^ k

(* Whatever its operator, a node's total leaves the bit of its word. *)
LEMMA NodeBit ==
  ASSUME NEW n, NEW words, NEW k, NEW x, NEW symbol, NEW carried, Fed(n, words, k, x, symbol, carried)
  PROVE  Total(n, k, symbol, carried, ChildBits(words, k)) % 2 = BitOf(Result(n, words, x), k)
<1>0. /\ ChildWords(n, words) /\ k \in Bits
      /\ n.op = "var" => (n.k \in symbol <=> k \in x[n.k])
      /\ Carrying(n) => carried = Gathered(n, words, k) \div 2 ^ k
  BY DEF Fed
<1> USE <1>0
<1> DEFINE bits == ChildBits(words, k)
<1>1. k \in Nat
  BY DEF Bits
<1>2. DOMAIN bits = DOMAIN words /\ \A j \in DOMAIN words : bits[j] = BitOf(words[j], k) /\ bits[j] \in {0, 1} /\ (bits[j] = 1 <=> k \in words[j])
  BY DEF ChildBits, BitOf
<1>3. CASE Carrying(n)
  <2>1. Total(n, k, symbol, carried, bits) = Gathered(n, words, k + 1) \div 2 ^ k
    BY <1>1, <1>3, TotalIsQuotient
  <2> QED BY <1>3, <2>1, SlotBit
<1> HIDE DEF bits
<1>4. CASE n.op = "var"
  <2>1. Total(n, k, symbol, carried, bits) = IF n.k \in symbol THEN 1 ELSE 0
    BY <1>4 DEF Total
  <2>2. Result(n, words, x) = x[n.k]
    BY <1>4 DEF Result
  <2> QED BY <1>4, <2>1, <2>2 DEF BitOf, bits
<1>5. CASE n.op = "const"
  <2> DEFINE e == n.k \div 2 ^ k
  <2>1. Total(n, k, symbol, carried, bits) = e % 2
    BY <1>5 DEF Total
  <2>2. Result(n, words, x) = Word(n.k)
    BY <1>5 DEF Result
  <2>3. k \in Word(n.k) <=> e % 2 = 1
    BY DEF Word
  <2>4. e \in Int
    BY <1>1, PowPositive, DivMod DEF ChildWords
  <2> HIDE DEF e
  <2>5. e % 2 \in 0 .. 1 /\ (e % 2) % 2 = e % 2
    BY <2>4
  <2> QED BY <2>1, <2>2, <2>3, <2>5 DEF BitOf, bits
<1>6. CASE n.op = "not"
  <2>1. 1 \in DOMAIN words
    BY <1>6 DEF ChildWords
  <2>2. Total(n, k, symbol, carried, bits) = 1 - bits[1]
    BY <1>6 DEF Total
  <2>3. Result(n, words, x) = Bits \ words[1]
    BY <1>6 DEF Result
  <2> QED BY <1>2, <2>1, <2>2, <2>3 DEF BitOf, bits
<1>7. CASE n.op = "and"
  <2>1. Total(n, k, symbol, carried, bits) = IF \A j \in DOMAIN bits : bits[j] = 1 THEN 1 ELSE 0
    BY <1>7 DEF Total
  <2>2. Result(n, words, x) = {b \in Bits : \A j \in DOMAIN words : b \in words[j]}
    BY <1>7 DEF Result
  <2> QED BY <1>2, <2>1, <2>2 DEF BitOf, bits
<1>8. CASE n.op = "or"
  <2>1. Total(n, k, symbol, carried, bits) = IF \E j \in DOMAIN bits : bits[j] = 1 THEN 1 ELSE 0
    BY <1>8 DEF Total
  <2>2. Result(n, words, x) = {b \in Bits : \E j \in DOMAIN words : b \in words[j]}
    BY <1>8 DEF Result
  <2> QED BY <1>2, <2>1, <2>2 DEF BitOf, bits
<1>9. CASE n.op = "xor"
  <2> DEFINE s == SumFunction(bits)  J == {j \in DOMAIN words : k \in words[j]}
  <2>1. Total(n, k, symbol, carried, bits) = s % 2
    BY <1>9 DEF Total
  <2>2. Result(n, words, x) = {b \in Bits : Cardinality({j \in DOMAIN words : b \in words[j]}) % 2 = 1}
    BY <1>9 DEF Result
  <2>3. s = Cardinality(J) /\ s \in Int
    <3>1. IntFunction(bits, DOMAIN words)
      BY <1>1, ChildBitsInt DEF bits
    <3>2. {j \in DOMAIN words : bits[j] = 1} = J
      BY <1>2
    <3>3. \A j \in DOMAIN words : bits[j] \in {0, 1}
      BY <1>2
    <3> HIDE DEF J
    <3> QED BY <3>1, <3>2, <3>3, SumOnes, SumType
  <2>4. k \in Result(n, words, x) <=> Cardinality(J) % 2 = 1
    BY <2>2
  <2> HIDE DEF s, J
  <2>5. s % 2 \in 0 .. 1 /\ (s % 2) % 2 = s % 2
    BY <2>3
  <2> QED BY <2>1, <2>3, <2>4, <2>5 DEF BitOf, bits
<1> QED BY <1>3, <1>4, <1>5, <1>6, <1>7, <1>8, <1>9 DEF ChildWords, Ops, Carrying, bits
-----------------------------------------------------------------------------
(* Totals gives every node its total. *)
BitSerial(ns) == Formed(ns) /\ \A i \in DOMAIN ns : ns[i].op # "mul"
Carried(ns, carry, i) == IF i \in Slots(ns) THEN carry[i] ELSE 0
TotalsAre(t, ns, b, symbol, carry) ==
  /\ DOMAIN t = DOMAIN ns
  /\ \A i \in DOMAIN ns :
       /\ t[i] \in Int
       /\ t[i] = Total(ns[i], b, symbol, Carried(ns, carry, i), [j \in DOMAIN ns[i].of |-> t[ns[i].of[j]] % 2])

(* A total is an integer. *)
LEMMA TotalInt ==
  ASSUME NEW n \in Nodes, n.op # "mul", NEW b \in Nat, NEW symbol, NEW carried \in Int,
         NEW bits, IntFunction(bits, DOMAIN n.of), n.op \in {"not", "scale"} => DOMAIN n.of = {1}
  PROVE  Total(n, b, symbol, carried, bits) \in Int
<1>1. n.op \in Ops \ {"mul"} /\ n.k \in Int
  BY DEF Nodes
<1>2. SumFunction(bits) \in Int
  BY SumType
<1>3. \A j \in DOMAIN n.of : bits[j] \in Int
  BY DEF IntFunction
<1>4. CASE n.op \in {"var", "and", "or"}
  BY <1>4 DEF Total
<1>5. CASE n.op = "const"
  <2>1. (n.k \div 2 ^ b) \in Int
    BY <1>1, PowPositive, DivMod
  <2> DEFINE e == n.k \div 2 ^ b
  <2>2. Total(n, b, symbol, carried, bits) = e % 2
    BY <1>5 DEF Total
  <2> HIDE DEF e
  <2> QED BY <2>1, <2>2 DEF e
<1>6. CASE n.op = "not"
  BY <1>3, <1>6 DEF Total
<1>7. CASE n.op = "xor"
  BY <1>2, <1>7 DEF Total
<1>8. CASE n.op = "add"
  BY <1>2, <1>8 DEF Total
<1>9. CASE n.op = "scale"
  <2>1. Total(n, b, symbol, carried, bits) = carried + Signed(n.k) * bits[1]
    BY <1>9 DEF Total
  <2>2. Signed(n.k) \in Int /\ bits[1] \in Int
    BY <1>1, <1>3, <1>9, SignedInt
  <2> QED BY <2>1, <2>2
<1> QED BY <1>1, <1>4, <1>5, <1>6, <1>7, <1>8, <1>9 DEF Ops

(* Totals gives every node its total. *)
LEMMA TotalsExist ==
  ASSUME NEW ns, BitSerial(ns), NEW b \in Nat, NEW symbol, NEW carry \in [Slots(ns) -> Int]
  PROVE  TotalsAre(Totals(ns, b, symbol, carry), ns, b, symbol, carry)
<1> DEFINE D == DOMAIN ns
           place == [i \in D |-> i]
           low == [i \in D |-> {ns[i].of[j] : j \in DOMAIN ns[i].of}]
           step == [i \in D |-> [w \in [low[i] -> Int] |->
                      Total(ns[i], b, symbol, Carried(ns, carry, i), [j \in DOMAIN ns[i].of |-> w[ns[i].of[j]] % 2])]]
           rec(v) == [i \in D |->
                      Total(ns[i], b, symbol, Carried(ns, carry, i), [j \in DOMAIN ns[i].of |-> v[ns[i].of[j]] % 2])]
<1>0. Formed(ns) /\ \A i \in D : ns[i].op # "mul"
  BY DEF BitSerial
<1>1. \A i \in D : \A e \in low[i] : e \in D /\ place[e] < place[i]
  BY <1>0, NodeForm
<1>2. \A i \in D : step[i] \in [[low[i] -> Int] -> Int]
  <2> TAKE i \in D
  <2>1. ASSUME NEW w \in [low[i] -> Int]
        PROVE  Total(ns[i], b, symbol, Carried(ns, carry, i), [j \in DOMAIN ns[i].of |-> w[ns[i].of[j]] % 2]) \in Int
    <3> DEFINE bits == [j \in DOMAIN ns[i].of |-> w[ns[i].of[j]] % 2]
    <3>1. IntFunction(bits, DOMAIN ns[i].of)
      <4>1. \A j \in DOMAIN ns[i].of : w[ns[i].of[j]] \in Int
        OBVIOUS
      <4>2. IsFiniteSet(DOMAIN ns[i].of)
        BY <1>0, NodeForm
      <4>3. bits \in [DOMAIN ns[i].of -> Int]
        BY <4>1
      <4> QED BY <4>2, <4>3 DEF IntFunction
    <3>2. Carried(ns, carry, i) \in Int
      BY DEF Carried
    <3>3. ns[i] \in Nodes /\ ns[i].op # "mul" /\ (ns[i].op \in {"not", "scale"} => DOMAIN ns[i].of = {1})
      <4>1. ns[i] \in Nodes
        BY <1>0 DEF Formed
      <4> QED BY <1>0, <4>1, NodeForm
    <3> HIDE DEF bits
    <3>4. Total(ns[i], b, symbol, Carried(ns, carry, i), bits) \in Int
      BY <3>1, <3>2, <3>3, TotalInt
    <3> QED BY <3>4 DEF bits
  <2> HIDE DEF low
  <2> QED BY <2>1
<1>3. Len(ns) \in Nat /\ place \in [D -> 0 .. Len(ns)]
  BY <1>0 DEF Formed
<1>4. PICK v \in [D -> Int] : \A i \in D : v[i] = step[i][Restrict(v, low[i])]
  <2> HIDE DEF D, place, low, step
  <2>1. RankedSteps(D, Len(ns), place, Int, step, low)
    BY <1>1, <1>2, <1>3 DEF RankedSteps
  <2> QED BY <2>1, RankRecursion
<1> DEFINE Follows(w) == w \in [D -> Int] /\ w = rec(w)
<1>5. v = rec(v)
  <2> SUFFICES ASSUME NEW i \in D
               PROVE  v[i] = Total(ns[i], b, symbol, Carried(ns, carry, i), [j \in DOMAIN ns[i].of |-> v[ns[i].of[j]] % 2])
    BY <1>4
  <2> DEFINE w == Restrict(v, low[i])
  <2>1. low[i] \subseteq D
    BY <1>1
  <2>2. w \in [low[i] -> Int] /\ \A e \in low[i] : w[e] = v[e]
    BY <2>1, <1>4 DEF Restrict
  <2>3. step[i][w] = Total(ns[i], b, symbol, Carried(ns, carry, i), [j \in DOMAIN ns[i].of |-> w[ns[i].of[j]] % 2])
    <3> HIDE DEF w, low
    <3> QED BY <2>2
  <2>4. [j \in DOMAIN ns[i].of |-> w[ns[i].of[j]] % 2] = [j \in DOMAIN ns[i].of |-> v[ns[i].of[j]] % 2]
    <3>1. \A j \in DOMAIN ns[i].of : ns[i].of[j] \in low[i]
      OBVIOUS
    <3> HIDE DEF w, low
    <3> QED BY <3>1, <2>2
  <2> HIDE DEF w, step, low
  <2>5. v[i] = step[i][w]
    BY <1>4 DEF w
  <2> QED BY <2>3, <2>4, <2>5
<1>6. Totals(ns, b, symbol, carry) = CHOOSE w : w = rec(w)
  BY Zenon DEF Totals, Carried
<1> DEFINE t == Totals(ns, b, symbol, carry)
<1>7. t = rec(t)
  <2> HIDE DEF rec
  <2> QED BY <1>5, <1>6
<1> HIDE DEF t
<1>8. ASSUME NEW i \in D
      PROVE  /\ t[i] = Total(ns[i], b, symbol, Carried(ns, carry, i), [j \in DOMAIN ns[i].of |-> t[ns[i].of[j]] % 2])
             /\ v[i] = Total(ns[i], b, symbol, Carried(ns, carry, i), [j \in DOMAIN ns[i].of |-> v[ns[i].of[j]] % 2])
  BY <1>5, <1>7
<1> DEFINE T == {i \in D : t[i] = v[i]}
<1>9. FromChildren(ns, T)
  <2> SUFFICES ASSUME NEW i \in D, \A j \in DOMAIN ns[i].of : ns[i].of[j] \in T PROVE t[i] = v[i]
    BY DEF FromChildren
  <2>1. [j \in DOMAIN ns[i].of |-> t[ns[i].of[j]] % 2] = [j \in DOMAIN ns[i].of |-> v[ns[i].of[j]] % 2]
    OBVIOUS
  <2> QED BY <1>8, <2>1
<1> HIDE DEF T
<1>10. \A i \in D : i \in T
  BY <1>0, <1>9, NodeCases
<1>11. \A i \in D : t[i] \in Int
  BY <1>4, <1>10 DEF T
<1>12. DOMAIN t = D
  BY <1>7
<1>13. TotalsAre(t, ns, b, symbol, carry)
  BY <1>8, <1>11, <1>12 DEF TotalsAre
<1> QED BY <1>13 DEF t
-----------------------------------------------------------------------------
(* The bit-serial machine computes the words: before bit k its carries are     *)
(* the quotients, and a total's remainder is its node's bit.                 *)
ChildrenOf(ns, x, i) == [j \in DOMAIN ns[i].of |-> Values(ns, x)[ns[i].of[j]]]
Quotients(ns, x, k) == [i \in Slots(ns) |-> Gathered(ns[i], ChildrenOf(ns, x, i), k) \div 2 ^ k]
WordsFor(x, ns) == \A v \in VarsIn(ns) : x[v] \in Words
SymbolFor(symbol, x, k, ns) == \A v \in VarsIn(ns) : v \in symbol <=> k \in x[v]

(* The word of a node follows from those of its children. *)
LEMMA ChildrenForm ==
  ASSUME NEW ns, BitSerial(ns), NEW x, WordsFor(x, ns), NEW i \in DOMAIN ns
  PROVE  /\ ChildWords(ns[i], ChildrenOf(ns, x, i))
         /\ Values(ns, x)[i] = Result(ns[i], ChildrenOf(ns, x, i), x)
<1> DEFINE words == ChildrenOf(ns, x, i)
<1>1. Formed(ns) /\ ns[i].op # "mul"
  BY DEF BitSerial
<1>2. DOMAIN words = DOMAIN ns[i].of /\ words = [j \in DOMAIN words |-> words[j]]
  BY DEF ChildrenOf
<1>3. \A j \in DOMAIN words : words[j] \in Words
  <2>1. \A j \in DOMAIN ns[i].of : ns[i].of[j] \in DOMAIN ns
    BY <1>1, NodeForm
  <2>2. \A c \in DOMAIN ns : Values(ns, x)[c] \in Words
    BY <1>1, ValuesAreWords DEF WordsFor
  <2> QED BY <1>2, <2>1, <2>2 DEF ChildrenOf
<1>4. Values(ns, x)[i] = Result(ns[i], words, x)
  BY <1>1, ValuesExist DEF ValuesAre, ChildrenOf
<1> HIDE DEF words
<1>5. ChildWords(ns[i], words)
  BY <1>1, <1>2, <1>3, NodeForm DEF ChildWords
<1> QED BY <1>4, <1>5 DEF words

(* The quotients are carries. *)
LEMMA QuotientsInt ==
  ASSUME NEW ns, BitSerial(ns), NEW x, WordsFor(x, ns), NEW k \in Nat
  PROVE  Quotients(ns, x, k) \in [Slots(ns) -> Int]
<1> SUFFICES ASSUME NEW i \in Slots(ns)
             PROVE  Gathered(ns[i], ChildrenOf(ns, x, i), k) \div 2 ^ k \in Int
  BY DEF Quotients
<1>1. i \in DOMAIN ns /\ Carrying(ns[i])
  BY DEF Slots, Carrying
<1>2. Gathered(ns[i], ChildrenOf(ns, x, i), k) \in Int
  BY <1>1, ChildrenForm, GatheredNext
<1> QED BY <1>2, PowPositive, DivMod

(* From quotients a step computes the bits of the words and the next quotients. *)
LEMMA MachineStep ==
  ASSUME NEW ns, BitSerial(ns), NEW x, WordsFor(x, ns), NEW k \in Bits,
         NEW symbol, SymbolFor(symbol, x, k, ns)
  PROVE  LET total == Totals(ns, k, symbol, Quotients(ns, x, k))
         IN /\ \A i \in DOMAIN ns : total[i] % 2 = BitOf(Values(ns, x)[i], k)
            /\ NextCarry(ns, total) = Quotients(ns, x, k + 1)
<1> DEFINE carry == Quotients(ns, x, k)  total == Totals(ns, k, symbol, carry)
           T == {i \in DOMAIN ns : total[i] % 2 = BitOf(Values(ns, x)[i], k)}
<1>1. k \in Nat /\ Formed(ns)
  BY DEF Bits, BitSerial
<1>2. TotalsAre(total, ns, k, symbol, carry)
  BY <1>1, QuotientsInt, TotalsExist
<1> HIDE DEF total
<1>3. ASSUME NEW i \in DOMAIN ns, Carrying(ns[i])
      PROVE  Carried(ns, carry, i) = Gathered(ns[i], ChildrenOf(ns, x, i), k) \div 2 ^ k
  BY <1>3 DEF Carried, Quotients, Slots, Carrying
<1> HIDE DEF carry
<1>4. ASSUME NEW i \in DOMAIN ns, \A j \in DOMAIN ns[i].of : ns[i].of[j] \in T
      PROVE  total[i] = Total(ns[i], k, symbol, Carried(ns, carry, i), ChildBits(ChildrenOf(ns, x, i), k))
  <2>1. [j \in DOMAIN ns[i].of |-> total[ns[i].of[j]] % 2] = ChildBits(ChildrenOf(ns, x, i), k)
    BY <1>4 DEF ChildBits, ChildrenOf
  <2> QED BY <1>2, <2>1 DEF TotalsAre
<1>5. FromChildren(ns, T)
  <2> SUFFICES ASSUME NEW i \in DOMAIN ns, \A j \in DOMAIN ns[i].of : ns[i].of[j] \in T
               PROVE  total[i] % 2 = BitOf(Values(ns, x)[i], k)
    BY DEF FromChildren
  <2> DEFINE n == ns[i]  words == ChildrenOf(ns, x, i)  c == Carried(ns, carry, i)
  <2>1. total[i] = Total(n, k, symbol, c, ChildBits(words, k))
    BY <1>4
  <2>2. ChildWords(n, words) /\ Values(ns, x)[i] = Result(n, words, x)
    BY ChildrenForm
  <2>3. Carrying(n) => c = Gathered(n, words, k) \div 2 ^ k
    BY <1>3
  <2>4. n.op = "var" => (n.k \in symbol <=> k \in x[n.k])
    BY DEF SymbolFor, VarsIn
  <2> HIDE DEF n, words, c
  <2>5. Fed(n, words, k, x, symbol, c)
    BY <2>2, <2>3, <2>4 DEF Fed
  <2>6. Total(n, k, symbol, c, ChildBits(words, k)) % 2 = BitOf(Result(n, words, x), k)
    BY <2>5, NodeBit
  <2> QED BY <2>1, <2>2, <2>6
<1>6. \A i \in DOMAIN ns : i \in T
  <2> HIDE DEF T
  <2> QED BY <1>1, <1>5, NodeCases
<1>7. ASSUME NEW i \in Slots(ns)
      PROVE  total[i] \div 2 = Gathered(ns[i], ChildrenOf(ns, x, i), k + 1) \div 2 ^ (k + 1)
  <2> DEFINE n == ns[i]  words == ChildrenOf(ns, x, i)  c == Carried(ns, carry, i)
  <2>1. i \in DOMAIN ns /\ Carrying(n)
    BY DEF Slots, Carrying
  <2>2. \A j \in DOMAIN n.of : n.of[j] \in DOMAIN ns
    BY <1>1, <2>1, NodeForm
  <2>3. total[i] = Total(n, k, symbol, c, ChildBits(words, k))
    BY <1>4, <1>6, <2>1, <2>2
  <2>4. ChildWords(n, words) /\ c = Gathered(n, words, k) \div 2 ^ k
    BY <1>3, <2>1, ChildrenForm
  <2> HIDE DEF n, words, c, T
  <2>5. total[i] = Gathered(n, words, k + 1) \div 2 ^ k
    BY <1>1, <2>1, <2>3, <2>4, TotalIsQuotient
  <2>6. Gathered(n, words, k + 1) \div 2 ^ (k + 1) = (Gathered(n, words, k + 1) \div 2 ^ k) \div 2
    BY <1>1, <2>1, <2>4, TotalIsQuotient
  <2> QED BY <2>5, <2>6 DEF n, words
<1>8. NextCarry(ns, total) = Quotients(ns, x, k + 1)
  <2> HIDE DEF T
  <2> QED BY <1>7 DEF NextCarry, Quotients
<1> QED BY <1>6, <1>8 DEF total, carry

(* The first quotients are zero. *)
LEMMA MachineStart ==
  ASSUME NEW ns, BitSerial(ns), NEW x, WordsFor(x, ns)
  PROVE  Quotients(ns, x, 0) = Zero(ns)
<1>1. ASSUME NEW i \in Slots(ns) PROVE Gathered(ns[i], ChildrenOf(ns, x, i), 0) \div 2 ^ 0 = 0
  <2>1. i \in DOMAIN ns /\ Carrying(ns[i])
    BY DEF Slots, Carrying
  <2>2. Gathered(ns[i], ChildrenOf(ns, x, i), 0) = 0
    BY <2>1, ChildrenForm, GatheredNone
  <2>3. 2 ^ 0 \in Nat \ {0}
    BY PowPositive
  <2> DEFINE d == 2 ^ 0
  <2> HIDE DEF d
  <2>4. (d * 0 + 0) \div d = 0
    BY <2>3, DivUnique DEF d
  <2>5. d * 0 + 0 = 0
    BY <2>3 DEF d
  <2> QED BY <2>2, <2>4, <2>5 DEF d
<1> QED BY <1>1 DEF Quotients, Zero
-----------------------------------------------------------------------------
(* A run feeds the machine the bits of the words x, lowest first; r[k] is the *)
(* carry vector before bit k.                                                *)
Machine == [nodes |-> nodes, left |-> left, right |-> right, vars |-> AllVars]
Symbol(m, x, k) == {v \in m.vars : k \in x[v]}
TotalsAt(m, x, k, c) == Totals(m.nodes, k, Symbol(m, x, k), c)
CarryAfter(m, x, k, c) == NextCarry(m.nodes, TotalsAt(m, x, k, c))
IsRun(m, x, r, n) ==
  r[0] = Zero(m.nodes) /\ \A k \in 0 .. n - 1 : r[k + 1] = CarryAfter(m, x, k, r[k])
SameBit(m, total) == total[m.left] % 2 = total[m.right] % 2
AgreeAt(m, x, r, k) == SameBit(m, TotalsAt(m, x, k, r[k]))

(* The words x take the machine to the carries c in n bits. *)
Leads(m, x, n, c) ==
  /\ \A v \in m.vars : x[v] \subseteq 0 .. n - 1
  /\ \E r : IsRun(m, x, r, n) /\ r[n] = c

(* Every run of n bits agrees on them and ends in S. *)
Covers(m, n, S) ==
  \A x, r : IsRun(m, x, r, n) =>
    r[n] \in S /\ \A k \in 0 .. n - 1 : AgreeAt(m, x, r, k)

(* The pair of carries c and symbol s has been explored into S. *)
Explored(m, n, c, s, S) ==
  LET total == Totals(m.nodes, n, s, c)
  IN SameBit(m, total) /\ NextCarry(m.nodes, total) \in S

ScanInv ==
  pc = "scan" =>
    /\ bit \in Nat /\ bit < Width
    /\ todo \subseteq Pairs(states)
    /\ \A c \in DOMAIN states : Leads(Machine, states[c], bit, c)
    /\ \A c \in DOMAIN next : Leads(Machine, next[c], bit + 1, c)
    /\ Covers(Machine, bit, DOMAIN states)
    /\ \A c \in DOMAIN states, s \in SUBSET AllVars :
         <<c, s>> \notin todo => Explored(Machine, bit, c, s, DOMAIN next)

(* A pair proved equal: on any words, every run agrees on every bit.         *)
ProofCoversRuns ==
  pc = "decided" /\ verdict.kind = "proved" =>
    \A x, r : IsRun(Machine, x, r, Width) =>
      \A k \in 0 .. Width - 1 : AgreeAt(Machine, x, r, k)

(* A counterexample: its words have a run that disagrees at its bit, and no   *)
(* run disagrees at a lower one.                                             *)
CounterexampleRuns ==
  pc = "decided" /\ verdict.kind = "differ" =>
    /\ \E r : /\ IsRun(Machine, verdict.values, r, verdict.bit)
              /\ ~AgreeAt(Machine, verdict.values, r, verdict.bit)
    /\ \A x, r : IsRun(Machine, x, r, verdict.bit) =>
         \A k \in 0 .. verdict.bit - 1 : AgreeAt(Machine, x, r, k)

CertInv == ScanInv /\ ProofCoversRuns /\ CounterexampleRuns
-----------------------------------------------------------------------------
(* Words that continue x by a symbol lead one step further. *)
LEMMA LeadsFurther ==
  ASSUME NEW m, NEW n \in Nat, NEW x, NEW c, Leads(m, x, n, c),
         NEW y, NEW s \in SUBSET m.vars,
         \A v \in m.vars : y[v] = IF v \in s THEN x[v] \cup {n} ELSE x[v]
  PROVE  /\ Leads(m, y, n + 1, NextCarry(m.nodes, Totals(m.nodes, n, s, c)))
         /\ \E r : IsRun(m, y, r, n) /\ r[n] = c /\ TotalsAt(m, y, n, r[n]) = Totals(m.nodes, n, s, c)
<1> DEFINE d == NextCarry(m.nodes, Totals(m.nodes, n, s, c))
<1>1. \A v \in m.vars : x[v] \subseteq 0 .. n - 1
  BY DEF Leads
<1>2. Symbol(m, y, n) = s
  <2>1. n \notin 0 .. n - 1
    OBVIOUS
  <2>2. \A v \in m.vars : n \in y[v] <=> v \in s
    BY <1>1, <2>1
  <2> QED BY <2>2 DEF Symbol
<1>3. \A k \in 0 .. n - 1 : Symbol(m, y, k) = Symbol(m, x, k)
  <2> TAKE k \in 0 .. n - 1
  <2>1. k # n
    OBVIOUS
  <2>2. \A v \in m.vars : k \in y[v] <=> k \in x[v]
    BY <2>1
  <2> QED BY <2>2 DEF Symbol
<1>4. PICK r : IsRun(m, x, r, n) /\ r[n] = c
  BY DEF Leads
<1> DEFINE q == [k \in 0 .. n + 1 |-> IF k = n + 1 THEN d ELSE r[k]]
<1>5. q[0] = r[0] /\ q[n] = c /\ q[n + 1] = d /\ \A k \in 0 .. n : q[k] = r[k]
  BY <1>4
<1>6. TotalsAt(m, y, n, c) = Totals(m.nodes, n, s, c)
  BY <1>2 DEF TotalsAt
<1>7. \A k \in 0 .. n - 1 : q[k + 1] = CarryAfter(m, y, k, q[k])
  <2> TAKE k \in 0 .. n - 1
  <2>1. k \in 0 .. n /\ k + 1 \in 0 .. n
    OBVIOUS
  <2>2. q[k] = r[k] /\ q[k + 1] = r[k + 1]
    BY <1>5, <2>1
  <2>3. r[k + 1] = CarryAfter(m, x, k, r[k])
    BY <1>4 DEF IsRun
  <2>4. CarryAfter(m, y, k, r[k]) = CarryAfter(m, x, k, r[k])
    BY <1>3 DEF CarryAfter, TotalsAt
  <2> QED BY <2>2, <2>3, <2>4
<1>8. IsRun(m, y, q, n)
  BY <1>4, <1>5, <1>7 DEF IsRun
<1>9. IsRun(m, y, q, n + 1)
  <2>1. q[n + 1] = CarryAfter(m, y, n, q[n])
    BY <1>5, <1>6 DEF CarryAfter
  <2>2. \A k \in 0 .. (n + 1) - 1 : k \in 0 .. n - 1 \/ k = n
    OBVIOUS
  <2> QED BY <1>7, <1>8, <2>1, <2>2 DEF IsRun
<1>10. \A v \in m.vars : y[v] \subseteq 0 .. (n + 1) - 1
  <2>1. 0 .. n - 1 \subseteq 0 .. (n + 1) - 1 /\ n \in 0 .. (n + 1) - 1
    OBVIOUS
  <2> QED BY <1>1, <2>1
<1>11. \E rr : IsRun(m, y, rr, n + 1) /\ rr[n + 1] = d
  BY <1>9, <1>5
<1>12. \E rr : IsRun(m, y, rr, n) /\ rr[n] = c /\ TotalsAt(m, y, n, rr[n]) = Totals(m.nodes, n, s, c)
  BY <1>8, <1>5, <1>6
<1> QED BY <1>10, <1>11, <1>12 DEF Leads

(* Once every pair is explored, the next vectors cover the runs one bit longer. *)
LEMMA CoversFurther ==
  ASSUME NEW m, NEW n \in Nat, NEW S, NEW T, Covers(m, n, S),
         \A c \in S, s \in SUBSET m.vars : Explored(m, n, c, s, T)
  PROVE  Covers(m, n + 1, T)
<1> SUFFICES ASSUME NEW x, NEW r, IsRun(m, x, r, n + 1)
             PROVE  r[n + 1] \in T /\ \A k \in 0 .. (n + 1) - 1 : AgreeAt(m, x, r, k)
  BY DEF Covers
<1>1. IsRun(m, x, r, n) /\ r[n + 1] = CarryAfter(m, x, n, r[n])
  <2>1. n \in 0 .. (n + 1) - 1 /\ \A k \in 0 .. n - 1 : k \in 0 .. (n + 1) - 1
    OBVIOUS
  <2> QED BY <2>1 DEF IsRun
<1>2. r[n] \in S /\ \A k \in 0 .. n - 1 : AgreeAt(m, x, r, k)
  BY <1>1 DEF Covers
<1>3. Symbol(m, x, n) \in SUBSET m.vars
  BY DEF Symbol
<1>4. Explored(m, n, r[n], Symbol(m, x, n), T)
  BY <1>2, <1>3
<1>5. AgreeAt(m, x, r, n) /\ r[n + 1] \in T
  BY <1>1, <1>4 DEF Explored, AgreeAt, CarryAfter, TotalsAt
<1>6. \A k \in 0 .. (n + 1) - 1 : k \in 0 .. n - 1 \/ k = n
  OBVIOUS
<1> QED BY <1>2, <1>5, <1>6
-----------------------------------------------------------------------------
(* No scan, no claim. *)
LEMMA CertInit == Init => CertInv
  BY DEF Init, CertInv, ScanInv, ProofCoversRuns, CounterexampleRuns

(* A scan begins at the zero vector, which covers the empty runs. *)
LEMMA BeginKeeps == Begin => CertInv'
<1> SUFFICES ASSUME Begin PROVE CertInv'
  OBVIOUS
<1> DEFINE m == Machine'  zero == Zero(nodes')
<1>1. /\ pc' = "scan" /\ bit' = 0 /\ todo' = Pairs(states') /\ next' = <<>>
      /\ states' = [c \in {zero} |-> [v \in AllVars |-> {}]]
      /\ AllVars' = AllVars /\ Symbols' = Symbols
  BY DEF Begin, AllVars, Symbols
<1>2. m.nodes = nodes' /\ m.vars = AllVars
  BY <1>1 DEF Machine
<1>3. DOMAIN states' = {zero} /\ DOMAIN next' = {}
  BY <1>1
<1>4. Leads(m, states'[zero], 0, zero)
  <2>1. 0 .. 0 - 1 = {}
    OBVIOUS
  <2>2. states'[zero] = [v \in AllVars |-> {}]
    BY <1>1
  <2>3. [k \in {0} |-> zero][0] = zero
    OBVIOUS
  <2>4. IsRun(m, states'[zero], [k \in {0} |-> zero], 0)
    BY <1>2, <2>1, <2>3 DEF IsRun
  <2> QED BY <1>2, <2>2, <2>3, <2>4 DEF Leads
<1>5. Covers(m, 0, {zero})
  <2>1. 0 .. 0 - 1 = {}
    OBVIOUS
  <2> QED BY <1>2, <2>1 DEF Covers, IsRun
<1>6. \A c \in DOMAIN states', s \in SUBSET AllVars : <<c, s>> \in todo'
  <2>1. todo' = (DOMAIN states') \X Symbols
    BY <1>1 DEF Pairs
  <2> QED BY <2>1 DEF Symbols
<1>7. 0 \in Nat /\ 0 < Width
  BY WidthAssumption
<1>8. ScanInv'
  BY <1>1, <1>3, <1>4, <1>5, <1>6, <1>7 DEF ScanInv, Pairs
<1> QED BY <1>1, <1>8 DEF CertInv, ProofCoversRuns, CounterexampleRuns

(* Exploring a pair follows one run one bit further. *)
LEMMA ExploreKeeps ==
  ASSUME CertInv, NEW p \in todo, Explore(p)
  PROVE  CertInv'
<1> DEFINE m == Machine  total == Totals(nodes, bit, p[2], p[1])
           words == Extended(states[p[1]], p[2])  d == NextCarry(nodes, total)
<1>1. /\ pc = "scan" /\ nodes' = nodes /\ left' = left /\ right' = right
      /\ bit' = bit /\ states' = states
      /\ expression' = expression /\ candidate' = candidate
  BY DEF Explore, Decide, scanVars
<1>2. Machine' = m /\ AllVars' = AllVars /\ Symbols' = Symbols
  BY <1>1 DEF Machine, AllVars, Symbols
<1>3. m.nodes = nodes /\ m.vars = AllVars /\ (SameBit(m, total) <=> Agree(total))
  BY DEF Machine, SameBit, Agree
<1>4. /\ bit \in Nat /\ bit < Width
      /\ todo \subseteq (DOMAIN states) \X (SUBSET AllVars)
      /\ \A c \in DOMAIN states : Leads(m, states[c], bit, c)
      /\ \A c \in DOMAIN next : Leads(m, next[c], bit + 1, c)
      /\ Covers(m, bit, DOMAIN states)
      /\ \A c \in DOMAIN states, s \in SUBSET AllVars :
           <<c, s>> \notin todo => Explored(m, bit, c, s, DOMAIN next)
  BY <1>1 DEF CertInv, ScanInv, Pairs, Symbols
<1>5. p[1] \in DOMAIN states /\ p[2] \in SUBSET AllVars /\ p = <<p[1], p[2]>>
  BY <1>4
<1>6. /\ Leads(m, words, bit + 1, d)
      /\ \E r : IsRun(m, words, r, bit) /\ r[bit] = p[1] /\ TotalsAt(m, words, bit, r[bit]) = total
  <2>1. \A v \in m.vars : words[v] = IF v \in p[2] THEN states[p[1]][v] \cup {bit} ELSE states[p[1]][v]
    BY <1>3 DEF Extended
  <2>2. Leads(m, states[p[1]], bit, p[1]) /\ p[2] \in SUBSET m.vars
    BY <1>3, <1>4, <1>5
  <2> DEFINE x == states[p[1]]  c == p[1]  s == p[2]
  <2>0. /\ bit \in Nat /\ Leads(m, x, bit, c) /\ s \in SUBSET m.vars
        /\ \A v \in m.vars : words[v] = IF v \in s THEN x[v] \cup {bit} ELSE x[v]
    BY <1>4, <2>1, <2>2
  <2> HIDE DEF m, words, x, c, s
  <2>3. /\ Leads(m, words, bit + 1, NextCarry(m.nodes, Totals(m.nodes, bit, s, c)))
        /\ \E r : IsRun(m, words, r, bit) /\ r[bit] = c /\ TotalsAt(m, words, bit, r[bit]) = Totals(m.nodes, bit, s, c)
    BY <2>0, LeadsFurther
  <2> USE DEF c, s
  <2> QED BY <1>3, <2>3
<1>7. CASE /\ ~Agree(total) /\ Decide(NotEqual(words))
  <2>1. pc' = "decided" /\ verdict'.kind = "differ" /\ verdict'.values = words /\ verdict'.bit = bit
    BY <1>7 DEF Decide, NotEqual
  <2>2. \E r : IsRun(m, words, r, bit) /\ ~AgreeAt(m, words, r, bit)
    BY <1>3, <1>6, <1>7 DEF AgreeAt
  <2>3. \A x, r : IsRun(m, x, r, bit) => \A k \in 0 .. bit - 1 : AgreeAt(m, x, r, k)
    BY <1>4 DEF Covers
  <2> HIDE DEF m, words
  <2>4. CounterexampleRuns'
    BY <1>2, <2>1, <2>2, <2>3 DEF CounterexampleRuns
  <2> QED BY <2>1, <2>4 DEF CertInv, ScanInv, ProofCoversRuns
<1>8. CASE /\ Agree(total)
           /\ next' = [s \in DOMAIN next \cup {d} |-> IF s \in DOMAIN next THEN next[s] ELSE words]
           /\ \E n : Decide(Unknown("states", n))
  <2>1. pc' = "decided" /\ verdict'.kind = "unknown"
    BY <1>8 DEF Decide, Unknown
  <2> QED BY <2>1 DEF CertInv, ScanInv, ProofCoversRuns, CounterexampleRuns
<1>9. CASE /\ Agree(total)
           /\ next' = [s \in DOMAIN next \cup {d} |-> IF s \in DOMAIN next THEN next[s] ELSE words]
           /\ todo' = todo \ {p} /\ pc' = pc
  <2>1. DOMAIN next' = DOMAIN next \cup {d}
    BY <1>9
  <2>2. \A c \in DOMAIN next' : Leads(m, next'[c], bit + 1, c)
    BY <1>4, <1>6, <1>9, <2>1
  <2>3. todo' \subseteq (DOMAIN states) \X (SUBSET AllVars)
    BY <1>4, <1>9
  <2>4. ASSUME NEW c \in DOMAIN states, NEW s \in SUBSET AllVars, <<c, s>> \notin todo'
        PROVE  Explored(m, bit, c, s, DOMAIN next')
    <3>1. CASE <<c, s>> \notin todo
      <4>1. Explored(m, bit, c, s, DOMAIN next)
        BY <1>4, <3>1
      <4> QED BY <2>1, <4>1 DEF Explored
    <3>2. CASE <<c, s>> = p
      <4>1. c = p[1] /\ s = p[2]
        BY <3>2
      <4> QED BY <1>3, <1>9, <2>1, <4>1 DEF Explored
    <3> QED BY <1>9, <2>4, <3>1, <3>2
  <2> HIDE DEF m, words, d, total
  <2>5. ScanInv'
    BY <1>1, <1>2, <1>4, <2>2, <2>3, <2>4 DEF ScanInv, Pairs, Symbols
  <2>6. pc' = "scan"
    BY <1>1, <1>9
  <2> QED BY <2>5, <2>6 DEF CertInv, ProofCoversRuns, CounterexampleRuns
<1> QED BY <1>7, <1>8, <1>9 DEF Explore

(* With every pair explored the next vectors cover the longer runs. *)
LEMMA NextBitKeeps ==
  ASSUME CertInv, NextBit
  PROVE  CertInv'
<1> DEFINE m == Machine
<1>1. /\ pc = "scan" /\ todo = {} /\ nodes' = nodes /\ left' = left /\ right' = right
      /\ expression' = expression /\ candidate' = candidate
  BY DEF NextBit, Decide
<1>2. Machine' = m /\ AllVars' = AllVars /\ Symbols' = Symbols /\ m.vars = AllVars
  BY <1>1 DEF Machine, AllVars, Symbols
<1>3. /\ bit \in Nat
      /\ \A c \in DOMAIN next : Leads(m, next[c], bit + 1, c)
      /\ Covers(m, bit, DOMAIN states)
      /\ \A c \in DOMAIN states, s \in SUBSET m.vars : Explored(m, bit, c, s, DOMAIN next)
  BY <1>1, <1>2 DEF CertInv, ScanInv
<1>4. Covers(m, bit + 1, DOMAIN next)
  <2> HIDE DEF m
  <2> QED BY <1>3, CoversFurther
<1>5. CASE /\ bit + 1 < Width /\ bit' = bit + 1
           /\ states' = next /\ todo' = Pairs(next) /\ next' = <<>> /\ pc' = pc
  <2>1. \A c \in DOMAIN states', s \in SUBSET AllVars : <<c, s>> \in todo'
    <3>1. todo' = (DOMAIN states') \X (SUBSET AllVars)
      BY <1>5 DEF Pairs, Symbols
    <3> QED BY <3>1
  <2>2. DOMAIN next' = {} /\ bit' \in Nat /\ bit' < Width
    BY <1>3, <1>5
  <2>3. todo' = Pairs(states)'
    BY <1>2, <1>5 DEF Pairs
  <2> HIDE DEF m
  <2>4. ScanInv'
    BY <1>2, <1>3, <1>4, <1>5, <2>1, <2>2, <2>3 DEF ScanInv
  <2> QED BY <1>1, <1>5, <2>4 DEF CertInv, ProofCoversRuns, CounterexampleRuns
<1>6. CASE bit + 1 = Width /\ Decide(Proved(largest'))
  <2>1. pc' = "decided" /\ verdict'.kind = "proved"
    BY <1>6 DEF Decide, Proved
  <2>2. \A x, r : IsRun(m, x, r, Width) => \A k \in 0 .. Width - 1 : AgreeAt(m, x, r, k)
    BY <1>4, <1>6 DEF Covers
  <2> HIDE DEF m
  <2>3. ProofCoversRuns'
    BY <1>2, <2>2 DEF ProofCoversRuns
  <2> QED BY <2>1, <2>3 DEF CertInv, ScanInv, CounterexampleRuns
<1> QED BY <1>5, <1>6 DEF NextBit

(* Every step keeps what the search knows. *)
LEMMA CertStep == CertInv /\ [Next]_vars => CertInv'
<1> SUFFICES ASSUME CertInv, [Next]_vars PROVE CertInv'
  OBVIOUS
<1>1. ASSUME pc' \notin {"scan", "decided"} PROVE CertInv'
  BY <1>1 DEF CertInv, ScanInv, ProofCoversRuns, CounterexampleRuns
<1>2. ASSUME pc' = "decided", verdict'.kind \in {"unknown", "unsupported"} PROVE CertInv'
  BY <1>2 DEF CertInv, ScanInv, ProofCoversRuns, CounterexampleRuns
<1>3. CASE Refuse \/ Generate \/ Offer \/ Accept \/ PassOver \/ Exhausted
  BY <1>1, <1>3 DEF Refuse, Generate, Offer, Accept, PassOver, Exhausted, Finish
<1>4. CASE OverVariables \/ Unfit \/ OverNodes
  BY <1>2, <1>4 DEF OverVariables, Unfit, OverNodes, Decide, Unknown, Unsupported
<1>5. CASE Begin
  BY <1>5, BeginKeeps
<1>6. ASSUME NEW p \in todo, Explore(p) PROVE CertInv'
  BY <1>6, ExploreKeeps
<1>7. CASE NextBit
  BY <1>7, NextBitKeeps
<1>8. CASE UNCHANGED vars
  <2>1. Machine' = Machine /\ AllVars' = AllVars /\ Symbols' = Symbols
    BY <1>8 DEF vars, certVars, scanVars, Machine, AllVars, Symbols
  <2>2. Pairs(states)' = Pairs(states)
    BY <1>8, <2>1 DEF vars, certVars, scanVars, Pairs
  <2>3. UNCHANGED <<pc, bit, states, todo, next, verdict>>
    BY <1>8 DEF vars, certVars, scanVars
  <2> QED BY <2>1, <2>2, <2>3 DEF CertInv, ScanInv, ProofCoversRuns, CounterexampleRuns
<1> QED BY <1>3, <1>4, <1>5, <1>6, <1>7, <1>8 DEF Next, Certify

(* It always holds. *)
LEMMA CertAlways == Spec => []CertInv
  BY CertInit, CertStep, PTL DEF Spec

(* "Proved" covers every input: the search keeps one input for each carry     *)
(* vector, and yet every run of the machine over the width agrees.           *)
THEOREM ProofsCoverEveryRun == Spec => []ProofCoversRuns
<1>1. CertInv => ProofCoversRuns
  BY DEF CertInv
<1> QED BY CertAlways, <1>1, PTL

(* A counterexample is one: the words kept for the vector do lead to it, and   *)
(* the bit it names is the lowest that can differ.                           *)
THEOREM CounterexamplesAreReal == Spec => []CounterexampleRuns
<1>1. CertInv => CounterexampleRuns
  BY DEF CertInv
<1> QED BY CertAlways, <1>1, PTL
-----------------------------------------------------------------------------
(* A machine of formed nodes without products, over variables of the pair. *)
Sound(m) ==
  /\ BitSerial(m.nodes) /\ VarsIn(m.nodes) \subseteq m.vars
  /\ m.left \in DOMAIN m.nodes /\ m.right \in DOMAIN m.nodes
Holds(x, m) == \A v \in m.vars : x[v] \in Words
At(m, x, k) == Quotients(m.nodes, x, k)

(* The same of a machine. *)
LEMMA MachineBits ==
  ASSUME NEW m, Sound(m), NEW x, Holds(x, m), NEW k \in Bits
  PROVE  /\ CarryAfter(m, x, k, At(m, x, k)) = At(m, x, k + 1)
         /\ \A i \in DOMAIN m.nodes : TotalsAt(m, x, k, At(m, x, k))[i] % 2 = BitOf(Values(m.nodes, x)[i], k)
<1> DEFINE s == Symbol(m, x, k)
<1>1. BitSerial(m.nodes) /\ WordsFor(x, m.nodes)
  BY DEF Sound, Holds, WordsFor
<1>2. SymbolFor(s, x, k, m.nodes)
  BY DEF SymbolFor, Symbol, Sound
<1> HIDE DEF s
<1>3. LET total == Totals(m.nodes, k, s, Quotients(m.nodes, x, k))
      IN /\ \A i \in DOMAIN m.nodes : total[i] % 2 = BitOf(Values(m.nodes, x)[i], k)
         /\ NextCarry(m.nodes, total) = Quotients(m.nodes, x, k + 1)
  BY <1>1, <1>2, MachineStep
<1> QED BY <1>3 DEF CarryAfter, TotalsAt, At, s

(* Every run goes through the quotients. *)
LEMMA RunsAreQuotients ==
  ASSUME NEW m, Sound(m), NEW x, Holds(x, m), NEW n \in Nat, n <= Width, NEW r, IsRun(m, x, r, n)
  PROVE  \A k \in 0 .. n : r[k] = At(m, x, k)
<1> DEFINE T == {k \in Nat : k <= n => r[k] = At(m, x, k)}
<1>1. 0 \in T
  <2>1. At(m, x, 0) = Zero(m.nodes)
    <3>1. BitSerial(m.nodes) /\ WordsFor(x, m.nodes)
      BY DEF Sound, Holds, WordsFor
    <3> QED BY <3>1, MachineStart DEF At
  <2> QED BY <2>1 DEF IsRun
<1>2. ASSUME NEW k \in T PROVE k + 1 \in T
  <2> SUFFICES ASSUME k + 1 <= n PROVE r[k + 1] = At(m, x, k + 1)
    OBVIOUS
  <2>1. k \in Nat /\ k <= n /\ k \in 0 .. n - 1 /\ k \in Bits
    BY WidthAssumption DEF Bits
  <2>2. r[k] = At(m, x, k) /\ r[k + 1] = CarryAfter(m, x, k, r[k])
    BY <2>1 DEF IsRun
  <2> QED BY <2>1, <2>2, MachineBits
<1>3. \A k \in Nat : k \in T
  <2> HIDE DEF T
  <2>1. T \in SUBSET Nat
    BY DEF T
  <2> QED BY <1>1, <1>2, <2>1, NatCases
<1> QED BY <1>3

(* The quotients are a run. *)
LEMMA QuotientsRun ==
  ASSUME NEW m, Sound(m), NEW x, Holds(x, m), NEW n \in Nat, n <= Width
  PROVE  IsRun(m, x, [k \in 0 .. n |-> At(m, x, k)], n)
<1> DEFINE r == [k \in 0 .. n |-> At(m, x, k)]
<1>1. r[0] = Zero(m.nodes)
  <2>1. BitSerial(m.nodes) /\ WordsFor(x, m.nodes)
    BY DEF Sound, Holds, WordsFor
  <2>2. At(m, x, 0) = Zero(m.nodes)
    BY <2>1, MachineStart DEF At
  <2> QED BY <2>2
<1>2. ASSUME NEW k \in 0 .. n - 1 PROVE r[k + 1] = CarryAfter(m, x, k, r[k])
  <2>1. k \in Bits /\ k \in 0 .. n /\ k + 1 \in 0 .. n
    BY WidthAssumption DEF Bits
  <2>2. CarryAfter(m, x, k, At(m, x, k)) = At(m, x, k + 1)
    BY <2>1, MachineBits
  <2> QED BY <2>1, <2>2
<1> HIDE DEF r
<1>3. IsRun(m, x, r, n)
  BY <1>1, <1>2 DEF IsRun
<1> QED BY <1>3 DEF r

(* The machine agrees on a bit if the two words do. *)
LEMMA AgreeMeans ==
  ASSUME NEW m, Sound(m), NEW x, Holds(x, m), NEW k \in Bits, NEW r, r[k] = At(m, x, k)
  PROVE  AgreeAt(m, x, r, k) <=> (k \in Values(m.nodes, x)[m.left] <=> k \in Values(m.nodes, x)[m.right])
<1>1. \A i \in DOMAIN m.nodes : TotalsAt(m, x, k, r[k])[i] % 2 = BitOf(Values(m.nodes, x)[i], k)
  BY MachineBits
<1>2. m.left \in DOMAIN m.nodes /\ m.right \in DOMAIN m.nodes
  BY DEF Sound
<1>3. AgreeAt(m, x, r, k) <=> BitOf(Values(m.nodes, x)[m.left], k) = BitOf(Values(m.nodes, x)[m.right], k)
  BY <1>1, <1>2 DEF AgreeAt, SameBit
<1> QED BY <1>3 DEF BitOf
-----------------------------------------------------------------------------
(* What is built from formed expressions over some variables is formed and    *)
(* over them too: no candidate speaks of another variable.                   *)
Over(e, V) == WellFormed(e) /\ VarsOf(e) \subseteq V

(* A variable of some nodes is one of theirs by kind. *)
LEMMA KindsVars ==
  ASSUME NEW ns, NEW K, NEW L, Kinds(ns) \subseteq K \cup L
  PROVE  \A v \in VarsIn(ns) : <<"var", v>> \in K \cup L
BY DEF VarsIn, Kinds, Kind

(* The kind of a variable is there exactly if it is. *)
LEMMA VarsKinds ==
  ASSUME NEW ns, NEW v
  PROVE  <<"var", v>> \in Kinds(ns) <=> v \in VarsIn(ns)
BY DEF VarsIn, Kinds, Kind

Operands(g, args) ==
  /\ g[0] = Interned(<<>>, <<>>)
  /\ \A i \in 1 .. Len(args) : g[i] = Operand(g[i - 1], args[i])

(* Op takes one operand at a time. *)
LEMMA OperandsRun ==
  ASSUME NEW args, Len(args) \in Nat, NEW op, NEW k
  PROVE  \E g : Operands(g, args) /\ Op(op, k, args) = OnOperands(g[Len(args)], op, k)
<1> DEFINE n == Len(args)
           rec(g) == [i \in 0 .. n |-> IF i = 0 THEN Interned(<<>>, <<>>) ELSE Operand(g[i - 1], args[i])]
           G(g, m) == g[0] = Interned(<<>>, <<>>) /\ \A i \in 1 .. m : g[i] = Operand(g[i - 1], args[i])
           T == {m \in Nat : \E g : G(g, m)}
<1>1. 0 \in T
  <2> DEFINE g == [i \in {0} |-> Interned(<<>>, <<>>)]
  <2>1. G(g, 0)
    OBVIOUS
  <2> HIDE DEF G
  <2> QED BY <2>1
<1>2. ASSUME NEW m \in T PROVE m + 1 \in T
  <2>1. PICK g : G(g, m)
    OBVIOUS
  <2> DEFINE h == [i \in 0 .. m + 1 |-> IF i = m + 1 THEN Operand(g[m], args[m + 1]) ELSE g[i]]
  <2>2. m \in Nat /\ h[m + 1] = Operand(g[m], args[m + 1]) /\ \A i \in 0 .. m : h[i] = g[i]
    OBVIOUS
  <2> HIDE DEF h
  <2>3. G(h, m + 1)
    <3>1. ASSUME NEW i \in 1 .. m + 1 PROVE h[i] = Operand(h[i - 1], args[i])
      <4>1. CASE i = m + 1
        BY <2>2, <4>1
      <4>2. CASE i # m + 1
        <5>1. i \in 1 .. m /\ i \in 0 .. m /\ i - 1 \in 0 .. m
          BY <2>2, <4>2
        <5> QED BY <2>1, <2>2, <5>1
      <4> QED BY <4>1, <4>2
    <3> QED BY <2>1, <2>2, <3>1
  <2> HIDE DEF G
  <2> QED BY <2>2, <2>3
<1>3. n \in T
  <2> HIDE DEF T
  <2>1. T \in SUBSET Nat
    BY DEF T
  <2> QED BY <1>1, <1>2, <2>1, NatCases
<1>4. PICK g : G(g, n)
  BY <1>3
<1> DEFINE f == rec(g)
<1>5. f = rec(f)
  <2>1. \A i \in 0 .. n : f[i] = g[i]
    BY <1>4
  <2> HIDE DEF f
  <2>2. \A i \in 0 .. n : i = 0 \/ i - 1 \in 0 .. n
    OBVIOUS
  <2>3. \A i \in 0 .. n : i = 0 \/ f[i - 1] = g[i - 1]
    BY <2>1, <2>2
  <2>4. f = rec(g) /\ rec(g) = rec(f)
    BY <2>3 DEF f
  <2> QED BY <2>4
<1> HIDE DEF f
<1>6. Op(op, k, args) = OnOperands((CHOOSE h : h = rec(h))[n], op, k)
  BY Zenon DEF Op
<1> DEFINE c == CHOOSE h : h = rec(h)
<1>7. c = rec(c)
  <2> HIDE DEF rec
  <2> QED BY <1>5
<1> HIDE DEF c
<1>8. Operands(c, args)
  BY <1>7 DEF Operands
<1> QED BY <1>6, <1>8 DEF c

(* The table of the first i operands. *)
OperandTable(t, V, i) == Table(t) /\ VarsIn(t.nodes) \subseteq V /\ Len(t.at) = i

(* An operand over V keeps a table over V. *)
LEMMA OperandKeeps ==
  ASSUME NEW t, NEW V, NEW i \in Nat, OperandTable(t, V, i), NEW e, Over(e, V)
  PROVE  OperandTable(Operand(t, e), V, i + 1)
<1> DEFINE u == Intern(t.nodes, e)  p == u.at[e.root]  a == Append(t.at, p)  w == Operand(t, e)
<1>1. Formed(t.nodes) /\ Formed(e.nodes) /\ e.root \in DOMAIN e.nodes /\ t.at \in Seq(Nat) /\ Len(t.at) = i
  BY DEF OperandTable, Table, Over, WellFormed, Formed
<1>2. /\ Formed(u.nodes) /\ Extends(t.nodes, u.nodes) /\ Copied(e.nodes, u.nodes, u.at)
      /\ Kinds(u.nodes) \subseteq Kinds(t.nodes) \cup Kinds(e.nodes)
  BY <1>1, InternCopies
<1>3. w.nodes = u.nodes /\ w.at = a
  BY DEF Operand, WithOperand, Interned
<1> HIDE DEF u
<1>4. p \in DOMAIN u.nodes /\ DOMAIN u.nodes \subseteq Nat
  <2>1. p \in DOMAIN u.nodes
    BY <1>1, <1>2 DEF Copied
  <2>2. u.nodes \in Seq(Nodes)
    BY <1>2 DEF Formed
  <2> QED BY <2>1, <2>2
<1>5. VarsIn(u.nodes) \subseteq V
  <2> SUFFICES ASSUME NEW v \in VarsIn(u.nodes) PROVE v \in V
    OBVIOUS
  <2>1. <<"var", v>> \in Kinds(t.nodes) \cup Kinds(e.nodes)
    BY <1>2, KindsVars
  <2>2. v \in VarsIn(t.nodes) \/ v \in VarsIn(e.nodes)
    BY <2>1, VarsKinds
  <2> QED BY <2>2 DEF OperandTable, Over, VarsOf
<1> HIDE DEF p
<1>6. /\ a \in Seq(Nat) /\ Len(a) = i + 1
      /\ \A j \in DOMAIN a : a[j] = p \/ (j \in DOMAIN t.at /\ a[j] = t.at[j])
  BY <1>1, <1>4
<1>7. \A j \in DOMAIN t.at : t.at[j] \in DOMAIN u.nodes
  BY <1>2 DEF OperandTable, Table, Extends
<1> HIDE DEF a, w
<1>8. \A j \in DOMAIN a : a[j] \in DOMAIN u.nodes
  BY <1>4, <1>6, <1>7
<1> QED BY <1>2, <1>3, <1>5, <1>6, <1>8 DEF OperandTable, Table, w

(* Nodes added later leave the words of those there already. *)
LEMMA ExtendsValues ==
  ASSUME NEW ns, Formed(ns), NEW ms, Formed(ms), Extends(ns, ms), NEW x
  PROVE  \A i \in DOMAIN ns : Values(ms, x)[i] = Values(ns, x)[i]
<1> DEFINE at == [i \in DOMAIN ns |-> i]
<1>1. ASSUME NEW i \in DOMAIN ns
      PROVE  /\ at[i] \in DOMAIN ms /\ ms[at[i]] = ns[i]
             /\ ms[at[i]].of = [j \in DOMAIN ns[i].of |-> at[ns[i].of[j]]]
  <2>1. at[i] = i /\ i \in DOMAIN ms /\ ms[i] = ns[i]
    BY DEF Extends
  <2>2. ns[i].of \in Seq(Nat) /\ \A j \in DOMAIN ns[i].of : at[ns[i].of[j]] = ns[i].of[j]
    BY NodeForm
  <2>3. ns[i].of = [j \in DOMAIN ns[i].of |-> ns[i].of[j]]
    BY <2>2
  <2> HIDE DEF at
  <2> QED BY <2>1, <2>2, <2>3
<1>2. \A i \in DOMAIN ns : at[i] = i
  OBVIOUS
<1> HIDE DEF at
<1>3. Copied(ns, ms, at)
  BY <1>1 DEF Copied
<1>4. \A i \in DOMAIN ns : Values(ms, x)[at[i]] = Values(ns, x)[i]
  BY <1>3, CopiesHaveTheValue
<1> QED BY <1>2, <1>4

(* The table of the first i operands, in which they have their words. *)
OperandWords(t, args, i) ==
  \A x : \A j \in 1 .. i : Values(t.nodes, x)[t.at[j]] = Eval(args[j], x)

(* An operand more keeps them. *)
LEMMA OperandWordsNext ==
  ASSUME NEW t, NEW V, NEW args, NEW i \in Nat, OperandTable(t, V, i), OperandWords(t, args, i),
         Over(args[i + 1], V)
  PROVE  OperandWords(Operand(t, args[i + 1]), args, i + 1)
<1> DEFINE e == args[i + 1]  u == Intern(t.nodes, e)  p == u.at[e.root]  a == Append(t.at, p)  w == Operand(t, e)
<1>1. Formed(t.nodes) /\ Formed(e.nodes) /\ e.root \in DOMAIN e.nodes /\ t.at \in Seq(Nat) /\ Len(t.at) = i
  BY DEF OperandTable, Table, Over, WellFormed, Formed
<1>2. /\ Formed(u.nodes) /\ Extends(t.nodes, u.nodes) /\ Copied(e.nodes, u.nodes, u.at)
  BY <1>1, InternCopies
<1>3. w.nodes = u.nodes /\ w.at = a
  BY DEF Operand, WithOperand, Interned
<1>4. ASSUME NEW x PROVE Values(u.nodes, x)[p] = Eval(e, x)
  <2> HIDE DEF u, e
  <2>1. \A j \in DOMAIN e.nodes : Values(u.nodes, x)[u.at[j]] = Values(e.nodes, x)[j]
    BY <1>1, <1>2, CopiesHaveTheValue
  <2> QED BY <1>1, <2>1 DEF Eval
<1>5. ASSUME NEW x, NEW j \in 1 .. i PROVE Values(u.nodes, x)[t.at[j]] = Eval(args[j], x)
  <2>1. j \in DOMAIN t.at /\ t.at[j] \in DOMAIN t.nodes
    BY <1>1 DEF OperandTable, Table
  <2> HIDE DEF u, e
  <2>2. Values(u.nodes, x)[t.at[j]] = Values(t.nodes, x)[t.at[j]]
    BY <1>1, <1>2, <2>1, ExtendsValues
  <2> QED BY <2>2 DEF OperandWords
<1>6. a[i + 1] = p /\ \A j \in 1 .. i : a[j] = t.at[j]
  BY <1>1
<1> HIDE DEF u, a, p
<1>7. \A j \in 1 .. i + 1 : j = i + 1 \/ j \in 1 .. i
  OBVIOUS
<1> QED BY <1>3, <1>4, <1>5, <1>6, <1>7 DEF OperandWords, w

(* What makes op(args) an expression over V. *)
Operable(op, k, args, V) ==
  /\ op \in Ops /\ k \in Int /\ args \in Seq(Range(args))
  /\ \A i \in DOMAIN args : Over(args[i], V)
  /\ op = "var" => k \in V
  /\ op \in {"not", "scale"} => Len(args) = 1

(* Interning the operands one by one gives such a table. *)
LEMMA OperandsTabled ==
  ASSUME NEW op, NEW k, NEW args, NEW V, Operable(op, k, args, V), NEW g, Operands(g, args)
  PROVE  OperandTable(g[Len(args)], V, Len(args)) /\ OperandWords(g[Len(args)], args, Len(args))
<1> DEFINE n == Len(args)
<1>1. n \in Nat /\ DOMAIN args = 1 .. n
  BY DEF Operable
<1> DEFINE T == {i \in Nat : i <= n => OperandTable(g[i], V, i) /\ OperandWords(g[i], args, i)}
<1>2. 0 \in T
  <2>1. g[0].nodes = <<>> /\ g[0].at = <<>>
    BY DEF Operands, Interned
  <2>2. Formed(<<>>) /\ VarsIn(<<>>) = {}
    BY DEF Formed, ChildrenFirst, VarsIn
  <2>3. OperandTable(g[0], V, 0)
    <3>1. g[0].nodes = <<>> /\ Formed(g[0].nodes) /\ VarsIn(g[0].nodes) \subseteq V
      BY <2>1, <2>2
    <3>2. g[0].at \in Seq(Nat) /\ Len(g[0].at) = 0 /\ DOMAIN g[0].at = {}
      BY <2>1
    <3> QED BY <3>1, <3>2 DEF OperandTable, Table
  <2>4. OperandWords(g[0], args, 0)
    <3>1. 1 .. 0 = {}
      OBVIOUS
    <3> QED BY <3>1 DEF OperandWords
  <2> QED BY <2>3, <2>4
<1>3. ASSUME NEW i \in T PROVE i + 1 \in T
  <2> SUFFICES ASSUME i + 1 <= n PROVE OperandTable(g[i + 1], V, i + 1) /\ OperandWords(g[i + 1], args, i + 1)
    OBVIOUS
  <2>1. i \in Nat /\ OperandTable(g[i], V, i) /\ OperandWords(g[i], args, i) /\ i + 1 \in 1 .. n /\ (i + 1) - 1 = i
    BY <1>1
  <2>2. g[i + 1] = Operand(g[i], args[i + 1])
    BY <2>1 DEF Operands
  <2>3. Over(args[i + 1], V)
    BY <1>1, <2>1 DEF Operable
  <2> QED BY <2>1, <2>2, <2>3, OperandKeeps, OperandWordsNext
<1>4. n \in T
  <2> HIDE DEF T, n
  <2>1. T \in SUBSET Nat
    BY DEF T
  <2> QED BY <1>1, <1>2, <1>3, <2>1, NatCases
<1> QED BY <1>1, <1>4

(* An operator over operands over V is over V. *)
LEMMA OpOver ==
  ASSUME NEW op, NEW k, NEW args, NEW V, Operable(op, k, args, V)
  PROVE  Over(Op(op, k, args), V)
<1> DEFINE n == Len(args)  e == Op(op, k, args)
<1>1. n \in Nat /\ DOMAIN args = 1 .. n
  BY DEF Operable
<1>2. PICK g : Operands(g, args) /\ e = OnOperands(g[n], op, k)
  BY <1>1, OperandsRun
<1>3. OperandTable(g[n], V, n) /\ OperandWords(g[n], args, n)
  BY <1>2, OperandsTabled
<1> DEFINE t == g[n]  m == Node(op, k, t.at)  ns == Append(t.nodes, m)
<1>4. Table(t) /\ VarsIn(t.nodes) \subseteq V /\ Len(t.at) = n
  BY <1>1, <1>3 DEF OperandTable
<1>5. e = [nodes |-> ns, root |-> Len(t.nodes) + 1]
  BY <1>2 DEF OnOperands, WithRoot
<1> HIDE DEF t, e
<1>6. m.op = op /\ m.k = k /\ m.of = t.at
  BY DEF Node
<1>7. Fits(m, t.nodes)
  <2>1. m \in Nodes
    BY <1>4 DEF Node, Nodes, Operable, Table
  <2>2. op \in {"not", "scale"} => Len(t.at) = 1
    BY <1>4 DEF Operable
  <2> HIDE DEF m
  <2> QED BY <1>4, <1>6, <2>1, <2>2 DEF Fits, Table
<1> HIDE DEF m
<1>8. Formed(t.nodes) /\ Len(t.nodes) \in Nat
  BY <1>4 DEF Table, Formed
<1>9. /\ Formed(ns) /\ DOMAIN ns = 1 .. Len(t.nodes) + 1
       /\ Kinds(ns) \subseteq Kinds(t.nodes) \cup {Kind(m)}
  BY <1>7, <1>8, AppendForms
<1> HIDE DEF ns
<1>10. VarsIn(ns) \subseteq V
  <2> SUFFICES ASSUME NEW v \in VarsIn(ns) PROVE v \in V
    OBVIOUS
  <2>1. <<"var", v>> \in Kinds(t.nodes) \cup {Kind(m)}
    BY <1>9, KindsVars
  <2>2. CASE <<"var", v>> \in Kinds(t.nodes)
    BY <1>4, <2>2, VarsKinds
  <2>3. CASE <<"var", v>> = Kind(m)
    BY <1>6, <2>3 DEF Kind, Operable
  <2> QED BY <2>1, <2>2, <2>3
<1>11. WellFormed(e)
  BY <1>5, <1>8, <1>9 DEF WellFormed, Formed
<1> QED BY <1>5, <1>10, <1>11 DEF Over, VarsOf, e

(* An operator over operands has the word it makes of theirs. *)
Applied(e, op, k, args) ==
  \A x : Eval(e, x) = Result(Node(op, k, <<>>), [j \in DOMAIN args |-> Eval(args[j], x)], x)

(* Op makes a well-formed expression of that word. *)
LEMMA OpApplied ==
  ASSUME NEW op, NEW k, NEW args, NEW V, Operable(op, k, args, V)
  PROVE  Applied(Op(op, k, args), op, k, args)
<1> DEFINE n == Len(args)  e == Op(op, k, args)
<1>1. n \in Nat /\ DOMAIN args = 1 .. n
  BY DEF Operable
<1>2. PICK g : Operands(g, args) /\ e = OnOperands(g[n], op, k)
  BY <1>1, OperandsRun
<1>3. OperandTable(g[n], V, n) /\ OperandWords(g[n], args, n)
  BY <1>2, OperandsTabled
<1> DEFINE t == g[n]  m == Node(op, k, t.at)  ns == Append(t.nodes, m)
<1>4. Table(t) /\ Len(t.at) = n /\ OperandWords(t, args, n)
  BY <1>1, <1>3 DEF OperandTable
<1>5. e = [nodes |-> ns, root |-> Len(t.nodes) + 1]
  BY <1>2 DEF OnOperands, WithRoot
<1> HIDE DEF t, e
<1>6. m.op = op /\ m.k = k /\ m.of = t.at
  BY DEF Node
<1>7. Fits(m, t.nodes)
  <2>1. m \in Nodes
    BY <1>4 DEF Node, Nodes, Operable, Table
  <2>2. op \in {"not", "scale"} => Len(t.at) = 1
    BY <1>4 DEF Operable
  <2> HIDE DEF m
  <2> QED BY <1>4, <1>6, <2>1, <2>2 DEF Fits, Table
<1> HIDE DEF m
<1>8. Formed(t.nodes) /\ Len(t.nodes) \in Nat /\ \A j \in DOMAIN t.at : t.at[j] \in DOMAIN t.nodes
  BY <1>4 DEF Table, Formed
<1>9. /\ Formed(ns) /\ DOMAIN ns = 1 .. Len(t.nodes) + 1 /\ ns[Len(t.nodes) + 1] = m
       /\ Extends(t.nodes, ns)
  BY <1>7, <1>8, AppendForms
<1> HIDE DEF ns
<1>10. DOMAIN t.at = 1 .. n /\ Len(t.nodes) + 1 \in DOMAIN ns
  BY <1>4, <1>8, <1>9 DEF Table
<1>11. ASSUME NEW x
       PROVE  Eval(e, x) = Result(Node(op, k, <<>>), [j \in DOMAIN args |-> Eval(args[j], x)], x)
  <2> DEFINE ws == [j \in DOMAIN m.of |-> Values(ns, x)[m.of[j]]]
             wt == [j \in DOMAIN args |-> Eval(args[j], x)]
             o == Node(op, k, <<>>)
  <2>1. Eval(e, x) = Values(ns, x)[Len(t.nodes) + 1]
    BY <1>5 DEF Eval
  <2>2. Values(ns, x)[Len(t.nodes) + 1] = Result(m, ws, x)
    BY <1>9, <1>10, ValuesExist DEF ValuesAre
  <2>3. ws = wt
    <3>1. \A j \in 1 .. n : Values(ns, x)[t.at[j]] = Values(t.nodes, x)[t.at[j]]
      BY <1>8, <1>9, <1>10, ExtendsValues
    <3>2. \A j \in 1 .. n : Values(ns, x)[t.at[j]] = Eval(args[j], x)
      BY <1>4, <3>1 DEF OperandWords
    <3> QED BY <1>1, <1>6, <1>10, <3>2
  <2>4. o.op = op /\ o.k = k /\ op \in Ops
    BY DEF Node, Operable
  <2> HIDE DEF ws, wt, o
  <2>5. Result(o, ws, x) = Result(m, ws, x)
    BY <1>6, <2>4, ResultSame
  <2> QED BY <2>1, <2>2, <2>3, <2>5 DEF wt, o
<1> QED BY <1>11 DEF Applied, e
-----------------------------------------------------------------------------
(* s has every member of D once. *)
Lists(s, D) ==
  /\ s \in Seq(D)
  /\ \A d \in D : \E i \in DOMAIN s : s[i] = d
  /\ \A i, j \in DOMAIN s : s[i] = s[j] => i = j

(* One member more is listed at the end. *)
LEMMA ListsMore ==
  ASSUME NEW D, NEW c \in D, NEW s, Lists(s, D \ {c})
  PROVE  Lists(Append(s, c), D)
<1> DEFINE t == Append(s, c)  n == Len(s)
<1>1. s \in Seq(D \ {c}) /\ n \in Nat /\ DOMAIN s = 1 .. n /\ \A i \in 1 .. n : s[i] \in D \ {c}
  BY DEF Lists
<1>2. s \in Seq(D)
  <2>1. s \in [1 .. n -> D]
    BY <1>1
  <2> QED BY <1>1, <2>1
<1>3. t \in Seq(D) /\ DOMAIN t = 1 .. n + 1 /\ t[n + 1] = c /\ \A i \in 1 .. n : t[i] = s[i]
  BY <1>1, <1>2
<1> HIDE DEF t, n
<1>4. ASSUME NEW d \in D PROVE \E i \in DOMAIN t : t[i] = d
  <2>1. CASE d = c
    <3>1. n + 1 \in 1 .. n + 1
      BY <1>1
    <3> QED BY <1>3, <2>1, <3>1
  <2>2. CASE d # c
    <3>1. PICK i \in 1 .. n : s[i] = d
      BY <1>1, <2>2 DEF Lists
    <3>2. i \in 1 .. n + 1
      BY <1>1, <3>1
    <3> QED BY <1>3, <3>1, <3>2
  <2> QED BY <2>1, <2>2
<1>5. ASSUME NEW i \in DOMAIN t, NEW j \in DOMAIN t, t[i] = t[j] PROVE i = j
  <2>1. \A k \in DOMAIN t :
          \/ (k \in 1 .. n /\ t[k] = s[k] /\ t[k] # c)
          \/ (k = n + 1 /\ t[k] = c)
    BY <1>1, <1>3
  <2> QED BY <1>1, <1>5, <2>1 DEF Lists
<1> QED BY <1>3, <1>4, <1>5 DEF Lists, t

(* Listing a finite set gives a sequence with each member once. *)
LEMMA ListedOnce ==
  ASSUME NEW D, IsFiniteSet(D)
  PROVE  Lists(Listed(D), D)
<1> DEFINE P == SUBSET D
           Q == Seq(D)
           step == [S \in P |-> [w \in [Below(S) -> Q] |->
                      IF S = {} THEN <<>> ELSE Append(w[S \ {Pick(S)}], Pick(S))]]
           rec(h) == [S \in P |-> IF S = {} THEN <<>> ELSE Append(h[S \ {Pick(S)}], Pick(S))]
<1>1. \A S \in P : S # {} => Pick(S) \in D /\ S \ {Pick(S)} \in Below(S)
  BY PickBelow
<1>2. ASSUME NEW S \in P PROVE step[S] \in [[Below(S) -> Q] -> Q]
  <2>1. ASSUME NEW w \in [Below(S) -> Q]
        PROVE  (IF S = {} THEN <<>> ELSE Append(w[S \ {Pick(S)}], Pick(S))) \in Q
    <3>1. CASE S = {}
      BY <3>1
    <3>2. CASE S # {}
      <4>1. w[S \ {Pick(S)}] \in Q /\ Pick(S) \in D
        BY <1>1, <3>2
      <4> QED BY <3>2, <4>1
    <3> QED BY <3>1, <3>2
  <2> HIDE DEF Q
  <2> QED BY <2>1
<1>3. PICK a \in [P -> Q] : \A S \in P : a[S] = step[S][Restrict(a, Below(S))]
  <2> HIDE DEF step, Q
  <2>1. SubsetSteps(D, Q, step)
    BY <1>2 DEF SubsetSteps
  <2>2. PICK a : SubsetFollows(a, D, Q, step)
    BY <2>1, SubsetRecursion
  <2> QED BY <2>2 DEF SubsetFollows
<1>4. a = rec(a)
  <2>1. ASSUME NEW S \in P PROVE a[S] = IF S = {} THEN <<>> ELSE Append(a[S \ {Pick(S)}], Pick(S))
    <3> DEFINE w == Restrict(a, Below(S))
    <3>1. w \in [Below(S) -> Q] /\ \A U \in Below(S) : w[U] = a[U]
      <4> HIDE DEF Q
      <4> QED BY DEF Below, Restrict
    <3> HIDE DEF w, Q
    <3>2. step[S][w] = IF S = {} THEN <<>> ELSE Append(w[S \ {Pick(S)}], Pick(S))
      BY <3>1
    <3>3. a[S] = step[S][w]
      BY <1>3 DEF w
    <3> HIDE DEF step
    <3> QED BY <1>1, <3>1, <3>2, <3>3
  <2> HIDE DEF step, P, Q
  <2> QED BY <1>3, <2>1
<1> DEFINE f == CHOOSE h : h = rec(h)
<1>5. f = rec(f)
  <2> HIDE DEF rec
  <2> QED BY <1>4
<1>6. Listed(D) = f[D]
  BY DEF Listed, FoldSet, MapThenFoldSet, Pick
<1> HIDE DEF f
<1>7. f[{}] = <<>> /\ \A S \in P : S # {} => f[S] = Append(f[S \ {Pick(S)}], Pick(S))
  <2>1. {} \in P /\ rec(f)[{}] = <<>> /\ \A S \in P : S # {} => rec(f)[S] = Append(f[S \ {Pick(S)}], Pick(S))
    OBVIOUS
  <2> QED BY <1>5, <2>1, Zenon
<1> DEFINE T == {S \in P : Lists(f[S], S)}
<1>8. ASSUME NEW S \in P, \A U \in Below(S) : U \in T PROVE S \in T
  <2> HIDE DEF step, rec
  <2>1. CASE S = {}
    <3>1. f[S] = <<>> /\ Lists(<<>>, {})
      BY <1>7, <2>1 DEF Lists
    <3> QED BY <2>1, <3>1
  <2>2. CASE S # {}
    <3>1. Pick(S) \in S /\ Lists(f[S \ {Pick(S)}], S \ {Pick(S)})
      BY <1>8, <2>2, PickBelow
    <3>2. f[S] = Append(f[S \ {Pick(S)}], Pick(S))
      BY <1>7, <2>2
    <3> HIDE DEF P
    <3>3. Lists(f[S], S)
      BY <3>1, <3>2, ListsMore
    <3> QED BY <3>3
  <2> QED BY <2>1, <2>2
<1> HIDE DEF T
<1>9. Hereditary(D, T)
  BY <1>8 DEF Hereditary
<1>10. D \in T
  BY <1>9, SubsetCases
<1> QED BY <1>6, <1>10 DEF T

(* What Coefficients says of the coefficient of S. *)
Remaining(sig, w, c, S) == (sig[S] - SumFunction([T \in (SUBSET S) \ {S} |-> c[T]])) % 2 ^ w
Reduced(c, sig, w, F) == \A S \in SUBSET F : c[S] = Remaining(sig, w, c, S)

(* Coefficients are numbers. *)
LEMMA CoefficientsInt ==
  ASSUME NEW F, IsFiniteSet(F), NEW sig \in [SUBSET F -> Int], NEW w \in Nat
  PROVE  /\ Coefficients(sig, w) \in [SUBSET F -> Int]
         /\ Reduced(Coefficients(sig, w), sig, w, F)
<1> DEFINE P == SUBSET F
           body(S, h) == (sig[S] - SumFunction([T \in (SUBSET S) \ {S} |-> h[T]])) % 2 ^ w
           step == [S \in P |-> [h \in [Below(S) -> Int] |-> body(S, h)]]
           rec(c) == [S \in P |-> body(S, c)]
<1>1. ASSUME NEW S \in P, NEW h, \A U \in Below(S) : h[U] \in Int PROVE body(S, h) \in Int
  <2> DEFINE g == [T \in (SUBSET S) \ {S} |-> h[T]]
  <2>1. IsFiniteSet(Below(S))
    <3>1. IsFiniteSet(SUBSET S)
      BY FS_Subset, FS_SUBSET
    <3> QED BY <3>1, FS_Subset DEF Below
  <2>2. IntFunction(g, Below(S))
    BY <1>1, <2>1 DEF IntFunction, Below
  <2> HIDE DEF g
  <2>3. SumFunction(g) \in Int /\ 2 ^ w \in Nat \ {0}
    BY <2>2, SumType, PowPositive
  <2> DEFINE s == SumFunction(g)  m == 2 ^ w
  <2>4. sig[S] \in Int
    OBVIOUS
  <2>5. body(S, h) = (sig[S] - s) % m
    BY DEF g
  <2> HIDE DEF s, m, body
  <2>6. s \in Int /\ m \in Nat \ {0}
    BY <2>3 DEF s, m
  <2> QED BY <2>4, <2>5, <2>6
<1>2. ASSUME NEW S \in P PROVE step[S] \in [[Below(S) -> Int] -> Int]
  <2>1. ASSUME NEW h \in [Below(S) -> Int] PROVE body(S, h) \in Int
    <3>1. \A U \in Below(S) : h[U] \in Int
      OBVIOUS
    <3> HIDE DEF body
    <3> QED BY <1>1, <3>1
  <2> HIDE DEF body
  <2> QED BY <2>1
<1>3. PICK a \in [P -> Int] : \A S \in P : a[S] = step[S][Restrict(a, Below(S))]
  <2> HIDE DEF step
  <2>1. SubsetSteps(F, Int, step)
    BY <1>2 DEF SubsetSteps
  <2>2. PICK a : SubsetFollows(a, F, Int, step)
    BY <2>1, SubsetRecursion
  <2> QED BY <2>2 DEF SubsetFollows
<1>4. a = rec(a)
  <2>1. ASSUME NEW S \in P PROVE a[S] = body(S, a)
    <3> DEFINE h == Restrict(a, Below(S))
    <3>1. h \in [Below(S) -> Int] /\ \A U \in Below(S) : h[U] = a[U]
      BY DEF Below, Restrict
    <3> HIDE DEF h
    <3>2. [T \in (SUBSET S) \ {S} |-> h[T]] = [T \in (SUBSET S) \ {S} |-> a[T]]
      BY <3>1 DEF Below
    <3>3. body(S, h) = body(S, a)
      BY <3>2
    <3> HIDE DEF body
    <3>4. step[S][h] = body(S, h)
      BY <3>1
    <3>5. a[S] = step[S][h]
      BY <1>3 DEF h
    <3> HIDE DEF step
    <3> QED BY <3>3, <3>4, <3>5
  <2> HIDE DEF step, P, body
  <2> QED BY <1>3, <2>1
<1> DEFINE c == CHOOSE h : h = rec(h)
<1>5. c = rec(c)
  <2> HIDE DEF rec
  <2> QED BY <1>4
<1>6. Coefficients(sig, w) = c
  <2>1. DOMAIN sig = P
    OBVIOUS
  <2> QED BY <2>1, Zenon DEF Coefficients
<1> HIDE DEF c
<1>7. \A S \in P : c[S] = body(S, c)
  <2> HIDE DEF body
  <2> QED BY <1>5
<1> DEFINE T == {S \in P : c[S] \in Int}
<1>8. ASSUME NEW S \in P, \A U \in Below(S) : U \in T PROVE S \in T
  <2>1. \A U \in Below(S) : c[U] \in Int
    BY <1>8
  <2> HIDE DEF body
  <2>2. c[S] \in Int
    BY <1>1, <1>7, <2>1
  <2> QED BY <2>2
<1> HIDE DEF T
<1>9. Hereditary(F, T)
  BY <1>8 DEF Hereditary
<1>10. \A S \in P : S \in T
  BY <1>9, SubsetCases
<1>11. c \in [P -> Int]
  <2>1. c = [S \in P |-> c[S]]
    <3> HIDE DEF body
    <3> QED BY <1>5
  <2> QED BY <1>10, <2>1 DEF T
<1>12. Reduced(c, sig, w, F)
  <2> HIDE DEF rec
  <2> QED BY <1>7 DEF Reduced, Remaining
<1> QED BY <1>6, <1>11, <1>12
-----------------------------------------------------------------------------
(* A finite function has a finite range. *)
LEMMA RangeFinite ==
  ASSUME NEW f, IsFiniteSet(DOMAIN f), f = [x \in DOMAIN f |-> f[x]]
  PROVE  IsFiniteSet(Range(f))
<1>1. f \in Surjection(DOMAIN f, Range(f))
  BY DEF Surjection, Range
<1> QED BY <1>1, FS_Surjection

(* So is an operator that one operand stands for. *)
LEMMA OpOrOnlyOver ==
  ASSUME NEW op, NEW args, NEW V, Operable(op, 0, args, V), args # <<>>
  PROVE  Over(OpOrOnly(op, args), V)
<1>1. CASE Len(args) = 1
  <2>1. 1 \in DOMAIN args
    BY <1>1 DEF Operable
  <2> QED BY <1>1, <2>1 DEF OpOrOnly, Operable
<1>2. CASE Len(args) # 1
  BY <1>2, OpOver DEF OpOrOnly
<1> QED BY <1>1, <1>2

(* A sequence is one of its members. *)
LEMMA RangeSeq ==
  ASSUME NEW D, NEW s \in Seq(D)
  PROVE  s \in Seq(Range(s)) /\ \A i \in DOMAIN s : s[i] \in D
<1>1. s \in [1 .. Len(s) -> Range(s)] /\ Len(s) \in Nat
  BY DEF Range
<1> QED BY <1>1

(* A variable of V is over V. *)
LEMMA VarOver ==
  ASSUME NEW V \in SUBSET Int, NEW v \in V
  PROVE  Over(Var(v), V)
<1>1. Operable("var", v, <<>>, V)
  BY DEF Operable, Ops
<1> QED BY <1>1, OpOver DEF Var

(* A constant is over any variables. *)
LEMMA ConstOver ==
  ASSUME NEW V, NEW c \in Int
  PROVE  Over(Const(c), V)
<1>1. Operable("const", c, <<>>, V)
  BY DEF Operable, Ops
<1> QED BY <1>1, OpOver DEF Const

(* A multiple of a conjunction of variables of V is over V. *)
LEMMA TermOver ==
  ASSUME NEW V \in SUBSET Int, NEW S \in SUBSET V, IsFiniteSet(S), NEW c \in Int
  PROVE  Over(Term(c, S), V)
<1>1. CASE S = {}
  BY <1>1, ConstOver DEF Term
<1>2. CASE S # {}
  <2> DEFINE D == {Var(v) : v \in S}  args == Listed(D)  e == Conjunction(S)
  <2>1. IsFiniteSet(D) /\ D # {}
    <3> DEFINE f == [v \in S |-> Var(v)]
    <3>1. DOMAIN f = S /\ f = [v \in DOMAIN f |-> f[v]] /\ Range(f) = D
      BY DEF Range
    <3> HIDE DEF f
    <3>2. IsFiniteSet(D)
      BY <3>1, RangeFinite
    <3> QED BY <1>2, <3>2
  <2>2. args \in Seq(D)
    BY <2>1, ListedOnce DEF Lists
  <2>3. \A d \in D : Over(d, V)
    BY VarOver
  <2>4. e = OpOrOnly("and", args)
    BY DEF Conjunction
  <2> HIDE DEF D, args, e
  <2>5. Operable("and", 0, args, V)
    BY <2>2, <2>3, RangeSeq DEF Operable, Ops
  <2>6. Over(e, V)
    <3>1. CASE args # <<>>
      BY <2>4, <2>5, <3>1, OpOrOnlyOver
    <3>2. CASE args = <<>>
      <4>1. e = Op("and", 0, args)
        BY <2>4, <3>2 DEF OpOrOnly
      <4> QED BY <2>5, <4>1, OpOver
    <3> QED BY <3>1, <3>2
  <2>7. Over(Times(c, e), V)
    <3>1. Operable("scale", c, <<e>>, V)
      <4>1. <<e>> \in Seq(Range(<<e>>)) /\ Len(<<e>>) = 1 /\ \A i \in DOMAIN <<e>> : <<e>>[i] = e
        BY DEF Range
      <4> QED BY <2>6, <4>1 DEF Operable, Ops
    <3> QED BY <2>6, <3>1, OpOver DEF Times
  <2> QED BY <1>2, <2>7 DEF Term, e
<1> QED BY <1>1, <1>2

(* A sum of such terms is over V. *)
LEMMA ConjunctionSumOver ==
  ASSUME NEW V \in SUBSET Int, IsFiniteSet(V), NEW c \in [SUBSET V -> Int]
  PROVE  Over(ConjunctionSum(c), V)
<1> DEFINE P == {T \in SUBSET V : c[T] # 0}
           D == {Term(c[S], S) : S \in P}
           terms == Listed(D)
           op == IF Width = 1 THEN "xor" ELSE "add"
<1>1. ConjunctionSum(c) = SumOfAll(terms)
  <2>1. DOMAIN c = SUBSET V
    OBVIOUS
  <2> QED BY <2>1, Zenon DEF ConjunctionSum
<1>2. IsFiniteSet(P)
  <2>1. IsFiniteSet(SUBSET V)
    BY FS_SUBSET
  <2> QED BY <2>1, FS_Subset
<1>3. \A d \in D : Over(d, V)
  <2> SUFFICES ASSUME NEW S \in P PROVE Over(Term(c[S], S), V)
    OBVIOUS
  <2>1. S \in SUBSET V /\ IsFiniteSet(S) /\ c[S] \in Int
    BY FS_Subset
  <2> QED BY <2>1, TermOver
<1> HIDE DEF P
<1>4. IsFiniteSet(D)
  <2> DEFINE f == [S \in P |-> Term(c[S], S)]
  <2>1. DOMAIN f = P /\ f = [S \in DOMAIN f |-> f[S]] /\ Range(f) = D
    BY DEF Range
  <2> HIDE DEF f, D
  <2> QED BY <1>2, <2>1, RangeFinite
<1>5. terms \in Seq(D)
  BY <1>4, ListedOnce DEF Lists
<1>6. op \in {"xor", "add"}
  OBVIOUS
<1>7. SumOfAll(terms) = IF terms = <<>> THEN Const(0) ELSE OpOrOnly(op, terms)
  BY DEF SumOfAll
<1> HIDE DEF D, terms, op
<1>8. Operable(op, 0, terms, V)
  BY <1>3, <1>5, <1>6, RangeSeq DEF Operable, Ops
<1> QED BY <1>1, <1>7, <1>8, ConstOver, OpOrOnlyOver

(* An expression has finitely many variables. *)
LEMMA VarsFinite ==
  ASSUME NEW e, WellFormed(e)
  PROVE  IsFiniteSet(VarsOf(e)) /\ VarsOf(e) \in SUBSET Int
<1> DEFINE I == {j \in DOMAIN e.nodes : e.nodes[j].op = "var"}
<1>1. Formed(e.nodes) /\ DOMAIN e.nodes = 1 .. Len(e.nodes) /\ Len(e.nodes) \in Nat
  BY DEF WellFormed, Formed
<1>2. IsFiniteSet(DOMAIN e.nodes)
  BY <1>1, FS_Interval
<1>3. IsFiniteSet(I)
  BY <1>2, FS_Subset
<1>4. \A i \in I : e.nodes[i].k \in Int
  BY <1>1, NodeForm
<1>5. VarsOf(e) = {e.nodes[i].k : i \in I}
  BY DEF VarsOf, VarsIn
<1> HIDE DEF I
<1> DEFINE f == [i \in I |-> e.nodes[i].k]
<1>6. DOMAIN f = I /\ f = [i \in DOMAIN f |-> f[i]] /\ Range(f) = VarsOf(e)
  BY <1>5 DEF Range
<1> HIDE DEF f
<1>7. IsFiniteSet(VarsOf(e))
  BY <1>3, <1>6, RangeFinite
<1> QED BY <1>4, <1>5, <1>7

(* A signature is a function to numbers. *)
LEMMA OnCubeInt ==
  ASSUME NEW e, WellFormed(e)
  PROVE  OnCube(e) \in [SUBSET VarsOf(e) -> Int]
<1> SUFFICES ASSUME NEW S \in SUBSET VarsOf(e)
             PROVE  Num(Eval(e, [v \in VarsOf(e) |-> IF v \in S THEN {0} ELSE {}])) \in Int
  BY DEF OnCube, Signature
<1> DEFINE x == [v \in VarsOf(e) |-> IF v \in S THEN {0} ELSE {}]
<1>1. Formed(e.nodes) /\ e.root \in DOMAIN e.nodes
  BY DEF WellFormed, Formed
<1>2. {0} \in Words /\ {} \in Words
  BY WidthAssumption DEF Words, Bits
<1>3. \A v \in VarsIn(e.nodes) : x[v] \in Words
  BY <1>2 DEF VarsOf
<1> HIDE DEF x
<1>4. Eval(e, x) \in Words
  BY <1>1, <1>3, ValuesAreWords DEF Eval
<1>5. Num(Eval(e, x)) \in Int
  <2>1. 0 \in Nat
    OBVIOUS
  <2> QED BY <1>4, <2>1, LowInt
<1> QED BY <1>5 DEF x

(* The candidates are formed and over the variables of the expression. *)
LEMMA CandidatesOver ==
  ASSUME NEW e, WellFormed(e)
  PROVE  Over(Projection(e), VarsOf(e)) /\ Over(Affine(e), VarsOf(e))
<1> DEFINE V == VarsOf(e)  c == Coefficients(OnCube(e), Width)
<1>1. V \in SUBSET Int /\ IsFiniteSet(V) /\ OnCube(e) \in [SUBSET V -> Int]
  BY VarsFinite, OnCubeInt
<1> HIDE DEF V
<1>2. c \in [SUBSET V -> Int]
  BY <1>1, CoefficientsInt, WidthAssumption
<1>3. Singles(c) \in [SUBSET V -> Int]
  <2> HIDE DEF c
  <2> QED BY <1>2 DEF Singles
<1>4. Projection(e) = ConjunctionSum(c) /\ Affine(e) = ConjunctionSum(Singles(c))
  BY DEF Projection, Affine
<1> HIDE DEF c
<1>5. Over(ConjunctionSum(c), V) /\ Over(ConjunctionSum(Singles(c)), V)
  BY <1>1, <1>2, <1>3, ConjunctionSumOver
<1> QED BY <1>4, <1>5 DEF V
-----------------------------------------------------------------------------
(* What the proofs need to know of the other variables: expressions are        *)
(* formed, candidates are over the variables of the expression, and the nodes *)
(* scanned are the shared nodes of the pair.                                 *)
QueueOver(q, e) == q \in Seq(Range(q)) /\ \A i \in DOMAIN q : Over(q[i], VarsOf(e))
FormInv ==
  /\ WellFormed(expression) /\ WellFormed(candidate)
  /\ mode # "certify" => Over(candidate, VarsOf(expression))
  /\ QueueOver(queue, expression)
  /\ limits \in LimitSets /\ mode \in {"production", "linear", "analyze", "certify"}
Scanned == pc = "scan" \/ (pc = "decided" /\ verdict.kind \in {"proved", "differ"})
DagInv ==
  Scanned => nodes = Dag.nodes /\ left = Dag.left /\ right = Dag.right /\ Supported
FoundInv ==
  pc = "decided" /\ verdict.kind = "differ" =>
    verdict.bit \in Bits /\ \A v \in AllVars : verdict.values[v] \in Words
ExactInv == CertInv /\ FormInv /\ DagInv /\ FoundInv

(* An expression is over its own variables. *)
LEMMA OverItself == \A e : WellFormed(e) => Over(e, VarsOf(e))
  BY DEF Over

(* The first pair is formed. *)
LEMMA FormInit == Init => FormInv
<1> SUFFICES ASSUME Init PROVE FormInv
  OBVIOUS
<1>1. expression \in Exprs /\ (candidate = expression \/ (mode = "certify" /\ candidate \in Given)) /\ queue = <<>>
  BY DEF Init
<1>2. WellFormed(expression) /\ WellFormed(candidate)
  BY <1>1, ExprsAssumption
<1>3. mode # "certify" => Over(candidate, VarsOf(expression))
  BY <1>1, <1>2, OverItself
<1>4. QueueOver(<<>>, expression)
  BY DEF QueueOver
<1>5. limits \in LimitSets /\ mode \in {"production", "linear", "analyze", "certify"}
  BY DEF Init
<1> QED BY <1>1, <1>2, <1>3, <1>4, <1>5 DEF FormInv

(* The members of a queue that is cut or sorted are candidates still. *)
LEMMA ShortQueue ==
  ASSUME NEW e, NEW b, NEW a, Over(b, VarsOf(e)), Over(a, VarsOf(e)), limits.candidates \in Int
  PROVE  QueueOver(Shortest(b, a), e)
<1> DEFINE D == {c \in {b, a} : Smaller(c)}
           s == IF Smaller(b) /\ Smaller(a) THEN ShorterFirst(b, a) ELSE Listed(D)
<1>1. \A c \in {b, a} : Over(c, VarsOf(e))
  OBVIOUS
<1>2. s \in Seq({b, a})
  <2>1. CASE Smaller(b) /\ Smaller(a)
    <3>1. <<b>> \in Seq({b, a}) /\ <<a, b>> \in Seq({b, a}) /\ <<b, a>> \in Seq({b, a})
      OBVIOUS
    <3>2. ShorterFirst(b, a) \in {<<b>>, <<a, b>>, <<b, a>>}
      BY DEF ShorterFirst
    <3>3. ShorterFirst(b, a) \in Seq({b, a})
      BY <3>1, <3>2
    <3> QED BY <2>1, <3>3
  <2>2. CASE ~(Smaller(b) /\ Smaller(a))
    <3>1. IsFiniteSet(D) /\ D \subseteq {b, a}
      <4>1. IsFiniteSet({b, a})
        <5>1. {b, a} = {b} \cup {a} /\ IsFiniteSet({b})
          BY FS_Singleton
        <5> QED BY <5>1, FS_AddElement
      <4> QED BY <4>1, FS_Subset
    <3> HIDE DEF D
    <3>2. Listed(D) \in Seq(D)
      BY <3>1, ListedOnce DEF Lists
    <3>3. Listed(D) \in Seq({b, a})
      BY <3>1, <3>2
    <3> QED BY <2>2, <3>3
  <2> QED BY <2>1, <2>2
<1>3. Shortest(b, a) = FewEnough(s)
  BY Zenon DEF Shortest
<1> HIDE DEF s
<1>4. FewEnough(s) \in Seq({b, a})
  <2> DEFINE n == IF Len(s) < limits.candidates THEN Len(s) ELSE limits.candidates
  <2>1. FewEnough(s) = SubSeq(s, 1, n) /\ n \in Int /\ n <= Len(s)
    BY <1>2 DEF FewEnough
  <2> HIDE DEF n
  <2>2. SubSeq(s, 1, n) \in Seq({b, a})
    BY <1>2, <2>1
  <2> QED BY <2>1, <2>2
<1> QED BY <1>1, <1>3, <1>4, RangeSeq DEF QueueOver

(* What Generate queues is over the variables of the expression. *)
LEMMA GenerateForms ==
  ASSUME FormInv, mode # "certify"
  PROVE  QueueOver(Candidates, expression)
<1>0. limits.candidates \in Int /\ mode \in {"production", "linear", "analyze"}
  BY LimitsAssumption DEF FormInv
<1> DEFINE p == Projection(expression)  a == Affine(expression)  V == VarsOf(expression)
<1>1. Over(p, V) /\ Over(a, V)
  BY CandidatesOver DEF FormInv
<1> HIDE DEF p, a
<1>2. Candidates = CandidatesFrom(p, a)
  BY DEF Candidates, p, a
<1>3. QueueOver(<<>>, expression) /\ QueueOver(<<p>>, expression)
  BY <1>1 DEF QueueOver, Range
<1>4. CASE mode = "production"
  BY <1>2, <1>3, <1>4 DEF CandidatesFrom
<1>5. CASE mode = "linear"
  BY <1>2, <1>3, <1>5 DEF CandidatesFrom
<1>6. CASE mode = "analyze"
  <2> DEFINE b == IF UniformOnMask(expression) THEN p ELSE a
  <2>1. Over(b, V)
    BY <1>1
  <2>2. Candidates = Shortest(b, a)
    BY <1>2, <1>6 DEF CandidatesFrom
  <2> HIDE DEF b
  <2> QED BY <1>0, <1>1, <2>1, <2>2, ShortQueue
<1> QED BY <1>0, <1>4, <1>5, <1>6

(* Every step keeps expressions formed. *)
LEMMA FormStep == FormInv /\ [Next]_vars /\ (pc = "start" => mode # "certify") => FormInv'
<1> SUFFICES ASSUME FormInv, [Next]_vars, pc = "start" => mode # "certify" PROVE FormInv'
  OBVIOUS
<1> USE DEF FormInv
<1>1. CASE UNCHANGED <<expression, candidate, mode, queue, limits>>
  BY <1>1 DEF QueueOver, Over, VarsOf
<1>2. CASE Generate
  <2>1. queue' = Candidates /\ UNCHANGED <<expression, candidate, mode, limits>> /\ pc = "start"
    BY <1>2 DEF Generate
  <2>2. QueueOver(Candidates, expression)
    BY <2>1, GenerateForms
  <2> QED BY <2>1, <2>2
<1>3. CASE Offer
  <2>1. /\ queue # <<>> /\ candidate' = Head(queue) /\ queue' = Tail(queue)
        /\ UNCHANGED <<expression, mode, limits>>
    BY <1>3 DEF Offer
  <2>2. queue \in Seq(Range(queue)) /\ \A i \in DOMAIN queue : Over(queue[i], VarsOf(expression))
    BY DEF QueueOver
  <2>3. Over(Head(queue), VarsOf(expression))
    BY <2>1, <2>2
  <2>4. Tail(queue) \in Seq(Range(queue)) /\ \A i \in DOMAIN Tail(queue) : i + 1 \in DOMAIN queue /\ Tail(queue)[i] = queue[i + 1]
    BY <2>1, <2>2
  <2>5. QueueOver(Tail(queue), expression)
    BY <2>2, <2>4, RangeSeq DEF QueueOver
  <2> QED BY <2>1, <2>3, <2>5 DEF Over
<1>4. CASE Refuse \/ Accept \/ PassOver \/ Exhausted
  BY <1>1, <1>4 DEF Refuse, Accept, PassOver, Exhausted
<1>5. CASE Certify /\ UNCHANGED <<mode, queue, unsure, result, failure>>
  <2>1. UNCHANGED <<expression, candidate, limits>>
    <3>1. CASE OverVariables \/ Unfit \/ OverNodes
      BY <3>1 DEF OverVariables, Unfit, OverNodes, Decide
    <3>2. CASE Begin
      BY <3>2 DEF Begin
    <3>3. CASE NextBit
      BY <3>3 DEF NextBit, Decide
    <3>4. ASSUME NEW p \in todo, Explore(p) PROVE UNCHANGED <<expression, candidate, limits>>
      BY <3>4 DEF Explore, Decide
    <3> QED BY <1>5, <3>1, <3>2, <3>3, <3>4 DEF Certify
  <2> QED BY <1>1, <1>5, <2>1
<1>6. CASE UNCHANGED vars
  BY <1>1, <1>6 DEF vars, certVars
<1> QED BY <1>2, <1>3, <1>4, <1>5, <1>6 DEF Next
-----------------------------------------------------------------------------
ModeInv == pc = "start" => mode # "certify"

(* A pair from elsewhere has no candidates generated. *)
LEMMA ModeStep == ModeInv /\ [Next]_vars => ModeInv'
<1> SUFFICES ASSUME ModeInv, [Next]_vars PROVE ModeInv'
  OBVIOUS
<1>1. ASSUME pc' # "start" PROVE ModeInv'
  BY <1>1 DEF ModeInv
<1>2. CASE Refuse \/ Accept \/ PassOver \/ Exhausted \/ Generate \/ Offer
  BY <1>1, <1>2 DEF Refuse, Accept, PassOver, Exhausted, Generate, Offer, Finish
<1>3. CASE Certify /\ UNCHANGED <<mode, queue, unsure, result, failure>>
  <2>1. CASE OverVariables \/ Unfit \/ OverNodes \/ Begin
    BY <1>1, <2>1 DEF OverVariables, Unfit, OverNodes, Begin, Decide
  <2>2. CASE NextBit
    BY <1>1, <2>2 DEF NextBit, Decide
  <2>3. ASSUME NEW p \in todo, Explore(p) PROVE ModeInv'
    <3>1. pc = "scan" /\ (pc' = "decided" \/ pc' = pc)
      BY <2>3 DEF Explore, Decide
    <3> QED BY <1>1, <3>1
  <2> QED BY <1>3, <2>1, <2>2, <2>3 DEF Certify
<1>4. CASE UNCHANGED vars
  BY <1>4 DEF ModeInv, vars, certVars
<1> QED BY <1>2, <1>3, <1>4 DEF Next

(* A scan is of the nodes it began with. *)
LEMMA DagStep == DagInv /\ [Next]_vars => DagInv'
<1> SUFFICES ASSUME DagInv, [Next]_vars PROVE DagInv'
  OBVIOUS
<1>1. ASSUME ~Scanned' PROVE DagInv'
  BY <1>1 DEF DagInv
<1>2. ASSUME Scanned, UNCHANGED <<expression, candidate, nodes, left, right>> PROVE DagInv'
  <2>1. Dag' = Dag /\ (Supported' <=> Supported)
    BY <1>2 DEF Dag, Supported, InFragment
  <2> QED BY <1>2, <2>1 DEF DagInv
<1>3. CASE Refuse \/ Accept \/ PassOver \/ Exhausted \/ Generate \/ Offer
  BY <1>1, <1>3 DEF Refuse, Accept, PassOver, Exhausted, Generate, Offer, Finish, Scanned
<1>4. CASE Certify /\ UNCHANGED <<mode, queue, unsure, result, failure>>
  <2>1. CASE OverVariables \/ Unfit \/ OverNodes
    <3>1. pc' = "decided" /\ verdict'.kind \in {"unknown", "unsupported"}
      BY <2>1 DEF OverVariables, Unfit, OverNodes, Decide, Unknown, Unsupported
    <3> QED BY <1>1, <3>1 DEF Scanned
  <2>2. CASE Begin
    <3>1. /\ nodes' = Dag.nodes /\ left' = Dag.left /\ right' = Dag.right /\ Supported
          /\ UNCHANGED <<expression, candidate>>
      BY <2>2 DEF Begin
    <3>2. Dag' = Dag /\ (Supported' <=> Supported)
      BY <3>1 DEF Dag, Supported, InFragment
    <3> QED BY <3>1, <3>2 DEF DagInv
  <2>3. CASE NextBit
    <3>1. pc = "scan" /\ UNCHANGED <<expression, candidate, nodes, left, right>>
      BY <2>3 DEF NextBit, Decide
    <3> QED BY <1>2, <3>1 DEF Scanned
  <2>4. ASSUME NEW p \in todo, Explore(p) PROVE DagInv'
    <3>1. pc = "scan" /\ UNCHANGED <<expression, candidate, nodes, left, right>>
      BY <2>4 DEF Explore, Decide, scanVars
    <3> QED BY <1>2, <3>1 DEF Scanned
  <2> QED BY <1>4, <2>1, <2>2, <2>3, <2>4 DEF Certify
<1>5. CASE UNCHANGED vars
  <2>1. UNCHANGED <<expression, candidate, nodes, left, right>> /\ (Scanned' <=> Scanned)
    BY <1>5 DEF vars, certVars, scanVars, Scanned
  <2> QED BY <1>1, <1>2, <2>1
<1> QED BY <1>3, <1>4, <1>5 DEF Next

(* The words of a counterexample are words, and its bit is one of theirs. *)
LEMMA FoundStep == FoundInv /\ CertInv /\ [Next]_vars => FoundInv'
<1> SUFFICES ASSUME FoundInv, CertInv, [Next]_vars PROVE FoundInv'
  OBVIOUS
<1>1. ASSUME pc' # "decided" \/ verdict'.kind # "differ" PROVE FoundInv'
  BY <1>1 DEF FoundInv
<1>2. CASE Refuse \/ Accept \/ PassOver \/ Exhausted \/ Generate \/ Offer
  BY <1>1, <1>2 DEF Refuse, Accept, PassOver, Exhausted, Generate, Offer, Finish
<1>3. CASE Certify /\ UNCHANGED <<mode, queue, unsure, result, failure>>
  <2>1. CASE OverVariables \/ Unfit \/ OverNodes \/ Begin
    BY <1>1, <2>1 DEF OverVariables, Unfit, OverNodes, Begin, Decide, Unknown, Unsupported
  <2>2. CASE NextBit
    BY <1>1, <2>2 DEF NextBit, Decide, Proved
  <2>3. ASSUME NEW p \in todo, Explore(p) PROVE FoundInv'
    <3> DEFINE words == Extended(states[p[1]], p[2])
    <3>1. pc = "scan" /\ UNCHANGED <<expression, candidate>>
      BY <2>3 DEF Explore, Decide, scanVars
    <3>2. /\ bit \in Nat /\ bit < Width /\ p[1] \in DOMAIN states
          /\ \A c \in DOMAIN states : Leads(Machine, states[c], bit, c)
      BY <3>1 DEF CertInv, ScanInv, Pairs
    <3>3. \A v \in AllVars : states[p[1]][v] \subseteq 0 .. bit - 1
      <4>1. Leads(Machine, states[p[1]], bit, p[1]) /\ Machine.vars = AllVars
        BY <3>2 DEF Machine
      <4> HIDE DEF Machine
      <4> QED BY <4>1 DEF Leads
    <3>4. bit \in Bits /\ 0 .. bit - 1 \subseteq Bits
      BY <3>2, WidthAssumption DEF Bits
    <3>5. \A v \in AllVars : words[v] \in Words
      <4> TAKE v \in AllVars
      <4>1. words[v] \subseteq states[p[1]][v] \cup {bit}
        BY DEF Extended
      <4> QED BY <3>3, <3>4, <4>1 DEF Words
    <3>6. AllVars' = AllVars
      BY <3>1 DEF AllVars
    <3> HIDE DEF words
    <3>7. CASE Decide(NotEqual(words))
      <4>1. verdict'.values = words /\ verdict'.bit = bit
        BY <3>7 DEF Decide, NotEqual
      <4> QED BY <3>4, <3>5, <3>6, <4>1 DEF FoundInv
    <3>8. CASE pc' = pc \/ \E n : Decide(Unknown("states", n))
      <4>1. pc' # "decided" \/ verdict'.kind # "differ"
        BY <3>1, <3>8 DEF Decide, Unknown
      <4> QED BY <1>1, <4>1
    <3> QED BY <2>3, <3>7, <3>8 DEF Explore, words
  <2> QED BY <1>3, <2>1, <2>2, <2>3 DEF Certify
<1>4. CASE UNCHANGED vars
  BY <1>4 DEF FoundInv, vars, certVars, AllVars
<1> QED BY <1>2, <1>3, <1>4 DEF Next

(* The invariant always holds. *)
LEMMA ExactAlways == Spec => [](ExactInv /\ ModeInv)
<1>1. Init => ExactInv /\ ModeInv
  BY CertInit, FormInit DEF Init, ExactInv, ModeInv, DagInv, FoundInv, Scanned
<1>2. ExactInv /\ ModeInv /\ [Next]_vars => ExactInv' /\ ModeInv'
  BY CertStep, FormStep, DagStep, FoundStep, ModeStep DEF ExactInv, ModeInv
<1> QED BY <1>1, <1>2, PTL DEF Spec
-----------------------------------------------------------------------------
(* In a scan the machine is sound, and its nodes have the words of the pair.  *)
LEMMA MachineIsSound ==
  ASSUME ExactInv, Scanned
  PROVE  /\ Sound(Machine) /\ Machine.nodes = nodes /\ Machine.vars = AllVars
         /\ \A x : /\ Values(nodes, x)[Machine.left] = Eval(expression, x)
                   /\ Values(nodes, x)[Machine.right] = Eval(candidate, x)
<1>1. WellFormed(expression) /\ WellFormed(candidate)
  BY DEF ExactInv, FormInv
<1>2. nodes = Dag.nodes /\ left = Dag.left /\ right = Dag.right /\ Supported
  BY DEF ExactInv, DagInv
<1>3. DagOf(nodes, left, right, expression, candidate)
  BY <1>1, <1>2, DagShares
<1>4. /\ Machine.nodes = nodes /\ Machine.left = left /\ Machine.right = right
      /\ Machine.vars = AllVars
  BY DEF Machine
<1>5. VarsIn(nodes) \subseteq AllVars
  <2> SUFFICES ASSUME NEW v \in VarsIn(nodes) PROVE v \in AllVars
    OBVIOUS
  <2>1. <<"var", v>> \in Kinds(expression.nodes) \cup Kinds(candidate.nodes)
    BY <1>3, KindsVars DEF DagOf
  <2>2. v \in VarsIn(expression.nodes) \/ v \in VarsIn(candidate.nodes)
    BY <2>1, VarsKinds
  <2> QED BY <2>2 DEF AllVars, VarsOf
<1>6. \A i \in DOMAIN nodes : nodes[i].op # "mul"
  <2> SUFFICES ASSUME NEW i \in DOMAIN nodes, nodes[i].op = "mul" PROVE FALSE
    OBVIOUS
  <2>1. Kind(nodes[i]) \in Kinds(expression.nodes) \cup Kinds(candidate.nodes)
    BY <1>3 DEF DagOf, Kinds
  <2>2. \/ \E j \in DOMAIN expression.nodes : expression.nodes[j].op = "mul"
        \/ \E j \in DOMAIN candidate.nodes : candidate.nodes[j].op = "mul"
    BY <2>1 DEF Kinds, Kind
  <2> QED BY <1>2, <2>2 DEF Supported, InFragment
<1> HIDE DEF Machine
<1>7. BitSerial(nodes) /\ left \in DOMAIN nodes /\ right \in DOMAIN nodes
  BY <1>3, <1>6 DEF DagOf, BitSerial
<1>8. Sound(Machine)
  BY <1>4, <1>5, <1>7 DEF Sound
<1>9. \A x : /\ Values(nodes, x)[Machine.left] = Eval(expression, x)
             /\ Values(nodes, x)[Machine.right] = Eval(candidate, x)
  BY <1>3, <1>4 DEF DagOf
<1> QED BY <1>4, <1>8, <1>9

(* A run of the machine agrees at every bit, so the words are equal. *)
LEMMA ProvedMeansEqual == ExactInv => ProvedIsEqual
<1> SUFFICES ASSUME ExactInv, pc = "decided", verdict.kind = "proved", NEW x \in [AllVars -> Words]
             PROVE  Eval(expression, x) = Eval(candidate, x)
  BY DEF ProvedIsEqual
<1> DEFINE m == Machine  r == [k \in 0 .. Width |-> At(m, x, k)]  e == Eval(expression, x)  c == Eval(candidate, x)
<1>1. /\ Sound(m) /\ m.nodes = nodes /\ m.vars = AllVars
      /\ Values(nodes, x)[m.left] = e /\ Values(nodes, x)[m.right] = c
  BY MachineIsSound DEF Scanned
<1>2. Width \in Nat /\ Holds(x, m)
  BY <1>1, WidthAssumption DEF Holds
<1> HIDE DEF m
<1>3. IsRun(m, x, r, Width)
  BY <1>1, <1>2, QuotientsRun
<1>4. \A k \in 0 .. Width - 1 : AgreeAt(m, x, r, k)
  BY <1>3 DEF ExactInv, CertInv, ProofCoversRuns, m
<1>5. \A k \in Bits : k \in e <=> k \in c
  <2> TAKE k \in Bits
  <2>1. k \in 0 .. Width - 1 /\ k \in 0 .. Width
    BY <1>2 DEF Bits
  <2>2. r[k] = At(m, x, k)
    BY <2>1
  <2> HIDE DEF r
  <2> QED BY <1>1, <1>2, <1>4, <2>1, <2>2, AgreeMeans
<1>6. e \subseteq Bits /\ c \subseteq Bits
  <2>1. Formed(nodes) /\ m.left \in DOMAIN nodes /\ m.right \in DOMAIN nodes /\ \A v \in VarsIn(nodes) : x[v] \in Words
    BY <1>1 DEF Sound, BitSerial
  <2>2. \A i \in DOMAIN nodes : Values(nodes, x)[i] \in Words
    BY <2>1, ValuesAreWords
  <2> QED BY <1>1, <2>1, <2>2 DEF Words
<1> HIDE DEF e, c
<1> QED BY <1>5, <1>6 DEF e, c

(* The run of the counterexample disagrees at its bit, the runs of others at none below. *)
LEMMA DifferMeansApart == ExactInv => CounterexampleReplays
<1> SUFFICES ASSUME ExactInv, pc = "decided", verdict.kind = "differ"
             PROVE  LET Apart(x, b) == (b \in Eval(expression, x)) # (b \in Eval(candidate, x))
                    IN /\ Apart(verdict.values, verdict.bit)
                       /\ \A x \in [AllVars -> Words], b \in 0 .. verdict.bit - 1 : ~Apart(x, b)
  BY DEF CounterexampleReplays
<1> DEFINE m == Machine  n == verdict.bit  y == verdict.values
<1>1. /\ Sound(m) /\ m.nodes = nodes /\ m.vars = AllVars
      /\ \A x : Values(nodes, x)[m.left] = Eval(expression, x) /\ Values(nodes, x)[m.right] = Eval(candidate, x)
  BY MachineIsSound DEF Scanned
<1>2. n \in Bits /\ \A v \in AllVars : y[v] \in Words
  BY DEF ExactInv, FoundInv
<1>3. n \in Nat /\ n <= Width /\ Holds(y, m)
  BY <1>1, <1>2, WidthAssumption DEF Bits, Holds
<1>4. /\ \E r : IsRun(m, y, r, n) /\ ~AgreeAt(m, y, r, n)
      /\ \A x, r : IsRun(m, x, r, n) => \A k \in 0 .. n - 1 : AgreeAt(m, x, r, k)
  BY DEF ExactInv, CertInv, CounterexampleRuns
<1> HIDE DEF m, n, y
<1>5. (n \in Eval(expression, y)) # (n \in Eval(candidate, y))
  <2>1. PICK r : IsRun(m, y, r, n) /\ ~AgreeAt(m, y, r, n)
    BY <1>4
  <2>2. r[n] = At(m, y, n)
    <3>1. n \in 0 .. n
      BY <1>3
    <3> QED BY <1>1, <1>3, <2>1, <3>1, RunsAreQuotients
  <2> QED BY <1>1, <1>2, <1>3, <2>1, <2>2, AgreeMeans
<1>6. ASSUME NEW x \in [AllVars -> Words], NEW b \in 0 .. n - 1
      PROVE  (b \in Eval(expression, x)) <=> (b \in Eval(candidate, x))
  <2> DEFINE r == [k \in 0 .. n |-> At(m, x, k)]
  <2>1. Holds(x, m)
    BY <1>1 DEF Holds
  <2>2. IsRun(m, x, r, n)
    BY <1>1, <1>3, <2>1, QuotientsRun
  <2>3. b \in Bits /\ b \in 0 .. n
    BY <1>3, WidthAssumption DEF Bits
  <2>4. r[b] = At(m, x, b)
    BY <2>3
  <2> HIDE DEF r
  <2>5. AgreeAt(m, x, r, b)
    BY <1>4, <2>2
  <2> QED BY <1>1, <2>1, <2>3, <2>4, <2>5, AgreeMeans
<1> QED BY <1>5, <1>6 DEF n, y

(* A slot's quotient, written out.                                            *)
WrittenOut(ns, v, k, i) ==
  (IF ns[i].op = "add" THEN SumFunction([j \in DOMAIN ns[i].of |-> Num(v[ns[i].of[j]] \cap 0 .. k - 1)])
   ELSE Signed(ns[i].k) * Num(v[ns[i].of[1]] \cap 0 .. k - 1)) \div 2 ^ k

(* A slot's quotient, written out. *)
LEMMA QuotientForm ==
  ASSUME NEW ns, BitSerial(ns), NEW x, NEW k, NEW i \in Slots(ns)
  PROVE  Quotients(ns, x, k)[i] = WrittenOut(ns, Values(ns, x), k, i)
<1> DEFINE v == Values(ns, x)  Low(j) == Num(v[j] \cap 0 .. k - 1)
           words == ChildrenOf(ns, x, i)
<1>1. Quotients(ns, x, k)[i] = Gathered(ns[i], words, k) \div 2 ^ k
  BY DEF Quotients
<1>2. DOMAIN words = DOMAIN ns[i].of /\ \A j \in DOMAIN words : LowBits(words[j], k) = Low(ns[i].of[j])
  BY DEF ChildrenOf, LowBits
<1>3. CASE ns[i].op = "add"
  <2>1. [j \in DOMAIN words |-> LowBits(words[j], k)] = [j \in DOMAIN ns[i].of |-> Low(ns[i].of[j])]
    BY <1>2
  <2>2. Gathered(ns[i], words, k) = SumFunction([j \in DOMAIN ns[i].of |-> Low(ns[i].of[j])])
    BY <1>3, <2>1 DEF Gathered
  <2> QED BY <1>1, <1>3, <2>2 DEF WrittenOut
<1>4. CASE ns[i].op # "add"
  <2>1. 1 \in DOMAIN words
    <3>1. Len(ns[i].of) = 1 /\ ns[i].of \in Seq(Nat)
      BY <1>4, NodeForm DEF BitSerial, Formed, ChildrenFirst, Slots
    <3> QED BY <1>2, <3>1
  <2>2. Gathered(ns[i], words, k) = Signed(ns[i].k) * Low(ns[i].of[1])
    BY <1>2, <1>4, <2>1 DEF Gathered
  <2> QED BY <1>1, <1>4, <2>2 DEF WrittenOut
<1> QED BY <1>3, <1>4

(* A vector reached is the quotients of the words that reach it. *)
LEMMA CarriesMean == ExactInv => CarriesAreQuotients
<1> SUFFICES ASSUME ExactInv, pc = "scan", NEW c \in DOMAIN states, NEW i \in Slots(nodes)
             PROVE  LET v == Values(nodes, states[c])
                        Low(j) == Num(v[j] \cap 0 .. bit - 1)
                    IN c[i] = (IF nodes[i].op = "add" THEN SumOver(Low, nodes[i].of)
                               ELSE Signed(nodes[i].k) * Low(nodes[i].of[1])) \div 2 ^ bit
  BY DEF CarriesAreQuotients
<1> DEFINE m == Machine  x == states[c]
<1>1. Sound(m) /\ m.nodes = nodes
  BY MachineIsSound DEF Scanned
<1>2. bit \in Nat /\ bit < Width /\ Leads(m, x, bit, c)
  BY DEF ExactInv, CertInv, ScanInv
<1> HIDE DEF m, x
<1>3. Holds(x, m)
  <2>1. 0 .. bit - 1 \subseteq Bits
    BY <1>2, WidthAssumption DEF Bits
  <2> QED BY <1>2, <2>1 DEF Leads, Holds, Words
<1>4. c = At(m, x, bit)
  <2>1. PICK r : IsRun(m, x, r, bit) /\ r[bit] = c
    BY <1>2 DEF Leads
  <2>2. bit \in 0 .. bit /\ bit <= Width
    BY <1>2, WidthAssumption
  <2> QED BY <1>1, <1>2, <1>3, <2>1, <2>2, RunsAreQuotients
<1>5. BitSerial(nodes) /\ c[i] = Quotients(nodes, x, bit)[i]
  BY <1>1, <1>4 DEF Sound, At
<1>6. c[i] = WrittenOut(nodes, Values(nodes, x), bit, i)
  BY <1>5, QuotientForm
<1> QED BY <1>6 DEF x, SumOver, WrittenOut
-----------------------------------------------------------------------------
(* Numbers modulo the power of the width, which is what words can tell apart. *)
Modular(a, b) == Congruent(a, b, 2 ^ Width)

(* Modular numbers are added and multiplied by any number. *)
LEMMA ModularLinear ==
  ASSUME NEW a \in Int, NEW b \in Int, NEW c \in Int, NEW d \in Int, NEW k \in Int,
         Modular(a, b), Modular(c, d)
  PROVE  Modular(a + k * c, b + k * d)
<1>1. 2 ^ Width \in Int
  BY WidthAssumption, PowPositive
<1> QED BY <1>1, CongruentLinear, Zenon DEF Modular

(* So are multiples of modular numbers. *)
LEMMA ModularTimes ==
  ASSUME NEW a \in Int, NEW b \in Int, NEW k \in Int, Modular(a, b)
  PROVE  Modular(k * a, k * b)
<1>1. 2 ^ Width \in Int
  BY WidthAssumption, PowPositive
<1> QED BY <1>1, CongruentTimes, Zenon DEF Modular

(* Being modular is an equivalence. *)
LEMMA ModularSame ==
  ASSUME NEW a \in Int, NEW b \in Int, NEW c \in Int
  PROVE  /\ Modular(a, a)
         /\ Modular(a, b) => Modular(b, a)
         /\ Modular(a, b) /\ Modular(b, c) => Modular(a, c)
<1>1. 2 ^ Width \in Int
  BY WidthAssumption, PowPositive
<1> QED BY <1>1, CongruentSame, Zenon DEF Modular

(* A number is modular to its remainder. *)
LEMMA ModularRest ==
  ASSUME NEW a \in Int
  PROVE  a % 2 ^ Width \in Int /\ Modular(a % 2 ^ Width, a)
<1> DEFINE m == 2 ^ Width  r == a % m
<1>1. m \in Nat \ {0}
  BY WidthAssumption, PowPositive
<1> HIDE DEF m
<1>2. r \in 0 .. m - 1 /\ Congruent(r, a, m)
  BY <1>1, CongruentRest
<1> HIDE DEF r
<1>3. r \in Int
  BY <1>1, <1>2
<1> QED BY <1>2, <1>3 DEF Modular, m, r

(* The low bits of the word of a number are its remainder. *)
LEMMA LowOfWord ==
  ASSUME NEW a \in Int
  PROVE  \A k \in Nat : k <= Width => LowBits(Word(a), k) = a % 2 ^ k
<1> DEFINE w == Word(a)
           T == {k \in Nat : k <= Width => LowBits(w, k) = a % 2 ^ k}
<1>1. w \in Words
  BY DEF Word, Words
<1>2. 0 \in T
  <2>1. LowBits(w, 0) = 0 /\ a % 2 ^ 0 = 0
    BY LowNone
  <2> QED BY <2>1
<1>3. ASSUME NEW k \in T PROVE k + 1 \in T
  <2> SUFFICES ASSUME k + 1 <= Width PROVE LowBits(w, k + 1) = a % 2 ^ (k + 1)
    OBVIOUS
  <2> DEFINE d == 2 ^ k  q == a \div d  r == a % d
  <2>1. k \in Nat /\ k \in Bits /\ LowBits(w, k) = r /\ d \in Nat \ {0} /\ 2 ^ (k + 1) = 2 * d
    BY WidthAssumption, PowPositive, PowNext DEF Bits
  <2>2. BitOf(w, k) = IF q % 2 = 1 THEN 1 ELSE 0
    BY <2>1 DEF Word, BitOf
  <2>3. LowBits(w, k + 1) = LowBits(w, k) + d * BitOf(w, k)
    BY <1>1, <2>1, LowNext
  <2> HIDE DEF d, w
  <2>4. a = d * q + r /\ r \in 0 .. d - 1 /\ q \in Int
    BY <2>1, DivMod
  <2> HIDE DEF q, r
  <2> DEFINE h == q \div 2  z == q % 2
  <2>5. q = 2 * h + z /\ z \in 0 .. 1 /\ h \in Int
    BY <2>4, DivMod
  <2>6. BitOf(w, k) = z
    BY <2>2, <2>5
  <2> HIDE DEF h, z
  <2>7. a = (2 * d) * h + (r + d * z)
    <3>1. d * (2 * h + z) = (2 * d) * h + d * z
      BY <2>1, <2>5
    <3>2. d * q = (2 * d) * h + d * z
      BY <2>5, <3>1
    <3> DEFINE u == (2 * d) * h  v == d * z
    <3>3. u \in Int /\ v \in Int
      BY <2>1, <2>5
    <3> HIDE DEF u, v
    <3> QED BY <2>4, <3>2, <3>3 DEF u, v
  <2>8. r + d * z \in 0 .. 2 * d - 1 /\ 2 * d \in Nat \ {0}
    <3>1. CASE z = 0
      BY <2>1, <2>4, <3>1
    <3>2. CASE z = 1
      BY <2>1, <2>4, <3>2
    <3> QED BY <2>5, <3>1, <3>2
  <2> DEFINE e == 2 * d  y == r + d * z
  <2>9. e \in Nat \ {0} /\ y \in 0 .. e - 1 /\ a = e * h + y
    BY <2>7, <2>8
  <2> HIDE DEF e, y
  <2>10. a % e = y
    BY <2>5, <2>9, DivUnique
  <2> QED BY <2>1, <2>3, <2>6, <2>10 DEF e, y
<1> HIDE DEF T
<1>4. T \in SUBSET Nat
  BY DEF T
<1>5. \A k \in Nat : k \in T
  BY <1>2, <1>3, <1>4, NatCases
<1> QED BY <1>5 DEF T

(* All bits are below the width. *)
LEMMA LowAll == \A w \in Words : LowBits(w, Width) = Num(w)
<1> TAKE w \in Words
<1>1. w \cap 0 .. Width - 1 = w
  BY DEF Words, Bits
<1> QED BY <1>1 DEF LowBits

(* The word of a number is modular to it. *)
LEMMA WordModular ==
  ASSUME NEW a \in Int
  PROVE  Word(a) \in Words /\ Num(Word(a)) \in Int /\ Modular(Num(Word(a)), a)
<1>1. Word(a) \in Words
  BY DEF Word, Words
<1>2. Num(Word(a)) = a % 2 ^ Width
  BY <1>1, LowOfWord, LowAll, WidthAssumption
<1> QED BY <1>1, <1>2, ModularRest

(* Words whose numbers are modular are the same. *)
LEMMA ModularWords ==
  ASSUME NEW v \in Words, NEW w \in Words, Modular(Num(v), Num(w))
  PROVE  v = w
<1> DEFINE T == {k \in Nat : k \in v <=> k \in w}
<1>1. ASSUME NEW k \in Nat, \A i \in 0 .. k - 1 : i \in T PROVE k \in T
  <2>1. CASE k \in Bits
    <3> DEFINE d == 2 ^ k  lv == LowBits(v, k)  lw == LowBits(w, k)  zv == BitOf(v, k)  zw == BitOf(w, k)
    <3>1. lv = lw
      <4>1. v \cap 0 .. k - 1 = w \cap 0 .. k - 1
        BY <1>1
      <4> QED BY <4>1 DEF LowBits
    <3>2. /\ d \in Nat \ {0} /\ 2 ^ (k + 1) = 2 * d /\ k + 1 \in Nat /\ lv \in Int /\ zv \in {0, 1} /\ zw \in {0, 1}
          /\ LowBits(v, k + 1) = lv + d * zv /\ LowBits(w, k + 1) = lw + d * zw
      BY LowInt, LowNext, PowPositive, PowNext DEF BitOf
    <3>3. PICK p \in Int : Num(v) = LowBits(v, k + 1) + 2 ^ (k + 1) * p
      BY <3>2, HighMultiple
    <3>4. PICK q \in Int : Num(w) = LowBits(w, k + 1) + 2 ^ (k + 1) * q
      BY <3>2, HighMultiple
    <3>5. PICK r \in Int : Num(v) = Num(w) + 2 ^ Width * r
      BY DEF Modular, Congruent
    <3>6. PICK s \in Nat : 2 ^ Width = 2 ^ (k + 1) * s
      <4>1. k + 1 <= Width /\ Width \in Nat
        BY <2>1, WidthAssumption DEF Bits
      <4> QED BY <3>2, <4>1, PowMultiple
    <3> DEFINE e == q + s * r - p
    <3>7. zv = zw
      <4> HIDE DEF d, lv, lw, zv, zw, e
      <4>1. (lv + d * zv) + (2 * d) * p = ((lw + d * zw) + (2 * d) * q) + ((2 * d) * s) * r
        BY <3>2, <3>3, <3>4, <3>5, <3>6
      <4>2. ((2 * d) * s) * r = (2 * d) * (s * r)
        BY <3>2
      <4> DEFINE t == s * r
      <4>3. t \in Int
        OBVIOUS
      <4>4. e = q + t - p
        BY DEF e
      <4>5. (lv + d * zv) + (2 * d) * p = ((lw + d * zw) + (2 * d) * q) + (2 * d) * t
        BY <4>1, <4>2
      <4> HIDE DEF t
      <4>6. d * zv = d * zw + d * (2 * e)
        BY <3>1, <3>2, <4>3, <4>4, <4>5
      <4>7. e \in Int
        BY <4>3, <4>4
      <4>8. d * (zv - zw - 2 * e) = 0
        BY <3>2, <4>6, <4>7
      <4>9. zv - zw - 2 * e = 0
        <5> DEFINE y == zv - zw - 2 * e
        <5>1. y \in Int
          BY <3>2, <4>7
        <5>2. d * y = 0
          BY <4>8
        <5> HIDE DEF y
        <5> QED BY <3>2, <5>1, <5>2 DEF y
      <4> QED BY <3>2, <4>7, <4>9
    <3> QED BY <3>7 DEF BitOf
  <2>2. CASE k \notin Bits
    BY <2>2 DEF Words
  <2> QED BY <2>1, <2>2
<1>2. \A k \in Nat : k \in T
  <2> HIDE DEF T
  <2>1. T \in SUBSET Nat
    BY DEF T
  <2> QED BY <1>1, <2>1, StrongCases
<1>3. v \subseteq Nat /\ w \subseteq Nat
  BY WordFinite
<1> QED BY <1>2, <1>3

(* Words that agree but for one bit differ by its power of two. *)
LEMMA OneBit ==
  ASSUME NEW v \in Words, NEW w \in Words, NEW k \in Bits, v \ {k} = w \ {k}
  PROVE  Num(v) = Num(w) + 2 ^ k * (BitOf(v, k) - BitOf(w, k))
<1> DEFINE r == v \ {k}
<1>1. ASSUME NEW u \in Words, u \ {k} = r PROVE Num(u) = Num(r) + 2 ^ k * BitOf(u, k)
  <2> DEFINE f == [b \in u |-> 2 ^ b]  g == [b \in r |-> 2 ^ b]
  <2>1. IntFunction(f, u) /\ Num(u) = SumFunction(f)
    <3>1. IntFunction([b \in u |-> 2 ^ b], u)
      BY WordFinite, NumInt
    <3> QED BY <3>1, Zenon DEF Num
  <2>2. Num(r) = SumFunction(g)
    BY Zenon DEF Num
  <2>3. 2 ^ k \in Int /\ Num(r) \in Int
    <3>1. r \in Words
      BY DEF Words
    <3>2. k \in Nat /\ 0 \in Nat
      BY DEF Bits
    <3> QED BY <3>1, <3>2, LowInt, PowPositive
  <2>4. CASE k \in u
    <3>1. Restrict(f, u \ {k}) = g /\ f[k] = 2 ^ k
      BY <1>1, <2>4 DEF Restrict
    <3> HIDE DEF f, g, r
    <3>2. SumFunction(f) = f[k] + SumFunction(Restrict(f, u \ {k}))
      BY <2>1, <2>4, SumTake
    <3>3. BitOf(u, k) = 1
      BY <2>4 DEF BitOf
    <3>4. Num(u) = 2 ^ k + Num(r)
      BY <2>1, <2>2, <3>1, <3>2
    <3> QED BY <2>3, <3>3, <3>4
  <2>5. CASE k \notin u
    <3>1. r = u /\ BitOf(u, k) = 0
      BY <1>1, <2>5 DEF BitOf
    <3> HIDE DEF r
    <3> QED BY <2>3, <3>1
  <2> QED BY <2>4, <2>5
<1>2. Num(v) = Num(r) + 2 ^ k * BitOf(v, k) /\ Num(w) = Num(r) + 2 ^ k * BitOf(w, k)
  <2> HIDE DEF r
  <2> QED BY <1>1 DEF r
<1>3. Num(r) \in Int /\ 2 ^ k \in Int /\ BitOf(v, k) \in Int /\ BitOf(w, k) \in Int
  <2>1. r \in Words
    BY DEF Words
  <2>2. k \in Nat /\ 0 \in Nat
    BY DEF Bits
  <2> QED BY <2>1, <2>2, LowInt, PowPositive DEF BitOf
<1> HIDE DEF r
<1> QED BY <1>2, <1>3

(* Sums of modular terms are modular. *)
LEMMA ModularSum ==
  ASSUME NEW D, NEW f, NEW g, IntFunction(f, D), IntFunction(g, D),
         \A x \in D : Modular(f[x], g[x])
  PROVE  Modular(SumFunction(f), SumFunction(g))
<1> DEFINE m == 2 ^ Width
           q == [x \in D |-> CHOOSE n \in Int : f[x] = g[x] + m * n]
<1>1. m \in Int
  BY WidthAssumption, PowPositive
<1>2. \A x \in D : q[x] \in Int /\ f[x] = g[x] + m * q[x]
  BY DEF Modular, Congruent
<1>3. q = [x \in D |-> q[x]]
  OBVIOUS
<1> HIDE DEF q
<1>4. IntFunction(q, D)
  BY <1>2, <1>3 DEF IntFunction
<1> HIDE DEF m
<1>5. SumFunction(f) = SumFunction(g) + m * SumFunction(q)
  BY <1>1, <1>2, <1>4, SumLinear
<1>6. SumFunction(q) \in Int
  BY <1>4, SumType
<1> QED BY <1>5, <1>6 DEF Modular, Congruent, m
-----------------------------------------------------------------------------
(* Inputs: a corner of the cube, the lowest bits of x, and the variables with  *)
(* a bit.                                                                    *)
Points(V) == [V -> Words]
Corner(V, S) == [v \in V |-> IF v \in S THEN {0} ELSE {}]
Lowest(V, x, k) == [v \in V |-> x[v] \cap 0 .. k - 1]
Column(V, x, b) == {v \in V : b \in x[v]}

(* Bitwise: each bit of the word is made of that bit of the variables, and in  *)
(* the same way.  Stepwise: what a bit of the variables adds to the word is   *)
(* what it adds at bit zero, shifted; sums and multiples keep this.          *)
Bitwise(f, V) ==
  /\ f \in [Points(V) -> Words]
  /\ \A x \in Points(V), b \in Bits : b \in f[x] <=> 0 \in f[Corner(V, Column(V, x, b))]
Added(f, V, x, b) == Num(f[Lowest(V, x, b + 1)]) - Num(f[Lowest(V, x, b)])
AtZero(f, V, x, b) == Num(f[Corner(V, Column(V, x, b))]) - Num(f[Corner(V, {})])
Stepwise(f, V) ==
  /\ f \in [Points(V) -> Words]
  /\ \A x \in Points(V), b \in Bits : Modular(Added(f, V, x, b), 2 ^ b * AtZero(f, V, x, b))

(* These are inputs, and have the bits one expects. *)
LEMMA PointBits ==
  ASSUME NEW V, NEW x \in Points(V), NEW k \in Nat, NEW S \in SUBSET V
  PROVE  /\ Corner(V, S) \in Points(V) /\ Lowest(V, x, k) \in Points(V)
         /\ \A c \in Bits : Column(V, Corner(V, S), c) = IF c = 0 THEN S ELSE {}
         /\ \A c \in Bits : Column(V, Lowest(V, x, k), c) = IF c < k THEN Column(V, x, c) ELSE {}
         /\ Lowest(V, x, 0) = Corner(V, {}) /\ Lowest(V, x, Width) = x
<1>0. 0 \in Bits /\ Bits \subseteq Nat /\ \A c \in Nat : c < k => c \in 0 .. k - 1
  BY WidthAssumption DEF Bits
<1>1. Corner(V, S) \in Points(V)
  BY <1>0 DEF Corner, Points, Words
<1>2. Lowest(V, x, k) \in Points(V)
  BY DEF Lowest, Points, Words
<1>3. \A c \in Bits : Column(V, Corner(V, S), c) = IF c = 0 THEN S ELSE {}
  BY DEF Column, Corner
<1>4. \A c \in Bits : Column(V, Lowest(V, x, k), c) = IF c < k THEN Column(V, x, c) ELSE {}
  <2> TAKE c \in Bits
  <2>1. c \in 0 .. k - 1 <=> c < k
    BY <1>0
  <2> QED BY <2>1 DEF Column, Lowest
<1>5. Lowest(V, x, 0) = Corner(V, {})
  <2>1. 0 .. 0 - 1 = {}
    OBVIOUS
  <2> QED BY <2>1 DEF Lowest, Corner
<1>6. Lowest(V, x, Width) = x
  <2>1. x = [v \in V |-> x[v]] /\ \A v \in V : x[v] \cap 0 .. Width - 1 = x[v]
    BY DEF Points, Words, Bits
  <2> QED BY <2>1 DEF Lowest
<1> QED BY <1>1, <1>2, <1>3, <1>4, <1>5, <1>6

(* At the points a step relates, a function of points has words, as numbers.  *)
LEMMA PointWords ==
  ASSUME NEW V, NEW f \in [Points(V) -> Words], NEW x \in Points(V), NEW b \in Bits
  PROVE  /\ b \in Nat /\ b + 1 \in Nat /\ 2 ^ b \in Int
         /\ Lowest(V, x, b) \in Points(V) /\ Lowest(V, x, b + 1) \in Points(V)
         /\ Corner(V, Column(V, x, b)) \in Points(V) /\ Corner(V, {}) \in Points(V)
         /\ \A y \in Points(V) : f[y] \in Words /\ Num(f[y]) \in Int
         /\ Added(f, V, x, b) \in Int /\ AtZero(f, V, x, b) \in Int
<1>1. b \in Nat /\ b + 1 \in Nat /\ 2 ^ b \in Int /\ 0 \in Nat
  BY PowPositive DEF Bits
<1>2. Column(V, x, b) \in SUBSET V /\ {} \in SUBSET V
  BY DEF Column
<1>3. /\ Lowest(V, x, b) \in Points(V) /\ Lowest(V, x, b + 1) \in Points(V)
      /\ Corner(V, Column(V, x, b)) \in Points(V) /\ Corner(V, {}) \in Points(V)
  BY <1>1, <1>2, PointBits
<1>4. \A y \in Points(V) : f[y] \in Words /\ Num(f[y]) \in Int
  BY <1>1, LowInt
<1>5. Added(f, V, x, b) \in Int /\ AtZero(f, V, x, b) \in Int
  BY <1>3, <1>4 DEF Added, AtZero
<1> QED BY <1>1, <1>3, <1>4, <1>5

(* A bitwise function is stepwise: a bit more of the variables changes no      *)
(* other bit of the word.                                                    *)
LEMMA BitwiseSteps ==
  ASSUME NEW V, NEW f, Bitwise(f, V)
  PROVE  Stepwise(f, V)
<1>1. f \in [Points(V) -> Words] /\ 0 \in Bits
  BY WidthAssumption DEF Bitwise, Bits
<1>2. ASSUME NEW x \in Points(V), NEW b \in Bits
      PROVE  Modular(Added(f, V, x, b), 2 ^ b * AtZero(f, V, x, b))
  <2> DEFINE S == Column(V, x, b)
             u == Lowest(V, x, b + 1)  v == Lowest(V, x, b)  c == Corner(V, S)  z == Corner(V, {})
  <2>1. /\ u \in Points(V) /\ v \in Points(V) /\ c \in Points(V) /\ z \in Points(V)
        /\ b \in Nat /\ b + 1 \in Nat /\ 2 ^ b \in Int /\ S \in SUBSET V /\ {} \in SUBSET V
    BY <1>1, PointWords DEF Column
  <2>2. \A d \in Bits : /\ Column(V, u, d) = IF d < b + 1 THEN Column(V, x, d) ELSE {}
                        /\ Column(V, v, d) = IF d < b THEN Column(V, x, d) ELSE {}
                        /\ Column(V, c, d) = IF d = 0 THEN S ELSE {}
                        /\ Column(V, z, d) = {}
    <3>1. \A d \in Bits : Column(V, z, d) = {}
      <4>1. \A d \in Bits : Column(V, z, d) = IF d = 0 THEN {} ELSE {}
        BY <2>1, PointBits
      <4> QED BY <4>1
    <3>2. \A d \in Bits : Column(V, c, d) = IF d = 0 THEN S ELSE {}
      BY <2>1, PointBits
    <3>3. \A d \in Bits : Column(V, u, d) = IF d < b + 1 THEN Column(V, x, d) ELSE {}
      BY <2>1, PointBits
    <3>4. \A d \in Bits : Column(V, v, d) = IF d < b THEN Column(V, x, d) ELSE {}
      BY <2>1, PointBits
    <3> HIDE DEF u, v, c, z, S
    <3> QED BY <3>1, <3>2, <3>3, <3>4
  <2>3. \A d \in Bits : /\ d \in f[u] <=> 0 \in f[Corner(V, Column(V, u, d))]
                        /\ d \in f[v] <=> 0 \in f[Corner(V, Column(V, v, d))]
                        /\ d \in f[c] <=> 0 \in f[Corner(V, Column(V, c, d))]
                        /\ d \in f[z] <=> 0 \in f[Corner(V, Column(V, z, d))]
    BY <2>1 DEF Bitwise
  <2>4. f[u] \in Words /\ f[v] \in Words /\ f[c] \in Words /\ f[z] \in Words
    BY <1>1, <2>1
  <2> HIDE DEF u, v
  <2>5. f[u] \ {b} = f[v] \ {b}
    <3>1. \A d \in Bits : d # b => (d \in f[u] <=> d \in f[v])
      <4> TAKE d \in Bits
      <4>1. d # b => (d < b + 1 <=> d < b)
        BY DEF Bits
      <4> QED BY <2>2, <2>3, <4>1
    <3> QED BY <2>4, <3>1 DEF Words
  <2>6. f[c] \ {0} = f[z] \ {0}
    <3>1. \A d \in Bits : d # 0 => (d \in f[c] <=> d \in f[z])
      BY <2>2, <2>3
    <3> QED BY <2>4, <3>1 DEF Words
  <2>7. BitOf(f[u], b) = BitOf(f[c], 0) /\ BitOf(f[v], b) = BitOf(f[z], 0)
    <3>1. b < b + 1 /\ ~(b < b)
      BY <2>1
    <3>2. Column(V, u, b) = S /\ Column(V, v, b) = {}
      BY <2>2, <3>1
    <3> QED BY <2>3, <3>2 DEF BitOf
  <2> DEFINE p == BitOf(f[c], 0)  q == BitOf(f[z], 0)
  <2>8. /\ Num(f[u]) = Num(f[v]) + 2 ^ b * (p - q) /\ Num(f[c]) = Num(f[z]) + 2 ^ 0 * (p - q)
        /\ p \in Int /\ q \in Int
    <3> HIDE DEF c, z, S
    <3>1. Num(f[u]) = Num(f[v]) + 2 ^ b * (BitOf(f[u], b) - BitOf(f[v], b))
      BY <2>4, <2>5, OneBit
    <3>2. Num(f[c]) = Num(f[z]) + 2 ^ 0 * (p - q)
      BY <1>1, <2>4, <2>6, OneBit
    <3>3. p \in Int /\ q \in Int
      BY DEF BitOf
    <3> HIDE DEF p, q
    <3>4. BitOf(f[u], b) = p /\ BitOf(f[v], b) = q
      BY <2>7 DEF p, q
    <3> QED BY <3>1, <3>2, <3>3, <3>4
  <2>9. Num(f[v]) \in Int /\ Num(f[z]) \in Int /\ 2 ^ 0 = 1
    BY <2>4, LowInt
  <2> HIDE DEF c, z, p, q
  <2>10. Num(f[u]) - Num(f[v]) = 2 ^ b * (Num(f[c]) - Num(f[z]))
    <3> DEFINE n == p - q  a == Num(f[v])  e == Num(f[z])  d == 2 ^ b
    <3>1. n \in Int /\ a \in Int /\ e \in Int /\ d \in Int
      BY <2>1, <2>8, <2>9
    <3>2. Num(f[u]) = a + d * n /\ Num(f[c]) = e + 1 * n
      BY <2>8, <2>9
    <3> HIDE DEF n, a, e, d
    <3>3. (a + d * n) - a = d * ((e + 1 * n) - e)
      BY <3>1
    <3> QED BY <3>2, <3>3 DEF a, e, d
  <2>11. Added(f, V, x, b) = 2 ^ b * AtZero(f, V, x, b)
    BY <2>10 DEF Added, AtZero, u, v, c, z
  <2>12. Added(f, V, x, b) \in Int
    BY <1>1, PointWords
  <2> QED BY <2>11, <2>12, ModularSame
<1> QED BY <1>1, <1>2 DEF Stepwise

(* A constant is stepwise. *)
LEMMA ConstantSteps ==
  ASSUME NEW V, NEW f \in [Points(V) -> Words], NEW w, \A x \in Points(V) : f[x] = w
  PROVE  Stepwise(f, V)
<1> SUFFICES ASSUME NEW x \in Points(V), NEW b \in Bits
             PROVE  Modular(Added(f, V, x, b), 2 ^ b * AtZero(f, V, x, b))
  BY DEF Stepwise
<1>1. Added(f, V, x, b) = 0 /\ AtZero(f, V, x, b) = 0 /\ 2 ^ b \in Int
  <2>1. \A y, z \in Points(V) : Num(f[y]) - Num(f[z]) = 0
    BY PointWords
  <2> QED BY <2>1, PointWords DEF Added, AtZero
<1>2. 2 ^ b * 0 = 0
  BY <1>1
<1> QED BY <1>1, <1>2, ModularSame

(* A function whose numbers are modular to a multiple of those of a stepwise   *)
(* one is stepwise.                                                          *)
LEMMA MultipleSteps ==
  ASSUME NEW V, NEW f, Stepwise(f, V), NEW k \in Int, NEW g \in [Points(V) -> Words],
         \A x \in Points(V) : Modular(Num(g[x]), k * Num(f[x]))
  PROVE  Stepwise(g, V)
<1> SUFFICES ASSUME NEW x \in Points(V), NEW b \in Bits
             PROVE  Modular(Added(g, V, x, b), 2 ^ b * AtZero(g, V, x, b))
  BY DEF Stepwise
<1>1. f \in [Points(V) -> Words] /\ Modular(Added(f, V, x, b), 2 ^ b * AtZero(f, V, x, b))
  BY DEF Stepwise
<1> DEFINE A == Added(f, V, x, b)  Z == AtZero(f, V, x, b)  d == 2 ^ b
           B == Added(g, V, x, b)  Y == AtZero(g, V, x, b)
<1>2. A \in Int /\ Z \in Int /\ B \in Int /\ Y \in Int /\ d \in Int
  BY <1>1, PointWords
<1>3. ASSUME NEW y \in Points(V), NEW z \in Points(V)
      PROVE  Modular(Num(g[y]) - Num(g[z]), k * (Num(f[y]) - Num(f[z])))
  <2> DEFINE a == Num(g[y])  c == Num(g[z])  p == Num(f[y])  q == Num(f[z])
  <2>1. a \in Int /\ c \in Int /\ p \in Int /\ q \in Int
    BY <1>1, PointWords
  <2>2. Modular(a, k * p) /\ Modular(c, k * q)
    OBVIOUS
  <2> HIDE DEF a, c, p, q
  <2>3. Modular(a + (-1) * c, k * p + (-1) * (k * q))
    BY <2>1, <2>2, ModularLinear
  <2>4. a + (-1) * c = a - c /\ k * p + (-1) * (k * q) = k * (p - q)
    BY <2>1
  <2>5. Modular(a - c, k * (p - q))
    BY <2>3, <2>4
  <2> QED BY <2>5 DEF a, c, p, q
<1>4. Modular(B, k * A) /\ Modular(Y, k * Z)
  BY <1>1, <1>3, PointWords DEF Added, AtZero
<1>0. Modular(A, d * Z)
  BY <1>1
<1> HIDE DEF A, Z, B, Y, d
<1> DEFINE dZ == d * Z  kZ == k * Z
<1>5. dZ \in Int /\ kZ \in Int /\ Modular(A, dZ) /\ Modular(Y, kZ) /\ Modular(B, k * A)
  BY <1>0, <1>2, <1>4
<1> DEFINE p == k * A  q == d * Y  r == k * dZ
<1>6. r = d * kZ
  BY <1>2
<1> HIDE DEF dZ, kZ
<1>7. Modular(p, r) /\ Modular(q, r)
  BY <1>2, <1>5, <1>6, ModularTimes
<1>8. p \in Int /\ q \in Int /\ r \in Int /\ Modular(B, p)
  BY <1>2, <1>5
<1> HIDE DEF p, q, r
<1>9. Modular(B, q)
  BY <1>2, <1>7, <1>8, ModularSame
<1> QED BY <1>9 DEF B, q, d, Y

(* Modular numbers are subtracted. *)
LEMMA ModularMinus ==
  ASSUME NEW a \in Int, NEW b \in Int, NEW c \in Int, NEW d \in Int, Modular(a, b), Modular(c, d)
  PROVE  Modular(a - c, b - d)
<1> DEFINE k == -1
<1>1. k \in Int
  OBVIOUS
<1>2. a + k * c = a - c /\ b + k * d = b - d
  OBVIOUS
<1> HIDE DEF k
<1>3. Modular(a + k * c, b + k * d)
  BY <1>1, ModularLinear
<1> QED BY <1>2, <1>3

(* The words of the functions fs at x, as numbers. *)
NumsAt(fs, x) == [j \in DOMAIN fs |-> Num(fs[j][x])]
AllStepwise(fs, V) == IsFiniteSet(DOMAIN fs) /\ \A j \in DOMAIN fs : Stepwise(fs[j], V)

(* A function whose numbers are modular to the sums of those of stepwise ones  *)
(* is stepwise.                                                              *)
LEMMA SumSteps ==
  ASSUME NEW V, NEW fs, AllStepwise(fs, V), NEW g \in [Points(V) -> Words],
         \A x \in Points(V) : Modular(Num(g[x]), SumFunction(NumsAt(fs, x)))
  PROVE  Stepwise(g, V)
<1> SUFFICES ASSUME NEW x \in Points(V), NEW b \in Bits
             PROVE  Modular(Added(g, V, x, b), 2 ^ b * AtZero(g, V, x, b))
  BY DEF Stepwise
<1> DEFINE J == DOMAIN fs  d == 2 ^ b  S(y) == SumFunction(NumsAt(fs, y))
           A == [j \in J |-> Added(fs[j], V, x, b)]  Z == [j \in J |-> AtZero(fs[j], V, x, b)]
           D == [j \in J |-> d * Z[j]]
           u == Lowest(V, x, b + 1)  v == Lowest(V, x, b)
           c == Corner(V, Column(V, x, b))  z == Corner(V, {})
<1>1. \A j \in J : fs[j] \in [Points(V) -> Words]
  BY DEF AllStepwise, Stepwise
<1>2. /\ u \in Points(V) /\ v \in Points(V) /\ c \in Points(V) /\ z \in Points(V) /\ d \in Int
      /\ \A y \in Points(V) : Num(g[y]) \in Int
      /\ Added(g, V, x, b) \in Int /\ AtZero(g, V, x, b) \in Int
  BY PointWords
<1>3. \A j \in J : /\ Added(fs[j], V, x, b) \in Int /\ AtZero(fs[j], V, x, b) \in Int
                   /\ \A y \in Points(V) : Num(fs[j][y]) \in Int
  BY <1>1, PointWords
<1>4. IsFiniteSet(J)
  BY DEF AllStepwise
<1>5. \A y \in Points(V) : IntFunction(NumsAt(fs, y), J) /\ S(y) \in Int
  <2> TAKE y \in Points(V)
  <2>1. IntFunction(NumsAt(fs, y), J)
    BY <1>3, <1>4 DEF IntFunction, NumsAt
  <2> QED BY <2>1, SumType
<1>6. IntFunction(A, J) /\ IntFunction(Z, J) /\ IntFunction(D, J)
  <2>1. A \in [J -> Int] /\ Z \in [J -> Int]
    BY <1>3
  <2>2. D \in [J -> Int]
    <3> HIDE DEF Z, d
    <3> QED BY <1>2, <2>1
  <2> QED BY <1>4, <2>1, <2>2 DEF IntFunction
<1>7. SumFunction(A) = S(u) + (-1) * S(v)
  <2>1. \A j \in J : A[j] = NumsAt(fs, u)[j] + (-1) * NumsAt(fs, v)[j]
    <3> TAKE j \in J
    <3>1. A[j] = Num(fs[j][u]) - Num(fs[j][v])
      BY DEF Added
    <3>2. NumsAt(fs, u)[j] = Num(fs[j][u]) /\ NumsAt(fs, v)[j] = Num(fs[j][v])
      BY DEF NumsAt
    <3>3. Num(fs[j][u]) \in Int /\ Num(fs[j][v]) \in Int
      BY <1>2, <1>3
    <3> HIDE DEF A, u, v
    <3> QED BY <3>1, <3>2, <3>3
  <2> HIDE DEF A, u, v, J
  <2> QED BY <1>2, <1>5, <1>6, <2>1, SumLinear
<1>8. SumFunction(Z) = S(c) + (-1) * S(z)
  <2>1. \A j \in J : Z[j] = NumsAt(fs, c)[j] + (-1) * NumsAt(fs, z)[j]
    <3> TAKE j \in J
    <3>1. Z[j] = Num(fs[j][c]) - Num(fs[j][z])
      BY DEF AtZero
    <3>2. NumsAt(fs, c)[j] = Num(fs[j][c]) /\ NumsAt(fs, z)[j] = Num(fs[j][z])
      BY DEF NumsAt
    <3>3. Num(fs[j][c]) \in Int /\ Num(fs[j][z]) \in Int
      BY <1>2, <1>3
    <3> HIDE DEF Z, c, z
    <3> QED BY <3>1, <3>2, <3>3
  <2> HIDE DEF Z, c, z, J
  <2> QED BY <1>2, <1>5, <1>6, <2>1, SumLinear
<1>9. SumFunction(D) = d * SumFunction(Z)
  <2>1. \A j \in J : D[j] = d * Z[j]
    OBVIOUS
  <2> HIDE DEF D, Z, J
  <2> QED BY <1>2, <1>6, <2>1, SumTimes
<1>10. Modular(SumFunction(A), SumFunction(D))
  <2>1. \A j \in J : Modular(A[j], D[j])
    BY DEF AllStepwise, Stepwise
  <2> HIDE DEF A, D, J
  <2> QED BY <1>6, <2>1, ModularSum
<1>11. \A y, w \in Points(V) : Modular(Num(g[y]) - Num(g[w]), S(y) - S(w))
  <2> TAKE y, w \in Points(V)
  <2> DEFINE p == Num(g[y])  q == Num(g[w])  r == S(y)  s == S(w)
  <2>1. p \in Int /\ q \in Int /\ r \in Int /\ s \in Int /\ Modular(p, r) /\ Modular(q, s)
    BY <1>2, <1>5
  <2> HIDE DEF p, q, r, s
  <2>3. Modular(p - q, r - s)
    BY <2>1, ModularMinus
  <2> QED BY <2>3 DEF p, q, r, s
<1> DEFINE P == S(u) - S(v)  Q == S(c) - S(z)  B == Added(g, V, x, b)  Y == AtZero(g, V, x, b)
<1>12. Modular(B, P) /\ Modular(Y, Q)
  <2>1. B = Num(g[u]) - Num(g[v]) /\ Y = Num(g[c]) - Num(g[z])
    BY DEF Added, AtZero
  <2> HIDE DEF u, v, c, z, B, Y, S
  <2> QED BY <1>2, <1>11, <2>1
<1>13. P \in Int /\ Q \in Int /\ SumFunction(A) = P /\ SumFunction(Z) = Q
  <2> HIDE DEF A, Z, S, u, v, c, z
  <2>1. S(u) \in Int /\ S(v) \in Int /\ S(c) \in Int /\ S(z) \in Int
    BY <1>2, <1>5
  <2> QED BY <1>7, <1>8, <2>1
<1>14. B \in Int /\ Y \in Int /\ d \in Int
  BY <1>2
<1> HIDE DEF P, Q, A, Z, D, B, Y, d
<1> DEFINE dQ == d * Q  dY == d * Y
<1>15. dQ \in Int /\ dY \in Int /\ Modular(P, dQ)
  BY <1>9, <1>10, <1>13, <1>14
<1>16. Modular(dY, dQ)
  BY <1>12, <1>13, <1>14, ModularTimes
<1> HIDE DEF dQ, dY
<1>17. Modular(B, dY)
  BY <1>12, <1>13, <1>14, <1>15, <1>16, ModularSame
<1> QED BY <1>17 DEF B, Y, d, dY

(* The same words at the corners of the cube. *)
AgreeAtCorners(f, g, V) == \A S \in SUBSET V : f[Corner(V, S)] = g[Corner(V, S)]

(* Two stepwise functions are decided by the corners: bit by bit they add the same. *)
LEMMA CornersDetermine ==
  ASSUME NEW V, NEW f, NEW g, Stepwise(f, V), Stepwise(g, V), AgreeAtCorners(f, g, V)
  PROVE  \A x \in Points(V) : f[x] = g[x]
<1> SUFFICES ASSUME NEW x \in Points(V) PROVE f[x] = g[x]
  OBVIOUS
<1> DEFINE T == {k \in Nat : k <= Width => f[Lowest(V, x, k)] = g[Lowest(V, x, k)]}
<1>0. f \in [Points(V) -> Words] /\ g \in [Points(V) -> Words] /\ {} \in SUBSET V
  BY DEF Stepwise
<1>1. 0 \in T
  <2>1. Lowest(V, x, 0) = Corner(V, {})
    BY <1>0, PointBits
  <2> QED BY <1>0, <2>1 DEF AgreeAtCorners
<1>2. ASSUME NEW k \in T PROVE k + 1 \in T
  <2> SUFFICES ASSUME k + 1 <= Width PROVE f[Lowest(V, x, k + 1)] = g[Lowest(V, x, k + 1)]
    OBVIOUS
  <2>1. k \in Nat /\ k \in Bits /\ f[Lowest(V, x, k)] = g[Lowest(V, x, k)]
    BY WidthAssumption DEF Bits
  <2> DEFINE u == Lowest(V, x, k + 1)  v == Lowest(V, x, k)  d == 2 ^ k
             p == Num(f[u])  q == Num(g[u])  r == Num(f[v])  Z == AtZero(f, V, x, k)
  <2>2. /\ u \in Points(V) /\ v \in Points(V) /\ d \in Int /\ p \in Int /\ r \in Int /\ Z \in Int
        /\ f[u] \in Words /\ Corner(V, Column(V, x, k)) \in Points(V)
    BY <1>0, <2>1, PointWords
  <2>3. q \in Int /\ g[u] \in Words
    BY <1>0, <2>1, PointWords
  <2>4. AtZero(g, V, x, k) = Z
    <3>1. Column(V, x, k) \in SUBSET V
      BY DEF Column
    <3> QED BY <1>0, <3>1 DEF AgreeAtCorners, AtZero
  <2>5. Added(f, V, x, k) = p - r /\ Added(g, V, x, k) = q - r
    BY <2>1 DEF Added
  <2> HIDE DEF u, v, p, q, r, Z
  <2> DEFINE dZ == d * Z  s == p - r  t == q - r
  <2>6. Modular(s, dZ) /\ Modular(t, dZ)
    BY <2>1, <2>4, <2>5 DEF Stepwise, Z
  <2>7. dZ \in Int /\ s \in Int /\ t \in Int
    BY <2>2, <2>3
  <2> HIDE DEF dZ, s, t
  <2>8. Modular(s, t)
    BY <2>6, <2>7, ModularSame
  <2>9. Modular(s + 1 * r, t + 1 * r)
    <3>1. Modular(r, r) /\ 1 \in Int
      BY <2>2, ModularSame
    <3> QED BY <2>2, <2>7, <2>8, <3>1, ModularLinear
  <2>10. s + 1 * r = p /\ t + 1 * r = q
    BY <2>2, <2>3 DEF s, t
  <2>11. Modular(p, q)
    BY <2>9, <2>10
  <2> QED BY <2>2, <2>3, <2>11, ModularWords DEF p, q, u
<1> HIDE DEF T
<1>3. T \in SUBSET Nat
  BY DEF T
<1>4. Width \in T
  BY <1>1, <1>2, <1>3, NatCases, WidthAssumption
<1>5. Lowest(V, x, Width) = x
  BY <1>0, PointBits, WidthAssumption
<1> QED BY <1>4, <1>5, WidthAssumption DEF T

Children(ns, i) == {ns[i].of[j] : j \in DOMAIN ns[i].of}

(* Nodes can be marked by a condition of their own, or by one of their own and *)
(* the marks of all their children.                                          *)
Marks(f, ns, own, given) ==
  /\ f \in [DOMAIN ns -> BOOLEAN]
  /\ \A i \in DOMAIN ns : f[i] <=> (own[i] \/ (given[i] /\ \A c \in Children(ns, i) : f[c]))

(* Such marks exist. *)
LEMMA MarksExist ==
  ASSUME NEW ns, Formed(ns),
         NEW own \in [DOMAIN ns -> BOOLEAN], NEW given \in [DOMAIN ns -> BOOLEAN]
  PROVE  \E f : Marks(f, ns, own, given)
<1> DEFINE D == DOMAIN ns
           place == [i \in D |-> i]
           low == [i \in D |-> Children(ns, i)]
           step == [i \in D |-> [w \in [low[i] -> BOOLEAN] |->
                      own[i] \/ (given[i] /\ \A c \in Children(ns, i) : w[c])]]
<1>1. \A i \in D : \A c \in low[i] : c \in D /\ place[c] < place[i]
  BY NodeForm DEF Children
<1>2. \A i \in D : step[i] \in [[low[i] -> BOOLEAN] -> BOOLEAN]
  <2> TAKE i \in D
  <2>1. \A w : (own[i] \/ (given[i] /\ \A c \in Children(ns, i) : w[c])) \in BOOLEAN
    OBVIOUS
  <2>2. step[i] = [w \in [low[i] -> BOOLEAN] |-> own[i] \/ (given[i] /\ \A c \in Children(ns, i) : w[c])]
    OBVIOUS
  <2> HIDE DEF step, low
  <2> QED BY <2>1, <2>2, Zenon
<1>3. Len(ns) \in Nat /\ place \in [D -> 0 .. Len(ns)]
  BY DEF Formed
<1>4. PICK f \in [D -> BOOLEAN] : \A i \in D : f[i] = step[i][Restrict(f, low[i])]
  <2> HIDE DEF D, place, low, step
  <2>1. RankedSteps(D, Len(ns), place, BOOLEAN, step, low)
    BY <1>1, <1>2, <1>3 DEF RankedSteps
  <2> QED BY <2>1, RankRecursion
<1>5. ASSUME NEW i \in D
      PROVE  f[i] <=> (own[i] \/ (given[i] /\ \A c \in Children(ns, i) : f[c]))
  <2> DEFINE w == Restrict(f, low[i])
  <2>1. low[i] \subseteq D
    BY <1>1
  <2>2. w \in [low[i] -> BOOLEAN] /\ \A c \in low[i] : w[c] = f[c]
    BY <2>1, <1>4 DEF Restrict
  <2>3. step[i][w] = (own[i] \/ (given[i] /\ \A c \in Children(ns, i) : w[c]))
    <3> HIDE DEF w, low
    <3> QED BY <2>2
  <2>4. \A c \in Children(ns, i) : w[c] = f[c]
    <3>1. low[i] = Children(ns, i)
      OBVIOUS
    <3> HIDE DEF w, low
    <3> QED BY <2>2, <3>1
  <2> HIDE DEF w, step, low
  <2>5. f[i] = step[i][w]
    BY <1>4 DEF w
  <2>6. (\A c \in Children(ns, i) : w[c]) <=> (\A c \in Children(ns, i) : f[c])
    BY <2>4
  <2> QED BY <2>3, <2>5, <2>6
<1> HIDE DEF step, low, place
<1>6. Marks(f, ns, own, given)
  BY <1>4, <1>5 DEF Marks
<1> QED BY <1>6

(* The bitwise nodes, and the linear combinations of them, of nodes ns.       *)
BitwiseOps == {"var", "not", "and", "or", "xor"}
BitwiseNodes(ns, B) == \A i \in DOMAIN ns : i \in B => ns[i].op \in BitwiseOps /\ Children(ns, i) \subseteq B
LinearNodes(ns, B, L) ==
  \A i \in DOMAIN ns : i \in L =>
    i \in B \/ ns[i].op = "const" \/ (ns[i].op \in {"add", "scale"} /\ Children(ns, i) \subseteq L)

(* The root of what LinearMba recognises is linear. *)
LEMMA LinearRoot ==
  ASSUME NEW e, WellFormed(e), LinearMba(e)
  PROVE  \E B, L : BitwiseNodes(e.nodes, B) /\ LinearNodes(e.nodes, B, L) /\ e.root \in L
<1> DEFINE ns == e.nodes  D == DOMAIN e.nodes
           rec1(v) == [i \in D |-> /\ e.nodes[i].op \in {"var", "not", "and", "or", "xor"}
                                   /\ \A c \in {e.nodes[i].of[j] : j \in DOMAIN e.nodes[i].of} : v[c]]
           rec2(u, v) == [i \in D |-> \/ u[i] \/ e.nodes[i].op = "const"
                                      \/ /\ e.nodes[i].op \in {"add", "scale"}
                                         /\ \A c \in {e.nodes[i].of[j] : j \in DOMAIN e.nodes[i].of} : v[c]]
           bw == CHOOSE v : v = rec1(v)
           ln == CHOOSE v : v = rec2(bw, v)
<1>1. ln[e.root]
  BY Zenon DEF LinearMba
<1>2. Formed(ns) /\ e.root \in D
  BY DEF WellFormed, Formed
<1>3. \A i \in D : Children(ns, i) = {e.nodes[i].of[j] : j \in DOMAIN e.nodes[i].of} /\ Children(ns, i) \subseteq D
  BY <1>2, NodeForm DEF Children
<1>4. bw = rec1(bw)
  <2> DEFINE own == [i \in D |-> FALSE]  given == [i \in D |-> ns[i].op \in BitwiseOps]
  <2>1. own \in [D -> BOOLEAN] /\ given \in [D -> BOOLEAN]
    OBVIOUS
  <2>2. PICK f : Marks(f, ns, own, given)
    <3> HIDE DEF own, given
    <3> QED BY <1>2, <2>1, MarksExist
  <2>3. \A i \in D : f[i] = (e.nodes[i].op \in {"var", "not", "and", "or", "xor"} /\ \A c \in Children(ns, i) : f[c])
    BY <2>2 DEF Marks, BitwiseOps
  <2>4. f = rec1(f)
    BY <1>3, <2>2, <2>3 DEF Marks
  <2> HIDE DEF rec1
  <2> QED BY <2>4
<1>5. ln = rec2(bw, ln)
  <2> DEFINE own == [i \in D |-> bw[i] \/ ns[i].op = "const"]  given == [i \in D |-> ns[i].op \in {"add", "scale"}]
  <2> HIDE DEF bw, rec1
  <2>1. own \in [D -> BOOLEAN] /\ given \in [D -> BOOLEAN]
    OBVIOUS
  <2>2. PICK f : Marks(f, ns, own, given)
    <3> HIDE DEF own, given
    <3> QED BY <1>2, <2>1, MarksExist
  <2>3. \A i \in D : f[i] = (bw[i] \/ ns[i].op = "const" \/ (ns[i].op \in {"add", "scale"} /\ \A c \in Children(ns, i) : f[c]))
    BY <2>2 DEF Marks
  <2>4. f = rec2(bw, f)
    BY <1>3, <2>2, <2>3 DEF Marks
  <2> HIDE DEF rec2
  <2> QED BY <2>4
<1> DEFINE B == {i \in D : bw[i]}  L == {i \in D : ln[i]}
<1> HIDE DEF bw, ln
<1>6. BitwiseNodes(ns, B)
  <2> SUFFICES ASSUME NEW i \in D, i \in B PROVE ns[i].op \in BitwiseOps /\ Children(ns, i) \subseteq B
    BY DEF BitwiseNodes
  <2>1. rec1(bw)[i]
    BY <1>4
  <2> QED BY <1>3, <2>1 DEF BitwiseOps
<1>7. LinearNodes(ns, B, L)
  <2> SUFFICES ASSUME NEW i \in D, i \in L
               PROVE  i \in B \/ ns[i].op = "const" \/ (ns[i].op \in {"add", "scale"} /\ Children(ns, i) \subseteq L)
    BY DEF LinearNodes
  <2>1. rec2(bw, ln)[i]
    BY <1>5
  <2> QED BY <1>3, <2>1
<1>8. e.root \in L
  BY <1>1, <1>2
<1> QED BY <1>6, <1>7, <1>8

(* A bitwise operator makes bit b of the bits b of its operands, in one way.   *)
SameBits(n, wx, x, b, wy, y, c) ==
  /\ n.op \in BitwiseOps /\ b \in Bits /\ c \in Bits
  /\ DOMAIN wx = DOMAIN wy /\ \A j \in DOMAIN wx : b \in wx[j] <=> c \in wy[j]
  /\ n.op = "not" => DOMAIN wx = {1}
  /\ n.op = "var" => (b \in x[n.k] <=> c \in y[n.k])

(* Equal bits of the operands give equal bits of the result. *)
LEMMA ResultBitwise ==
  ASSUME NEW n, NEW wx, NEW x, NEW b, NEW wy, NEW y, NEW c, SameBits(n, wx, x, b, wy, y, c)
  PROVE  b \in Result(n, wx, x) <=> c \in Result(n, wy, y)
<1>0. /\ n.op \in {"var", "not", "and", "or", "xor"} /\ b \in Bits /\ c \in Bits
      /\ DOMAIN wx = DOMAIN wy /\ \A j \in DOMAIN wx : b \in wx[j] <=> c \in wy[j]
      /\ n.op = "not" => DOMAIN wx = {1}
      /\ n.op = "var" => (b \in x[n.k] <=> c \in y[n.k])
  BY DEF SameBits, BitwiseOps
<1>1. CASE n.op = "var"
  BY <1>0, <1>1 DEF Result
<1>2. CASE n.op = "not"
  BY <1>0, <1>2 DEF Result
<1>3. CASE n.op = "and"
  BY <1>0, <1>3 DEF Result
<1>4. CASE n.op = "or"
  BY <1>0, <1>4 DEF Result
<1>5. CASE n.op = "xor"
  <2>1. {j \in DOMAIN wx : b \in wx[j]} = {j \in DOMAIN wy : c \in wy[j]}
    BY <1>0
  <2>2. /\ Result(n, wx, x) = {d \in Bits : Cardinality({j \in DOMAIN wx : d \in wx[j]}) % 2 = 1}
        /\ Result(n, wy, y) = {d \in Bits : Cardinality({j \in DOMAIN wy : d \in wy[j]}) % 2 = 1}
    BY <1>5 DEF Result
  <2> QED BY <1>0, <2>1, <2>2
<1> QED BY <1>0, <1>1, <1>2, <1>3, <1>4, <1>5

(* The words of a node, over the inputs. *)
NodeWords(ns, V, i) == [x \in Points(V) |-> Values(ns, x)[i]]
FormedOver(ns, V) == Formed(ns) /\ VarsIn(ns) \subseteq V

(* They are words, made of those of the children. *)
LEMMA NodeWordsForm ==
  ASSUME NEW ns, NEW V, FormedOver(ns, V), NEW i \in DOMAIN ns
  PROVE  /\ NodeWords(ns, V, i) \in [Points(V) -> Words]
         /\ ns[i].op = "var" => ns[i].k \in V
         /\ \A x \in Points(V) : /\ Values(ns, x)[i] = Result(ns[i], ChildrenOf(ns, x, i), x)
                                 /\ DOMAIN ChildrenOf(ns, x, i) = DOMAIN ns[i].of
                                 /\ \A j \in DOMAIN ns[i].of : ChildrenOf(ns, x, i)[j] = NodeWords(ns, V, ns[i].of[j])[x]
<1>0. Formed(ns)
  BY DEF FormedOver
<1>1. ASSUME NEW x \in Points(V) PROVE Values(ns, x)[i] \in Words
  <2>1. \A v \in VarsIn(ns) : x[v] \in Words
    BY DEF FormedOver, Points
  <2> QED BY <1>0, <2>1, ValuesAreWords
<1>2. NodeWords(ns, V, i) \in [Points(V) -> Words]
  BY <1>1 DEF NodeWords
<1>3. ns[i].op = "var" => ns[i].k \in V
  BY DEF FormedOver, VarsIn
<1>4. ASSUME NEW x \in Points(V)
      PROVE  /\ Values(ns, x)[i] = Result(ns[i], ChildrenOf(ns, x, i), x)
             /\ DOMAIN ChildrenOf(ns, x, i) = DOMAIN ns[i].of
             /\ \A j \in DOMAIN ns[i].of : ChildrenOf(ns, x, i)[j] = NodeWords(ns, V, ns[i].of[j])[x]
  <2>1. Values(ns, x)[i] = Result(ns[i], ChildrenOf(ns, x, i), x)
    BY <1>0, ValuesExist DEF ValuesAre, ChildrenOf
  <2>2. /\ DOMAIN ChildrenOf(ns, x, i) = DOMAIN ns[i].of
        /\ \A j \in DOMAIN ns[i].of : ChildrenOf(ns, x, i)[j] = NodeWords(ns, V, ns[i].of[j])[x]
    BY DEF ChildrenOf, NodeWords
  <2> QED BY <2>1, <2>2
<1> QED BY <1>2, <1>3, <1>4

(* The bitwise nodes are. *)
LEMMA BitwiseNodesAre ==
  ASSUME NEW ns, NEW V, FormedOver(ns, V), NEW B, BitwiseNodes(ns, B)
  PROVE  \A i \in DOMAIN ns : i \in B => Bitwise(NodeWords(ns, V, i), V)
<1> DEFINE T == {i \in DOMAIN ns : i \in B => Bitwise(NodeWords(ns, V, i), V)}
<1>1. FromChildren(ns, T)
  <2> SUFFICES ASSUME NEW i \in DOMAIN ns, \A j \in DOMAIN ns[i].of : ns[i].of[j] \in T, i \in B
               PROVE  Bitwise(NodeWords(ns, V, i), V)
    BY DEF FromChildren
  <2> DEFINE f == NodeWords(ns, V, i)
  <2>1. f \in [Points(V) -> Words] /\ ns[i].op \in BitwiseOps
    BY NodeWordsForm DEF BitwiseNodes
  <2>2. \A j \in DOMAIN ns[i].of : Bitwise(NodeWords(ns, V, ns[i].of[j]), V)
    BY DEF BitwiseNodes, Children
  <2>3. ASSUME NEW x \in Points(V), NEW b \in Bits
        PROVE  b \in f[x] <=> 0 \in f[Corner(V, Column(V, x, b))]
    <3> DEFINE y == Corner(V, Column(V, x, b))  wx == ChildrenOf(ns, x, i)  wy == ChildrenOf(ns, y, i)
    <3>1. y \in Points(V) /\ 0 \in Bits
      BY <2>1, PointWords, WidthAssumption DEF Bits
    <3>2. \A j \in DOMAIN ns[i].of : b \in NodeWords(ns, V, ns[i].of[j])[x] <=> 0 \in NodeWords(ns, V, ns[i].of[j])[y]
      BY <2>2 DEF Bitwise
    <3>3. ns[i].op = "var" => (b \in x[ns[i].k] <=> 0 \in y[ns[i].k])
      BY NodeWordsForm DEF Corner, Column
    <3>4. ns[i].op = "not" => DOMAIN ns[i].of = {1}
      BY NodeForm DEF FormedOver
    <3> HIDE DEF y
    <3>5. /\ Values(ns, x)[i] = Result(ns[i], wx, x) /\ Values(ns, y)[i] = Result(ns[i], wy, y)
          /\ DOMAIN wx = DOMAIN ns[i].of /\ DOMAIN wy = DOMAIN ns[i].of
          /\ \A j \in DOMAIN ns[i].of : /\ wx[j] = NodeWords(ns, V, ns[i].of[j])[x]
                                        /\ wy[j] = NodeWords(ns, V, ns[i].of[j])[y]
      <4>1. \A z \in Points(V) :
              /\ Values(ns, z)[i] = Result(ns[i], ChildrenOf(ns, z, i), z)
              /\ DOMAIN ChildrenOf(ns, z, i) = DOMAIN ns[i].of
              /\ \A j \in DOMAIN ns[i].of : ChildrenOf(ns, z, i)[j] = NodeWords(ns, V, ns[i].of[j])[z]
        BY NodeWordsForm
      <4> QED BY <3>1, <4>1
    <3> HIDE DEF wx, wy
    <3>6. SameBits(ns[i], wx, x, b, wy, y, 0)
      BY <2>1, <3>1, <3>2, <3>3, <3>4, <3>5 DEF SameBits
    <3>7. b \in Values(ns, x)[i] <=> 0 \in Values(ns, y)[i]
      BY <3>5, <3>6, ResultBitwise
    <3> QED BY <3>1, <3>7 DEF NodeWords, y
  <2> HIDE DEF f
  <2>4. Bitwise(f, V)
    BY <2>1, <2>3 DEF Bitwise
  <2> QED BY <2>4 DEF f
<1> HIDE DEF T
<1>2. \A i \in DOMAIN ns : i \in T
  BY <1>1, NodeCases DEF FormedOver
<1> QED BY <1>2 DEF T

(* The linear nodes are stepwise. *)
LEMMA LinearNodesStep ==
  ASSUME NEW ns, NEW V, FormedOver(ns, V), NEW B, BitwiseNodes(ns, B), NEW L, LinearNodes(ns, B, L)
  PROVE  \A i \in DOMAIN ns : i \in L => Stepwise(NodeWords(ns, V, i), V)
<1> DEFINE T == {i \in DOMAIN ns : i \in L => Stepwise(NodeWords(ns, V, i), V)}
<1>1. FromChildren(ns, T)
  <2> SUFFICES ASSUME NEW i \in DOMAIN ns, \A j \in DOMAIN ns[i].of : ns[i].of[j] \in T, i \in L
               PROVE  Stepwise(NodeWords(ns, V, i), V)
    BY DEF FromChildren
  <2> DEFINE f == NodeWords(ns, V, i)  n == ns[i]
  <2>1. /\ f \in [Points(V) -> Words]
        /\ \A x \in Points(V) : /\ Values(ns, x)[i] = Result(ns[i], ChildrenOf(ns, x, i), x)
                                /\ DOMAIN ChildrenOf(ns, x, i) = DOMAIN ns[i].of
                                /\ \A j \in DOMAIN ns[i].of : ChildrenOf(ns, x, i)[j] = NodeWords(ns, V, ns[i].of[j])[x]
    BY NodeWordsForm
  <2>2. n.k \in Int /\ IsFiniteSet(DOMAIN n.of) /\ (n.op \in {"not", "scale"} => DOMAIN n.of = {1})
    BY NodeForm DEF FormedOver
  <2>3. \A x \in Points(V) : f[x] = Result(n, ChildrenOf(ns, x, i), x)
    BY <2>1 DEF NodeWords
  <2> HIDE DEF f
  <2>4. CASE i \in B
    <3>1. Bitwise(f, V)
      BY <2>4, BitwiseNodesAre DEF f
    <3> QED BY <3>1, BitwiseSteps DEF f
  <2>5. CASE n.op = "const"
    <3> DEFINE w == Word(n.k)
    <3>1. \A x \in Points(V) : f[x] = w
      BY <2>3, <2>5 DEF Result
    <3> HIDE DEF n, w
    <3>2. Stepwise(f, V)
      BY <2>1, <3>1, ConstantSteps
    <3> QED BY <3>2 DEF f
  <2>6. ASSUME n.op \in {"add", "scale"}, Children(ns, i) \subseteq L
        PROVE  \A j \in DOMAIN n.of : Stepwise(NodeWords(ns, V, n.of[j]), V)
    BY <2>6 DEF Children
  <2>7. CASE n.op = "scale" /\ Children(ns, i) \subseteq L
    <3> DEFINE g == NodeWords(ns, V, n.of[1])
    <3>1. Stepwise(g, V)
      BY <2>2, <2>6, <2>7
    <3>2. ASSUME NEW x \in Points(V) PROVE Modular(Num(f[x]), n.k * Num(g[x]))
      <4>1. g[x] \in Words /\ 0 \in Nat
        BY <3>1 DEF Stepwise
      <4>2. n.k * Num(g[x]) \in Int
        <5> HIDE DEF g, n
        <5>1. Num(g[x]) \in Int
          BY <4>1, LowInt
        <5> QED BY <2>2, <5>1
      <4>3. f[x] = Word(n.k * Num(g[x]))
        <5>1. ChildrenOf(ns, x, i)[1] = g[x]
          BY <2>1, <2>2, <2>7
        <5> QED BY <2>3, <2>7, <5>1 DEF Result
      <4> QED BY <4>2, <4>3, WordModular
    <3> HIDE DEF g, n
    <3>3. Stepwise(f, V)
      BY <2>1, <2>2, <3>1, <3>2, MultipleSteps
    <3> QED BY <3>3 DEF f
  <2>8. CASE n.op = "add" /\ Children(ns, i) \subseteq L
    <3> DEFINE fs == [j \in DOMAIN n.of |-> NodeWords(ns, V, n.of[j])]
    <3>1. AllStepwise(fs, V)
      BY <2>2, <2>6, <2>8 DEF AllStepwise
    <3>2. ASSUME NEW x \in Points(V) PROVE Modular(Num(f[x]), SumFunction(NumsAt(fs, x)))
      <4>1. SumFunction(NumsAt(fs, x)) \in Int
        <5>1. \A j \in DOMAIN fs : Num(fs[j][x]) \in Int
          <6> TAKE j \in DOMAIN fs
          <6>1. fs[j][x] \in Words /\ 0 \in Nat
            BY <3>1 DEF AllStepwise, Stepwise
          <6> HIDE DEF fs
          <6> QED BY <6>1, LowInt
        <5> HIDE DEF fs
        <5>2. IntFunction(NumsAt(fs, x), DOMAIN fs)
          BY <3>1, <5>1 DEF IntFunction, NumsAt, AllStepwise
        <5> QED BY <5>2, SumType
      <4>2. f[x] = Word(SumFunction(NumsAt(fs, x)))
        <5> DEFINE w == ChildrenOf(ns, x, i)
        <5>1. [j \in DOMAIN w |-> Num(w[j])] = NumsAt(fs, x)
          <6>1. DOMAIN w = DOMAIN fs /\ \A j \in DOMAIN fs : w[j] = fs[j][x]
            BY <2>1
          <6> HIDE DEF w, fs
          <6> QED BY <6>1 DEF NumsAt
        <5>2. f[x] = Word(SumOver(Num, w))
          BY <2>3, <2>8 DEF Result
        <5> HIDE DEF w, fs
        <5> QED BY <5>1, <5>2 DEF SumOver
      <4> HIDE DEF fs
      <4> QED BY <4>1, <4>2, WordModular
    <3> HIDE DEF fs
    <3>3. Stepwise(f, V)
      BY <2>1, <3>1, <3>2, SumSteps
    <3> QED BY <3>3 DEF f
  <2> QED BY <2>4, <2>5, <2>7, <2>8 DEF LinearNodes, f
<1> HIDE DEF T
<1>2. \A i \in DOMAIN ns : i \in T
  BY <1>1, NodeCases DEF FormedOver
<1> QED BY <1>2 DEF T

(* What LinearMba recognises is stepwise. *)
ExprWords(e, V) == [x \in Points(V) |-> Eval(e, x)]

(* Its root is a linear node. *)
LEMMA LinearIsStepwise ==
  ASSUME NEW e, WellFormed(e), LinearMba(e)
  PROVE  Stepwise(ExprWords(e, VarsOf(e)), VarsOf(e))
<1> DEFINE ns == e.nodes  V == VarsOf(e)
<1>1. FormedOver(ns, V) /\ e.root \in DOMAIN ns
  BY DEF WellFormed, Formed, FormedOver, VarsOf
<1>2. PICK B, L : BitwiseNodes(ns, B) /\ LinearNodes(ns, B, L) /\ e.root \in L
  BY LinearRoot
<1>3. Stepwise(NodeWords(ns, V, e.root), V)
  <2> HIDE DEF ns, V
  <2> QED BY <1>1, <1>2, LinearNodesStep
<1>4. NodeWords(ns, V, e.root) = ExprWords(e, V)
  BY DEF NodeWords, ExprWords, Eval
<1> QED BY <1>3, <1>4

(* A variable has its word. *)
LEMMA VarWord ==
  ASSUME NEW v \in Int, NEW x
  PROVE  Eval(Var(v), x) = x[v]
<1>1. Operable("var", v, <<>>, {v})
  BY DEF Operable, Ops
<1>2. Applied(Var(v), "var", v, <<>>)
  BY <1>1, OpApplied DEF Var
<1>3. Node("var", v, <<>>).op = "var" /\ Node("var", v, <<>>).k = v
  BY DEF Node
<1>4. Eval(Var(v), x) = Result(Node("var", v, <<>>), [j \in DOMAIN <<>> |-> Eval(<<>>[j], x)], x)
  BY <1>2 DEF Applied
<1> QED BY <1>3, <1>4 DEF Result

(* A constant has the word of its number. *)
LEMMA ConstWord ==
  ASSUME NEW c \in Int, NEW x
  PROVE  Eval(Const(c), x) = Word(c)
<1>1. Operable("const", c, <<>>, {})
  BY DEF Operable, Ops
<1>2. Applied(Const(c), "const", c, <<>>)
  BY <1>1, OpApplied DEF Const
<1>3. Node("const", c, <<>>).op = "const" /\ Node("const", c, <<>>).k = c
  BY DEF Node
<1>4. Eval(Const(c), x) = Result(Node("const", c, <<>>), [j \in DOMAIN <<>> |-> Eval(<<>>[j], x)], x)
  BY <1>2 DEF Applied
<1> QED BY <1>3, <1>4 DEF Result

(* A conjunction has the bits all its variables have. *)
Common(S, x) == {b \in Bits : \A v \in S : b \in x[v]}
FiniteVars(V) == IsFiniteSet(V) /\ V \in SUBSET Int

(* A conjunction of variables, however many, has their common bits. *)
LEMMA ConjunctionWord ==
  ASSUME NEW V, FiniteVars(V), NEW S \in SUBSET V, S # {}, NEW x \in Points(V)
  PROVE  Eval(Conjunction(S), x) = Common(S, x)
<1> DEFINE D == {Var(v) : v \in S}  args == Listed(D)  n == Len(args)
<1>0. V \in SUBSET Int /\ IsFiniteSet(S) /\ \A v \in S : v \in Int /\ x[v] \in Words /\ Eval(Var(v), x) = x[v]
  BY FS_Subset, VarWord DEF FiniteVars, Points
<1>1. IsFiniteSet(D)
  <2> DEFINE f == [v \in S |-> Var(v)]
  <2>1. DOMAIN f = S /\ f = [v \in DOMAIN f |-> f[v]] /\ Range(f) = D
    BY DEF Range
  <2> HIDE DEF f
  <2> QED BY <1>0, <2>1, RangeFinite
<1>2. Lists(args, D)
  <2> HIDE DEF D
  <2> QED BY <1>1, ListedOnce
<1>3. Conjunction(S) = OpOrOnly("and", args)
  BY DEF Conjunction
<1>4. args \in Seq(D) /\ n \in Nat /\ DOMAIN args = 1 .. n /\ \A i \in DOMAIN args : args[i] \in D
  <2> HIDE DEF D, args
  <2>1. args \in Seq(D)
    BY <1>2 DEF Lists
  <2> QED BY <2>1, RangeSeq
<1>5. \A v \in S : \E i \in DOMAIN args : args[i] = Var(v)
  BY <1>2 DEF Lists
<1>6. \A i \in DOMAIN args : \E v \in S : args[i] = Var(v)
  BY <1>4
<1> HIDE DEF D, args, n
<1>7. \A b : (\A i \in DOMAIN args : b \in Eval(args[i], x)) <=> (\A v \in S : b \in x[v])
  <2>1. ASSUME NEW b, \A i \in DOMAIN args : b \in Eval(args[i], x), NEW v \in S PROVE b \in x[v]
    <3>1. PICK i \in DOMAIN args : args[i] = Var(v)
      BY <1>5
    <3> QED BY <1>0, <2>1, <3>1
  <2>2. ASSUME NEW b, \A v \in S : b \in x[v], NEW i \in DOMAIN args PROVE b \in Eval(args[i], x)
    <3>1. PICK v \in S : args[i] = Var(v)
      BY <1>6
    <3> QED BY <1>0, <2>2, <3>1
  <2> QED BY <2>1, <2>2, Zenon
<1>8. CASE n = 1
  <2>1. DOMAIN args = {1} /\ Eval(Conjunction(S), x) = Eval(args[1], x)
    BY <1>3, <1>4, <1>8 DEF OpOrOnly, n
  <2>2. \A b : b \in Eval(args[1], x) <=> (\A v \in S : b \in x[v])
    BY <1>7, <2>1
  <2>3. Eval(args[1], x) \in Words
    BY <1>0, <1>6, <2>1
  <2>4. Eval(args[1], x) \subseteq Bits
    BY <2>3 DEF Words
  <2> QED BY <2>1, <2>2, <2>4 DEF Common
<1>9. CASE n # 1
  <2>1. Conjunction(S) = Op("and", 0, args)
    BY <1>3, <1>9 DEF OpOrOnly, n
  <2>2. \A i \in DOMAIN args : Over(args[i], V)
    BY <1>0, <1>6, VarOver
  <2>3. Operable("and", 0, args, V)
    BY <1>4, <2>2, RangeSeq DEF Operable, Ops
  <2>4. Applied(Op("and", 0, args), "and", 0, args)
    BY <2>3, OpApplied
  <2> DEFINE ws == [j \in DOMAIN args |-> Eval(args[j], x)]
  <2>5. Eval(Op("and", 0, args), x) = Result(Node("and", 0, <<>>), ws, x)
    BY <2>4 DEF Applied
  <2>6. Node("and", 0, <<>>).op = "and" /\ DOMAIN ws = DOMAIN args /\ \A j \in DOMAIN ws : ws[j] = Eval(args[j], x)
    BY DEF Node
  <2> HIDE DEF ws
  <2>7. Result(Node("and", 0, <<>>), ws, x) = {b \in Bits : \A j \in DOMAIN ws : b \in ws[j]}
    BY <2>6 DEF Result
  <2> QED BY <1>7, <2>1, <2>5, <2>6, <2>7 DEF Common
<1> QED BY <1>8, <1>9

(* A term at x, as a number: the coefficient times the conjunction, or the     *)
(* coefficient itself.                                                       *)
TermNum(c, S, x) == IF S = {} THEN c ELSE c * Num(Common(S, x))

(* These are a word. *)
LEMMA CommonWord == \A S, x : Common(S, x) \in Words /\ Num(Common(S, x)) \in Int
<1> TAKE S, x
<1>1. Common(S, x) \in Words /\ 0 \in Nat
  BY DEF Common, Words
<1> QED BY <1>1, LowInt

(* The word of a term is modular to that number. *)
LEMMA TermWord ==
  ASSUME NEW V, FiniteVars(V), NEW S \in SUBSET V, NEW c \in Int, NEW x \in Points(V)
  PROVE  /\ Eval(Term(c, S), x) \in Words
         /\ TermNum(c, S, x) \in Int /\ Modular(Num(Eval(Term(c, S), x)), TermNum(c, S, x))
<1>1. CASE S = {}
  <2>1. Eval(Term(c, S), x) = Word(c) /\ TermNum(c, S, x) = c
    BY <1>1, ConstWord DEF Term, TermNum
  <2> QED BY <2>1, WordModular
<1>2. CASE S # {}
  <2> DEFINE e == Conjunction(S)  w == Common(S, x)  p == c * Num(w)
  <2>1. Eval(e, x) = w /\ w \in Words /\ Num(w) \in Int /\ Term(c, S) = Times(c, e) /\ TermNum(c, S, x) = p
    BY <1>2, ConjunctionWord, CommonWord DEF Term, TermNum
  <2> HIDE DEF e, w
  <2>2. p \in Int
    BY <2>1
  <2>3. CASE c = 1
    <3>1. Term(c, S) = e /\ p = Num(w)
      BY <2>1, <2>3 DEF Times
    <3> QED BY <2>1, <2>2, <3>1, ModularSame
  <2>4. CASE c # 1
    <3>1. Over(e, V)
      <4>0. IsFiniteSet(V) /\ V \in SUBSET Int /\ 1 \in Int
        BY DEF FiniteVars
      <4>1. IsFiniteSet(S)
        BY <4>0, FS_Subset
      <4>2. Over(Term(1, S), V)
        BY <4>0, <4>1, TermOver
      <4>3. Term(1, S) = e
        BY <1>2 DEF Term, Times, e
      <4> QED BY <4>2, <4>3
    <3>2. Operable("scale", c, <<e>>, V)
      <4>1. <<e>> \in Seq(Range(<<e>>)) /\ Len(<<e>>) = 1 /\ \A i \in DOMAIN <<e>> : <<e>>[i] = e
        BY DEF Range
      <4> QED BY <3>1, <4>1 DEF Operable, Ops
    <3> DEFINE ws == [j \in DOMAIN <<e>> |-> Eval(<<e>>[j], x)]  n == Node("scale", c, <<>>)
    <3>3. Eval(Term(c, S), x) = Result(n, ws, x)
      BY <2>1, <2>4, <3>2, OpApplied DEF Applied, Times
    <3>4. ws[1] = w /\ n.op = "scale" /\ n.k = c
      BY <2>1 DEF Node
    <3> HIDE DEF ws, n
    <3>5. Eval(Term(c, S), x) = Word(p)
      BY <3>3, <3>4 DEF Result
    <3> HIDE DEF p
    <3> QED BY <2>1, <2>2, <3>5, WordModular
  <2> QED BY <2>3, <2>4
<1> QED BY <1>1, <1>2

(* The numbers of the two words at the corners. *)
LEMMA NumSmall == Num({}) = 0 /\ Num({0}) = 1
<1>1. {} \in Words /\ {0} \in Words /\ 0 \in Nat /\ 0 + 1 = 1 /\ 2 ^ 0 = 1 /\ 1 \in Nat
  BY WidthAssumption DEF Words, Bits
<1>2. LowBits({0}, 1) = LowBits({0}, 0) + 2 ^ 0 * BitOf({0}, 0)
  BY <1>1, LowNext
<1>3. {0} \cap 0 .. 1 - 1 = {0} /\ {} \cap 0 .. 0 - 1 = {} /\ BitOf({0}, 0) = 1
  BY DEF BitOf
<1>4. LowBits({0}, 1) = Num({0}) /\ LowBits({}, 0) = Num({})
  BY <1>3 DEF LowBits
<1>5. LowBits({0}, 0) = 0 /\ LowBits({}, 0) = 0
  BY LowNone
<1> QED BY <1>1, <1>2, <1>3, <1>4, <1>5

(* At a corner a term is its coefficient if it is below, and zero otherwise.  *)
LEMMA TermAtCorner ==
  ASSUME NEW V, FiniteVars(V), NEW S \in SUBSET V, NEW c \in Int, NEW T \in SUBSET V
  PROVE  TermNum(c, S, Corner(V, T)) = IF S \subseteq T THEN c ELSE 0
<1> DEFINE x == Corner(V, T)
<1>1. CASE S = {}
  BY <1>1 DEF TermNum
<1>2. CASE S # {}
  <2>1. 0 \in Bits /\ \A v \in S : x[v] = IF v \in T THEN {0} ELSE {}
    BY WidthAssumption DEF Bits, Corner
  <2>2. Common(S, x) = IF S \subseteq T THEN {0} ELSE {}
    <3> HIDE DEF x
    <3> QED BY <1>2, <2>1 DEF Common
  <2>3. Num({}) = 0 /\ Num({0}) = 1
    BY NumSmall
  <2> HIDE DEF x
  <2>4. TermNum(c, S, x) = c * Num(Common(S, x))
    BY <1>2 DEF TermNum
  <2>5. c * 0 = 0 /\ c * 1 = c
    OBVIOUS
  <2> QED BY <2>2, <2>3, <2>4, <2>5 DEF x
<1> QED BY <1>1, <1>2

(* Terms are stepwise. *)
LEMMA TermSteps ==
  ASSUME NEW V, FiniteVars(V), NEW S \in SUBSET V, NEW c \in Int
  PROVE  Stepwise(ExprWords(Term(c, S), V), V)
<1> DEFINE f == ExprWords(Term(c, S), V)  g == [x \in Points(V) |-> Common(S, x)]
<1>1. f \in [Points(V) -> Words] /\ g \in [Points(V) -> Words]
  BY TermWord, CommonWord DEF ExprWords
<1>2. CASE S = {}
  <2>1. \A x \in Points(V) : f[x] = Word(c)
    BY <1>2, ConstWord DEF ExprWords, Term
  <2> DEFINE w == Word(c)
  <2>2. \A x \in Points(V) : f[x] = w
    BY <2>1
  <2> HIDE DEF f, w
  <2>3. Stepwise(f, V)
    BY <1>1, <2>2, ConstantSteps
  <2> QED BY <2>3 DEF f
<1>3. CASE S # {}
  <2>1. Bitwise(g, V)
    <3>1. ASSUME NEW x \in Points(V), NEW b \in Bits
          PROVE  b \in g[x] <=> 0 \in g[Corner(V, Column(V, x, b))]
      <4> DEFINE y == Corner(V, Column(V, x, b))
      <4>1. y \in Points(V) /\ 0 \in Bits
        BY <1>1, PointWords, WidthAssumption DEF Bits
      <4>2. \A v \in S : b \in x[v] <=> 0 \in y[v]
        BY DEF Corner, Column
      <4> HIDE DEF y
      <4>3. g[x] = Common(S, x) /\ g[y] = Common(S, y)
        BY <4>1
      <4> HIDE DEF g
      <4> QED BY <4>1, <4>2, <4>3 DEF Common, y
    <3> HIDE DEF g
    <3> QED BY <1>1, <3>1 DEF Bitwise
  <2>2. \A x \in Points(V) : Modular(Num(f[x]), c * Num(g[x]))
    <3> TAKE x \in Points(V)
    <3>1. Modular(Num(Eval(Term(c, S), x)), TermNum(c, S, x))
      BY TermWord
    <3>2. f[x] = Eval(Term(c, S), x) /\ TermNum(c, S, x) = c * Num(g[x])
      BY <1>3 DEF ExprWords, TermNum
    <3> QED BY <3>1, <3>2
  <2> HIDE DEF f, g
  <2>3. Stepwise(g, V)
    BY <2>1, BitwiseSteps
  <2>4. Stepwise(f, V)
    BY <1>1, <2>2, <2>3, MultipleSteps
  <2> QED BY <2>4 DEF f
<1> QED BY <1>2, <1>3

(* The words of a sequence of expressions, as numbers. *)
EvalNums(terms, x) == [i \in DOMAIN terms |-> Num(Eval(terms[i], x))]
AllOver(terms, V) == terms \in Seq(Range(terms)) /\ \A i \in DOMAIN terms : Over(terms[i], V)

(* An expression over the variables has a word at each input. *)
LEMMA OverWord ==
  ASSUME NEW V, NEW e, Over(e, V), NEW x \in Points(V)
  PROVE  Eval(e, x) \in Words /\ Num(Eval(e, x)) \in Int
<1>1. Formed(e.nodes) /\ e.root \in DOMAIN e.nodes
  BY DEF Over, WellFormed, Formed
<1>2. \A v \in VarsIn(e.nodes) : x[v] \in Words
  BY DEF Over, VarsOf, Points
<1>3. Eval(e, x) \in Words /\ 0 \in Nat
  BY <1>1, <1>2, ValuesAreWords DEF Eval
<1> QED BY <1>3, LowInt

(* The sum of expressions has a number modular to the sum of theirs, at one    *)
(* bit too.                                                                  *)
LEMMA SumOfAllWord ==
  ASSUME NEW V, NEW terms, AllOver(terms, V), NEW x \in Points(V)
  PROVE  /\ Eval(SumOfAll(terms), x) \in Words
         /\ IntFunction(EvalNums(terms, x), DOMAIN terms)
         /\ Modular(Num(Eval(SumOfAll(terms), x)), SumFunction(EvalNums(terms, x)))
<1> DEFINE g == EvalNums(terms, x)  n == Len(terms)  e == SumOfAll(terms)  op == IF Width = 1 THEN "xor" ELSE "add"
           ws == [j \in DOMAIN terms |-> Eval(terms[j], x)]
<1>0. terms \in Seq(Range(terms)) /\ \A i \in DOMAIN terms : Over(terms[i], V)
  BY DEF AllOver
<1>1. n \in Nat /\ DOMAIN terms = 1 .. n /\ IsFiniteSet(DOMAIN terms) /\ (terms = <<>> <=> n = 0)
  BY <1>0, FS_Interval
<1>2. \A i \in DOMAIN terms : /\ Eval(terms[i], x) \in Words /\ Num(Eval(terms[i], x)) \in Int
  BY <1>0, OverWord
<1>3. IntFunction(g, DOMAIN terms) /\ SumFunction(g) \in Int
  <2>1. IntFunction(g, DOMAIN terms)
    BY <1>1, <1>2 DEF IntFunction, EvalNums
  <2> QED BY <2>1, SumType
<1>4. op \in {"xor", "add"} /\ e = IF terms = <<>> THEN Const(0) ELSE OpOrOnly(op, terms)
  BY DEF SumOfAll
<1>5. \A i \in DOMAIN terms : g[i] = Num(Eval(terms[i], x))
  BY DEF EvalNums
<1>6. DOMAIN ws = DOMAIN terms /\ (\A i \in DOMAIN terms : ws[i] = Eval(terms[i], x))
      /\ [j \in DOMAIN ws |-> Num(ws[j])] = g
  BY DEF EvalNums
<1> HIDE DEF e, op, ws
<1>7. CASE n = 0
  <2>1. e = Const(0) /\ DOMAIN terms = {} /\ 0 \in Int
    BY <1>1, <1>4, <1>7
  <2>2. Eval(e, x) = Word(0) /\ SumFunction(g) = 0
    <3> HIDE DEF g
    <3>1. SumFunction(g) = 0
      BY <1>3, <2>1, SumEmpty
    <3> QED BY <2>1, <3>1, ConstWord
  <2>3. Word(0) \in Words /\ Modular(Num(Word(0)), 0)
    BY WordModular
  <2> QED BY <1>3, <2>2, <2>3 DEF e
<1>8. CASE n = 1
  <2>1. e = terms[1] /\ DOMAIN terms = {1}
    BY <1>1, <1>4, <1>8 DEF OpOrOnly
  <2>2. SumFunction(g) = g[1]
    <3> HIDE DEF g
    <3>1. SumFunction(g) = g[1] + SumFunction(Restrict(g, {1} \ {1}))
      BY <1>3, <2>1, SumTake
    <3>2. IntFunction(Restrict(g, {}), {})
      BY <1>3, RestrictInt
    <3>3. SumFunction(Restrict(g, {1} \ {1})) = 0 /\ g[1] \in Int
      BY <1>3, <2>1, <3>2, SumEmpty DEF IntFunction
    <3> QED BY <3>1, <3>3
  <2>3. Modular(g[1], g[1])
    BY <1>2, <1>5, <2>1, ModularSame
  <2> QED BY <1>2, <1>3, <1>5, <2>1, <2>2, <2>3 DEF e
<1>9. CASE n > 1
  <2>1. e = Op(op, 0, terms)
    BY <1>1, <1>4, <1>9 DEF OpOrOnly
  <2>2. Operable(op, 0, terms, V)
    BY <1>0, <1>4 DEF Operable, Ops
  <2>3. Eval(e, x) = Result(Node(op, 0, <<>>), ws, x)
    BY <2>1, <2>2, OpApplied DEF Applied, ws
  <2> DEFINE m == Node(op, 0, <<>>)
  <2>4. m.op = op
    BY DEF Node
  <2> HIDE DEF m
  <2>5. CASE Width # 1
    <3>1. op = "add"
      BY <2>5 DEF op
    <3>2. Eval(e, x) = Word(SumFunction(g))
      <4>1. Result(m, ws, x) = Word(SumOver(Num, ws))
        BY <2>4, <3>1 DEF Result
      <4> QED BY <1>6, <2>3, <4>1 DEF SumOver, m
    <3> QED BY <1>3, <3>2, WordModular DEF e
  <2>6. CASE Width = 1
    <3> DEFINE J == DOMAIN terms  C == {j \in J : 0 \in ws[j]}
    <3>1. op = "xor" /\ Bits = {0}
      BY <2>6 DEF op, Bits
    <3>2. Result(m, ws, x) = {b \in Bits : Cardinality({j \in DOMAIN ws : b \in ws[j]}) % 2 = 1}
      BY <2>4, <3>1 DEF Result
    <3>3. Eval(e, x) = IF Cardinality(C) % 2 = 1 THEN {0} ELSE {}
      BY <1>6, <2>3, <3>1, <3>2 DEF m
    <3>4. Num({}) = 0 /\ Num({0}) = 1
      BY NumSmall, WidthAssumption
    <3>5. \A j \in J : g[j] \in {0, 1} /\ (g[j] = 1 <=> 0 \in ws[j])
      <4> TAKE j \in J
      <4>1. ws[j] = {} \/ ws[j] = {0}
        BY <1>2, <1>6, <3>1 DEF Words
      <4>2. g[j] = Num(ws[j])
        BY <1>5, <1>6
      <4> QED BY <3>4, <4>1, <4>2
    <3>6. SumFunction(g) = Cardinality(C)
      <4> HIDE DEF g
      <4>1. SumFunction(g) = Cardinality({j \in J : g[j] = 1})
        BY <1>3, <3>5, SumOnes
      <4>2. {j \in J : g[j] = 1} = C
        BY <3>5
      <4> QED BY <4>1, <4>2
    <3> HIDE DEF g, C, J
    <3>7. Num(Eval(e, x)) = SumFunction(g) % 2
      <4>1. SumFunction(g) % 2 \in {0, 1}
        BY <1>3
      <4> QED BY <3>3, <3>4, <3>6, <4>1
    <3>8. 2 ^ Width = 2
      BY <2>6
    <3>9. Eval(e, x) \in Words
      BY <3>1, <3>3 DEF Words
    <3>10. Modular(SumFunction(g) % 2, SumFunction(g))
      BY <1>3, <3>8, ModularRest
    <3> QED BY <1>3, <3>7, <3>9, <3>10 DEF e, g, J
  <2> QED BY <2>5, <2>6
<1> QED BY <1>1, <1>7, <1>8, <1>9

(* Coefficients that the width does not make zero are those of different       *)
(* terms.                                                                    *)
LEMMA TermsApart ==
  ASSUME NEW V, FiniteVars(V), NEW S \in SUBSET V, NEW T \in SUBSET V, NEW c \in Int, NEW d \in Int,
         ~Modular(c, 0), ~Modular(d, 0), Term(c, S) = Term(d, T)
  PROVE  S = T
<1> DEFINE N(U) == Num(Eval(Term(c, S), Corner(V, U)))
<1>1. ASSUME NEW U \in SUBSET V
      PROVE  /\ N(U) \in Int
             /\ Modular(N(U), IF S \subseteq U THEN c ELSE 0)
             /\ Modular(N(U), IF T \subseteq U THEN d ELSE 0)
  <2>1. Corner(V, U) \in Points(V) /\ 0 \in Nat
    BY WidthAssumption DEF Corner, Points, Words, Bits
  <2>2. Modular(N(U), TermNum(c, S, Corner(V, U)))
    BY <2>1, TermWord
  <2>3. Modular(N(U), TermNum(d, T, Corner(V, U)))
    <3>1. Modular(Num(Eval(Term(d, T), Corner(V, U))), TermNum(d, T, Corner(V, U)))
      BY <2>1, TermWord
    <3> QED BY <3>1
  <2>4. Eval(Term(c, S), Corner(V, U)) \in Words
    BY <2>1, TermWord
  <2>5. N(U) \in Int
    BY <2>1, <2>4, LowInt
  <2> HIDE DEF N
  <2> QED BY <2>2, <2>3, <2>5, TermAtCorner
<1> HIDE DEF N
<1>2. T \subseteq S
  <2> SUFFICES ASSUME ~(T \subseteq S) PROVE FALSE
    OBVIOUS
  <2>1. Modular(N(S), c) /\ Modular(N(S), 0) /\ N(S) \in Int /\ 0 \in Int
    BY <1>1
  <2> QED BY <2>1, ModularSame
<1>3. S \subseteq T
  <2> SUFFICES ASSUME ~(S \subseteq T) PROVE FALSE
    OBVIOUS
  <2>1. Modular(N(T), d) /\ Modular(N(T), 0) /\ N(T) \in Int /\ 0 \in Int
    BY <1>1
  <2> QED BY <2>1, ModularSame
<1> QED BY <1>2, <1>3

(* What ConjunctionSum adds up: the terms of nonzero coefficient, once each.  *)
Nonzero(c, V) == {T \in SUBSET V : c[T] # 0}
TermSet(c, V) == {Term(c[S], S) : S \in Nonzero(c, V)}

(* ConjunctionSum adds up a sequence that lists them. *)
LEMMA TermsListed ==
  ASSUME NEW V, FiniteVars(V), NEW c \in [SUBSET V -> Int]
  PROVE  \E terms : /\ ConjunctionSum(c) = SumOfAll(terms)
                    /\ Lists(terms, TermSet(c, V)) /\ AllOver(terms, V)
<1> DEFINE P == Nonzero(c, V)  D == TermSet(c, V)  terms == Listed(D)
<1>0. IsFiniteSet(V) /\ V \in SUBSET Int
  BY DEF FiniteVars
<1>1. ConjunctionSum(c) = SumOfAll(terms)
  <2>1. DOMAIN c = SUBSET V
    OBVIOUS
  <2> QED BY <2>1, Zenon DEF ConjunctionSum, TermSet, Nonzero
<1>2. IsFiniteSet(P)
  <2>1. IsFiniteSet(SUBSET V)
    BY <1>0, FS_SUBSET
  <2> QED BY <2>1, FS_Subset DEF Nonzero
<1>3. \A d \in D : Over(d, V)
  <2> SUFFICES ASSUME NEW S \in P PROVE Over(Term(c[S], S), V)
    BY DEF TermSet
  <2>1. S \in SUBSET V /\ c[S] \in Int
    BY DEF Nonzero
  <2>2. IsFiniteSet(S)
    BY <1>0, <2>1, FS_Subset
  <2> QED BY <1>0, <2>1, <2>2, TermOver
<1>4. IsFiniteSet(D)
  <2> DEFINE f == [S \in P |-> Term(c[S], S)]
  <2>1. DOMAIN f = P /\ f = [S \in DOMAIN f |-> f[S]] /\ Range(f) = D
    BY DEF Range, TermSet
  <2> HIDE DEF f, D
  <2> QED BY <1>2, <2>1, RangeFinite
<1>5. Lists(terms, D)
  <2> HIDE DEF D
  <2> QED BY <1>4, ListedOnce
<1> HIDE DEF D, terms
<1>6. terms \in Seq(D)
  BY <1>5 DEF Lists
<1>7. AllOver(terms, V)
  BY <1>3, <1>6, RangeSeq DEF AllOver
<1> QED BY <1>1, <1>5, <1>7 DEF D

(* The sum of terms is stepwise. *)
LEMMA ConjunctionSumSteps ==
  ASSUME NEW V, FiniteVars(V), NEW c \in [SUBSET V -> Int]
  PROVE  Stepwise(ExprWords(ConjunctionSum(c), V), V)
<1>1. PICK terms : /\ ConjunctionSum(c) = SumOfAll(terms)
                   /\ Lists(terms, TermSet(c, V)) /\ AllOver(terms, V)
  BY TermsListed
<1> DEFINE fs == [i \in DOMAIN terms |-> ExprWords(terms[i], V)]  g == ExprWords(ConjunctionSum(c), V)
<1>2. ASSUME NEW i \in DOMAIN terms PROVE Stepwise(ExprWords(terms[i], V), V)
  <2>1. terms \in Seq(TermSet(c, V))
    BY <1>1 DEF Lists
  <2>2. terms[i] \in TermSet(c, V)
    BY <2>1, RangeSeq
  <2>3. PICK S \in SUBSET V : terms[i] = Term(c[S], S)
    BY <2>2 DEF TermSet, Nonzero
  <2>4. c[S] \in Int
    OBVIOUS
  <2> QED BY <2>3, <2>4, TermSteps
<1>3. IsFiniteSet(DOMAIN terms)
  <2>1. DOMAIN terms = 1 .. Len(terms) /\ Len(terms) \in Nat
    BY <1>1 DEF AllOver
  <2> QED BY <2>1, FS_Interval
<1>4. AllStepwise(fs, V)
  BY <1>2, <1>3 DEF AllStepwise
<1>5. ASSUME NEW x \in Points(V)
      PROVE  g[x] \in Words /\ Modular(Num(g[x]), SumFunction(NumsAt(fs, x)))
  <2>1. g[x] = Eval(SumOfAll(terms), x)
    BY <1>1 DEF ExprWords
  <2>2. NumsAt(fs, x) = EvalNums(terms, x)
    BY DEF NumsAt, EvalNums, ExprWords
  <2> HIDE DEF g, fs
  <2> QED BY <1>1, <2>1, <2>2, SumOfAllWord
<1>6. g \in [Points(V) -> Words]
  <2>1. g = [x \in Points(V) |-> g[x]]
    BY DEF ExprWords
  <2> HIDE DEF g
  <2> QED BY <1>5, <2>1
<1> HIDE DEF g, fs
<1>7. Stepwise(g, V)
  BY <1>4, <1>5, <1>6, SumSteps
<1> QED BY <1>7 DEF g

(* A remainder that is not zero is not modular to zero. *)
LEMMA RestApart ==
  ASSUME NEW n \in Int, n % 2 ^ Width # 0
  PROVE  ~Modular(n % 2 ^ Width, 0)
<1> DEFINE m == 2 ^ Width  r == n % m
<1>1. m \in Nat \ {0}
  BY WidthAssumption, PowPositive
<1> HIDE DEF m
<1>2. r \in 0 .. m - 1 /\ r # 0
  BY <1>1, DivMod DEF m
<1> HIDE DEF r
<1> SUFFICES ASSUME Modular(r, 0) PROVE FALSE
  BY DEF r, m
<1>3. PICK q \in Int : r = 0 + m * q
  BY DEF Modular, Congruent, m
<1>4. (m * 0 + r) % m = r
  BY <1>1, <1>2, DivUnique
<1>5. (m * q + 0) % m = 0
  <2>1. 0 \in 0 .. m - 1
    BY <1>1
  <2> QED BY <1>1, <2>1, DivUnique
<1>6. m * 0 + r = m * q + 0
  <2> DEFINE p == m * q
  <2>1. p \in Int /\ r = 0 + p
    BY <1>1, <1>3
  <2> HIDE DEF p
  <2>2. m * 0 = 0
    BY <1>1
  <2>3. 0 + r = p + 0
    BY <2>1
  <2> QED BY <2>2, <2>3 DEF p
<1> QED BY <1>2, <1>4, <1>5, <1>6

(* The coefficients of the subsets of S add up to the signature at S, and those *)
(* not zero are not zero at the width.                                       *)
Solves(c, sig, V) ==
  /\ c \in [SUBSET V -> Int]
  /\ \A S \in SUBSET V : Modular(SumFunction([T \in SUBSET S |-> c[T]]), sig[S])
  /\ \A S \in SUBSET V : c[S] # 0 => ~Modular(c[S], 0)

(* Coefficients are such: each is what the smaller ones leave of the signature. *)
LEMMA CoefficientsSolve ==
  ASSUME NEW V, FiniteVars(V), NEW sig \in [SUBSET V -> Int]
  PROVE  Solves(Coefficients(sig, Width), sig, V)
<1> DEFINE c == Coefficients(sig, Width)
<1>1. c \in [SUBSET V -> Int] /\ \A S \in SUBSET V : c[S] = Remaining(sig, Width, c, S)
  <2>1. IsFiniteSet(V) /\ Width \in Nat
    BY WidthAssumption DEF FiniteVars
  <2>2. c \in [SUBSET V -> Int]
    BY <2>1, CoefficientsInt
  <2>3. Reduced(Coefficients(sig, Width), sig, Width, V)
    BY <2>1, CoefficientsInt
  <2> QED BY <2>2, <2>3 DEF Reduced
<1> HIDE DEF c
<1>2. ASSUME NEW S \in SUBSET V
      PROVE  /\ Modular(SumFunction([T \in SUBSET S |-> c[T]]), sig[S])
             /\ c[S] # 0 => ~Modular(c[S], 0)
  <2> DEFINE h == [T \in SUBSET S |-> c[T]]  P == (SUBSET S) \ {S}  l == [T \in P |-> c[T]]
             s == SumFunction(l)  n == sig[S] - s
  <2>1. IsFiniteSet(SUBSET S)
    BY FS_Subset, FS_SUBSET DEF FiniteVars
  <2>2. IntFunction(h, SUBSET S)
    <3>1. h \in [SUBSET S -> Int]
      BY <1>1
    <3> QED BY <2>1, <3>1 DEF IntFunction
  <2>3. Restrict(h, P) = l /\ h[S] = c[S] /\ S \in SUBSET S
    BY DEF Restrict
  <2>4. IntFunction(l, P)
    <3>1. P \in SUBSET SUBSET S
      OBVIOUS
    <3> HIDE DEF h, l, P
    <3> QED BY <2>2, <2>3, <3>1, RestrictInt
  <2>5. s \in Int
    <3> HIDE DEF l, P
    <3> QED BY <2>4, SumType
  <2>6. SumFunction(h) = c[S] + s
    <3> HIDE DEF h, l
    <3>1. SumFunction(h) = h[S] + SumFunction(Restrict(h, (SUBSET S) \ {S}))
      BY <2>2, <2>3, SumTake
    <3> QED BY <2>3, <3>1
  <2>7. c[S] = n % 2 ^ Width
    BY <1>1 DEF Remaining
  <2>8. sig[S] \in Int /\ n \in Int /\ c[S] \in Int
    BY <1>1, <2>5
  <2> HIDE DEF h, s
  <2>9. Modular(c[S], n)
    <3> HIDE DEF n
    <3> QED BY <2>7, <2>8, ModularRest
  <2>10. c[S] # 0 => ~Modular(c[S], 0)
    <3> HIDE DEF n
    <3> QED BY <2>7, <2>8, RestApart
  <2>11. Modular(c[S] + 1 * s, n + 1 * s)
    <3>1. Modular(s, s) /\ 1 \in Int
      BY <2>5, ModularSame
    <3> HIDE DEF n
    <3> QED BY <2>5, <2>8, <2>9, <3>1, ModularLinear
  <2>12. c[S] + 1 * s = SumFunction(h) /\ n + 1 * s = sig[S]
    BY <2>5, <2>6, <2>8
  <2> QED BY <2>10, <2>11, <2>12 DEF h
<1>3. Solves(c, sig, V)
  BY <1>1, <1>2 DEF Solves
<1> QED BY <1>3 DEF c

(* At a corner the sum of the terms is the sum of the coefficients below. *)
LEMMA ConjunctionSumAtCorner ==
  ASSUME NEW V, FiniteVars(V), NEW c, NEW sig, Solves(c, sig, V), NEW U \in SUBSET V
  PROVE  /\ Eval(ConjunctionSum(c), Corner(V, U)) \in Words
         /\ Modular(Num(Eval(ConjunctionSum(c), Corner(V, U))), SumFunction([T \in SUBSET U |-> c[T]]))
<1> DEFINE P == Nonzero(c, V)  D == TermSet(c, V)  x == Corner(V, U)
           h == [T \in SUBSET V |-> IF T \subseteq U THEN c[T] ELSE 0]
           low == [T \in SUBSET U |-> c[T]]
<1>0. c \in [SUBSET V -> Int] /\ \A S \in P : S \in SUBSET V /\ c[S] \in Int /\ ~Modular(c[S], 0)
  BY DEF Solves, Nonzero
<1>1. PICK terms : ConjunctionSum(c) = SumOfAll(terms) /\ Lists(terms, D) /\ AllOver(terms, V)
  BY <1>0, TermsListed
<1> DEFINE J == DOMAIN terms
           p == [i \in J |-> CHOOSE S \in P : terms[i] = Term(c[S], S)]
           g == [i \in J |-> h[p[i]]]
<1>2. ASSUME NEW i \in J PROVE p[i] \in P /\ terms[i] = Term(c[p[i]], p[i])
  <2>1. terms \in Seq(D)
    BY <1>1 DEF Lists
  <2>2. terms[i] \in D
    BY <2>1, RangeSeq
  <2>3. \E S \in P : terms[i] = Term(c[S], S)
    BY <2>2 DEF TermSet
  <2> HIDE DEF P
  <2> QED BY <2>3
<1>3. IsFiniteSet(SUBSET V) /\ IsFiniteSet(SUBSET U) /\ IsFiniteSet(J)
  <2>1. IsFiniteSet(V) /\ IsFiniteSet(U)
    BY FS_Subset DEF FiniteVars
  <2>2. DOMAIN terms = 1 .. Len(terms) /\ Len(terms) \in Nat
    BY <1>1 DEF AllOver
  <2>3. IsFiniteSet(J)
    BY <2>2, FS_Interval
  <2> QED BY <2>1, <2>3, FS_SUBSET
<1>4. \A T \in SUBSET V : h[T] \in Int
  BY <1>0
<1>5. IntFunction(h, SUBSET V) /\ IntFunction(low, SUBSET U)
  <2>1. h \in [SUBSET V -> Int] /\ low \in [SUBSET U -> Int]
    BY <1>0
  <2> HIDE DEF h, low
  <2> QED BY <1>3, <2>1 DEF IntFunction
<1>6. IntFunction(g, J)
  <2>1. \A i \in J : p[i] \in SUBSET V
    BY <1>0, <1>2
  <2> HIDE DEF h, p
  <2>2. g \in [J -> Int]
    BY <1>4, <2>1
  <2> HIDE DEF g, J
  <2> QED BY <1>3, <2>2 DEF IntFunction
<1> HIDE DEF p
<1>7. Renames(p, J, SUBSET V)
  <2>1. p \in [J -> SUBSET V]
    <3>1. p = [i \in J |-> p[i]]
      BY DEF p
    <3> HIDE DEF J
    <3> QED BY <1>0, <1>2, <3>1
  <2>2. ASSUME NEW i \in J, NEW j \in J, p[i] = p[j] PROVE i = j
    <3>1. terms[i] = terms[j]
      BY <1>2, <2>2
    <3> HIDE DEF D
    <3> QED BY <1>1, <3>1 DEF Lists
  <2> QED BY <2>1, <2>2 DEF Renames
<1>8. SameTerms(g, J, h, SUBSET V, p)
  <2>1. \A i \in J : g[i] = h[p[i]]
    OBVIOUS
  <2>2. ASSUME NEW T \in SUBSET V, \A i \in J : p[i] # T PROVE h[T] = 0
    <3> SUFFICES ASSUME c[T] # 0 PROVE FALSE
      OBVIOUS
    <3>1. T \in P /\ Term(c[T], T) \in D
      BY DEF Nonzero, TermSet
    <3>2. PICK i \in J : terms[i] = Term(c[T], T)
      <4> HIDE DEF D
      <4> QED BY <1>1, <3>1 DEF Lists
    <3>3. p[i] \in P /\ Term(c[p[i]], p[i]) = Term(c[T], T)
      BY <1>2, <3>2
    <3> HIDE DEF P
    <3>4. p[i] = T
      BY <1>0, <3>1, <3>3, TermsApart
    <3> QED BY <2>2, <3>4
  <2> HIDE DEF g, h
  <2> QED BY <2>1, <2>2 DEF SameTerms
<1>9. SumFunction(g) = SumFunction(h)
  <2> HIDE DEF g, h, J
  <2> QED BY <1>5, <1>6, <1>7, <1>8, SumRenamed
<1>10. SumFunction(low) = SumFunction(h)
  <2> DEFINE id == [T \in SUBSET U |-> T]
  <2>1. Renames(id, SUBSET U, SUBSET V)
    BY DEF Renames
  <2>2. SameTerms(low, SUBSET U, h, SUBSET V, id)
    <3>1. \A T \in SUBSET U : low[T] = h[id[T]]
      OBVIOUS
    <3>2. \A T \in SUBSET V : (\A R \in SUBSET U : id[R] # T) => h[T] = 0
      OBVIOUS
    <3> HIDE DEF low, h, id
    <3> QED BY <3>1, <3>2 DEF SameTerms
  <2> HIDE DEF low, h, id
  <2> QED BY <1>5, <2>1, <2>2, SumRenamed
<1>11. x \in Points(V)
  BY WidthAssumption DEF Corner, Points, Words, Bits
<1> HIDE DEF x
<1>12. /\ Eval(SumOfAll(terms), x) \in Words /\ IntFunction(EvalNums(terms, x), J)
       /\ Modular(Num(Eval(SumOfAll(terms), x)), SumFunction(EvalNums(terms, x)))
  BY <1>1, <1>11, SumOfAllWord
<1>13. \A i \in J : Modular(EvalNums(terms, x)[i], g[i])
  <2> TAKE i \in J
  <2>1. p[i] \in SUBSET V /\ c[p[i]] \in Int /\ terms[i] = Term(c[p[i]], p[i])
    BY <1>0, <1>2
  <2>2. Modular(Num(Eval(terms[i], x)), TermNum(c[p[i]], p[i], x))
    <3> DEFINE S == p[i]  k == c[p[i]]
    <3>1. S \in SUBSET V /\ k \in Int /\ terms[i] = Term(k, S)
      BY <2>1
    <3> HIDE DEF S, k
    <3>2. Modular(Num(Eval(Term(k, S), x)), TermNum(k, S, x))
      BY <1>11, <3>1, TermWord
    <3> QED BY <3>1, <3>2 DEF S, k
  <2>3. TermNum(c[p[i]], p[i], x) = IF p[i] \subseteq U THEN c[p[i]] ELSE 0
    BY <2>1, TermAtCorner DEF x
  <2>4. g[i] = IF p[i] \subseteq U THEN c[p[i]] ELSE 0
    BY <2>1
  <2>5. EvalNums(terms, x)[i] = Num(Eval(terms[i], x))
    BY DEF EvalNums
  <2> HIDE DEF g
  <2> QED BY <2>2, <2>3, <2>4, <2>5
<1>14. Modular(SumFunction(EvalNums(terms, x)), SumFunction(g))
  <2> HIDE DEF g, J
  <2> QED BY <1>6, <1>12, <1>13, ModularSum
<1>15. Modular(Num(Eval(SumOfAll(terms), x)), SumFunction(g))
  <2> HIDE DEF g, J
  <2>1. SumFunction(g) \in Int /\ SumFunction(EvalNums(terms, x)) \in Int
    BY <1>6, <1>12, SumType
  <2>2. 0 \in Nat
    OBVIOUS
  <2>3. Num(Eval(SumOfAll(terms), x)) \in Int
    BY <1>12, <2>2, LowInt
  <2> QED BY <1>12, <1>14, <2>1, <2>3, ModularSame
<1> HIDE DEF g, h, low
<1> QED BY <1>1, <1>9, <1>10, <1>12, <1>15 DEF x, low

(* The projection of a linear combination of bitwise functions has its words.  *)
LEMMA ProjectionExact ==
  ASSUME NEW e, WellFormed(e), LinearMba(e)
  PROVE  \A x \in Inputs(e) : Eval(Projection(e), x) = Eval(e, x)
<1> DEFINE V == VarsOf(e)  c == Coefficients(OnCube(e), Width)
           f == ExprWords(Projection(e), V)  g == ExprWords(e, V)
<1>1. FiniteVars(V) /\ OnCube(e) \in [SUBSET V -> Int]
  BY VarsFinite, OnCubeInt DEF FiniteVars
<1>2. Solves(c, OnCube(e), V)
  <2> HIDE DEF V
  <2> QED BY <1>1, CoefficientsSolve
<1>3. Projection(e) = ConjunctionSum(c)
  BY DEF Projection
<1>4. Stepwise(g, V)
  BY LinearIsStepwise
<1>5. Stepwise(f, V)
  <2> HIDE DEF V, c
  <2>1. c \in [SUBSET V -> Int]
    BY <1>2 DEF Solves
  <2> QED BY <1>1, <1>3, <2>1, ConjunctionSumSteps
<1>6. ASSUME NEW S \in SUBSET V PROVE f[Corner(V, S)] = g[Corner(V, S)]
  <2>1. Corner(V, S) \in Points(V)
    BY WidthAssumption DEF Corner, Points, Words, Bits
  <2>2. f[Corner(V, S)] = Eval(ConjunctionSum(c), Corner(V, S)) /\ g[Corner(V, S)] = Eval(e, Corner(V, S))
    BY <1>3, <2>1 DEF ExprWords
  <2>3. OnCube(e)[S] = Num(Eval(e, Corner(V, S)))
    BY DEF OnCube, Signature, Corner
  <2> HIDE DEF V, c, f, g
  <2>4. /\ Eval(ConjunctionSum(c), Corner(V, S)) \in Words
        /\ Modular(Num(Eval(ConjunctionSum(c), Corner(V, S))), SumFunction([T \in SUBSET S |-> c[T]]))
    BY <1>1, <1>2, ConjunctionSumAtCorner
  <2>5. Modular(SumFunction([T \in SUBSET S |-> c[T]]), OnCube(e)[S])
    BY <1>2 DEF Solves
  <2>6. Eval(e, Corner(V, S)) \in Words
    BY <1>4, <2>1, <2>2 DEF Stepwise
  <2> DEFINE a == Num(Eval(ConjunctionSum(c), Corner(V, S)))  b == SumFunction([T \in SUBSET S |-> c[T]])
             d == Num(Eval(e, Corner(V, S)))
  <2>7. a \in Int /\ d \in Int
    <3>1. 0 \in Nat
      OBVIOUS
    <3> QED BY <2>4, <2>6, <3>1, LowInt
  <2>8. b \in Int
    <3>1. IsFiniteSet(SUBSET S) /\ c \in [SUBSET V -> Int]
      BY <1>1, <1>2, FS_Subset, FS_SUBSET DEF FiniteVars, Solves
    <3>2. IntFunction([T \in SUBSET S |-> c[T]], SUBSET S)
      BY <3>1 DEF IntFunction
    <3> QED BY <3>2, SumType
  <2>9. Modular(a, b) /\ Modular(b, d)
    BY <2>3, <2>4, <2>5
  <2> HIDE DEF a, b, d
  <2>10. Modular(a, d)
    BY <2>7, <2>8, <2>9, ModularSame
  <2> QED BY <2>2, <2>4, <2>6, <2>10, ModularWords DEF a, d
<1>7. \A x \in Points(V) : f[x] = g[x]
  <2> HIDE DEF V, f, g
  <2> QED BY <1>4, <1>5, <1>6, CornersDetermine DEF AgreeAtCorners
<1> QED BY <1>7 DEF ExprWords, Points, Inputs

(* An expression is evaluated by the words of its variables only. *)
LEMMA EvalLocal ==
  ASSUME NEW e, WellFormed(e), NEW x, NEW y, \A v \in VarsOf(e) : x[v] = y[v]
  PROVE  Eval(e, x) = Eval(e, y)
<1> DEFINE ns == e.nodes  at == [i \in DOMAIN ns |-> i]
<1>1. Formed(ns) /\ e.root \in DOMAIN ns /\ \A v \in VarsIn(ns) : x[v] = y[v]
  BY DEF WellFormed, Formed, VarsOf
<1>2. \A i \in DOMAIN ns : at[i] = i
  OBVIOUS
<1>3. Copied(ns, ns, at)
  <2> SUFFICES ASSUME NEW i \in DOMAIN ns
               PROVE  ns[i].of = [j \in DOMAIN ns[i].of |-> at[ns[i].of[j]]]
    BY <1>2 DEF Copied
  <2>1. ns[i].of \in Seq(Nat) /\ \A j \in DOMAIN ns[i].of : at[ns[i].of[j]] = ns[i].of[j]
    BY <1>1, NodeForm
  <2>2. ns[i].of = [j \in DOMAIN ns[i].of |-> ns[i].of[j]]
    BY <2>1
  <2> HIDE DEF at
  <2> QED BY <2>1, <2>2
<1> HIDE DEF at, ns
<1>4. \A i \in DOMAIN ns : Values(ns, y)[at[i]] = Values(ns, x)[i]
  BY <1>1, <1>3, CopiesHaveTheValue
<1> QED BY <1>1, <1>2, <1>4 DEF Eval, ns

(* The one candidate of the two linear simplifiers is the projection. *)
ProjectedInv ==
  mode \in {"production", "linear"} =>
    /\ \A i \in DOMAIN queue : queue[i] = Projection(expression)
    /\ pc \in {"check", "scan", "decided"} => candidate = Projection(expression)

(* It is made by Generate and taken by Offer, and no other step changes it. *)
LEMMA ProjectedStep == FormInv /\ ProjectedInv /\ [Next]_vars => ProjectedInv'
<1> SUFFICES ASSUME FormInv, ProjectedInv, [Next]_vars PROVE ProjectedInv'
  OBVIOUS
<1>1. ASSUME UNCHANGED <<expression, candidate, mode, queue>>,
             pc' \in {"check", "scan", "decided"} => pc \in {"check", "scan", "decided"}
      PROVE  ProjectedInv'
  BY <1>1 DEF ProjectedInv
<1>2. CASE Refuse \/ Accept \/ PassOver \/ Exhausted
  BY <1>1, <1>2 DEF Refuse, Accept, PassOver, Exhausted, Finish
<1>3. CASE Generate
  <2> DEFINE projection == Projection(expression)
  <2>1. queue' = CandidatesFrom(projection, Affine(expression)) /\ pc' = "offer" /\ UNCHANGED <<expression, mode>>
    BY <1>3 DEF Generate, Candidates
  <2> SUFFICES ASSUME mode \in {"production", "linear"}, NEW i \in DOMAIN queue' PROVE queue'[i] = projection
    BY <2>1 DEF ProjectedInv
  <2>2. queue' = <<projection>> \/ queue' = <<>>
    <3> HIDE DEF projection
    <3> QED BY <2>1 DEF CandidatesFrom
  <2> HIDE DEF projection
  <2> QED BY <2>2
<1>4. CASE Offer
  <2>1. /\ queue # <<>> /\ candidate' = Head(queue) /\ queue' = Tail(queue) /\ pc' = "check"
        /\ UNCHANGED <<expression, mode>>
    BY <1>4 DEF Offer
  <2>2. queue \in Seq(Range(queue))
    BY DEF FormInv, QueueOver
  <2> DEFINE n == Len(queue)
  <2>3. n \in Nat \ {0} /\ DOMAIN queue = 1 .. n /\ Head(queue) = queue[1] /\ 1 \in 1 .. n
    BY <2>1, <2>2
  <2>4. \A i \in DOMAIN Tail(queue) : i + 1 \in DOMAIN queue /\ Tail(queue)[i] = queue[i + 1]
    BY <2>1, <2>2
  <2> HIDE DEF n
  <2> QED BY <2>1, <2>3, <2>4 DEF ProjectedInv
<1>5. CASE Certify /\ UNCHANGED <<mode, queue, unsure, result, failure>>
  <2>1. CASE OverVariables \/ Unfit \/ OverNodes \/ Begin
    BY <1>1, <1>5, <2>1 DEF OverVariables, Unfit, OverNodes, Begin, Decide
  <2>2. CASE NextBit
    BY <1>1, <1>5, <2>2 DEF NextBit, Decide
  <2>3. ASSUME NEW p \in todo, Explore(p) PROVE ProjectedInv'
    <3>1. pc = "scan" /\ UNCHANGED <<expression, candidate>>
      BY <2>3 DEF Explore, Decide
    <3> QED BY <1>1, <1>5, <3>1
  <2> QED BY <1>5, <2>1, <2>2, <2>3 DEF Certify
<1>6. CASE UNCHANGED vars
  BY <1>1, <1>6 DEF vars, certVars
<1> QED BY <1>2, <1>3, <1>4, <1>5, <1>6 DEF Next

(* A counterexample would tell an expression from its projection. *)
LEMMA NeverApart == ExactInv /\ ProjectedInv => LinearNeverRefuted
<1> SUFFICES ASSUME ExactInv, ProjectedInv, mode \in {"production", "linear"}, pc = "decided",
                    LinearMba(expression), verdict.kind = "differ"
             PROVE  FALSE
  BY DEF LinearNeverRefuted
<1> DEFINE V == VarsOf(expression)  y == verdict.values  x == [v \in V |-> y[v]]
<1>1. candidate = Projection(expression) /\ WellFormed(expression) /\ WellFormed(candidate) /\ VarsOf(candidate) \subseteq V
  BY DEF ProjectedInv, ExactInv, FormInv, Over
<1>2. x \in Inputs(expression)
  <2>1. \A v \in V : y[v] \in Words
    BY DEF ExactInv, FoundInv, AllVars
  <2> QED BY <2>1 DEF Inputs
<1>3. Eval(candidate, x) = Eval(expression, x)
  BY <1>1, <1>2, ProjectionExact
<1>4. \A v \in V : x[v] = y[v]
  OBVIOUS
<1> HIDE DEF x, y
<1>5. Eval(candidate, y) = Eval(candidate, x) /\ Eval(expression, y) = Eval(expression, x)
  BY <1>1, <1>4, EvalLocal
<1>6. (verdict.bit \in Eval(expression, y)) # (verdict.bit \in Eval(candidate, y))
  BY DifferMeansApart DEF CounterexampleReplays, y
<1> QED BY <1>3, <1>5, <1>6
-----------------------------------------------------------------------------
(* What is done is done, and until then the result is the expression.        *)
ResultInv ==
  /\ pc # "done" => result = expression
  /\ ResultExact

(* An accepted candidate was proved over the variables of the expression. *)
LEMMA AcceptExact == ExactInv /\ Accept => ResultInv'
<1> SUFFICES ASSUME ExactInv, Accept PROVE ResultInv'
  OBVIOUS
<1>1. /\ pc = "decided" /\ mode # "certify" /\ verdict.kind = "proved" /\ pc' = "done"
      /\ result' = candidate /\ UNCHANGED <<expression, candidate>>
  BY DEF Accept, Acceptable, Finish
<1>2. Over(candidate, VarsOf(expression))
  BY <1>1 DEF ExactInv, FormInv
<1>3. AllVars = VarsOf(expression)
  BY <1>2 DEF Over, AllVars
<1>4. \A x \in [AllVars -> Words] : Eval(expression, x) = Eval(candidate, x)
  BY <1>1, ProvedMeansEqual DEF ProvedIsEqual
<1>5. \A x \in Inputs(expression) : Eval(candidate, x) = Eval(expression, x)
  BY <1>3, <1>4 DEF Inputs
<1> QED BY <1>1, <1>5 DEF ResultInv, ResultExact

(* Only an accepted candidate replaces the expression. *)
LEMMA ResultStep == ExactInv /\ ResultInv /\ [Next]_vars => ResultInv'
<1> SUFFICES ASSUME ExactInv, ResultInv, [Next]_vars PROVE ResultInv'
  OBVIOUS
<1>1. ASSUME pc' # "done", pc # "done", UNCHANGED <<expression, result>> PROVE ResultInv'
  BY <1>1 DEF ResultInv, ResultExact
<1>2. ASSUME result' = expression, expression' = expression PROVE ResultInv'
  BY <1>2 DEF ResultInv, ResultExact
<1>3. CASE Refuse \/ Exhausted
  BY <1>2, <1>3 DEF Refuse, Exhausted, Finish
<1>4. CASE Generate \/ Offer \/ PassOver
  BY <1>1, <1>4 DEF Generate, Offer, PassOver
<1>5. CASE Accept
  BY <1>5, AcceptExact
<1>6. CASE Certify /\ UNCHANGED <<mode, queue, unsure, result, failure>>
  <2>1. CASE OverVariables \/ Unfit \/ OverNodes \/ Begin
    BY <1>1, <1>6, <2>1 DEF OverVariables, Unfit, OverNodes, Begin, Decide
  <2>2. CASE NextBit
    BY <1>1, <1>6, <2>2 DEF NextBit, Decide
  <2>3. ASSUME NEW p \in todo, Explore(p) PROVE ResultInv'
    <3>1. pc = "scan" /\ (pc' = "decided" \/ pc' = pc) /\ expression' = expression
      BY <2>3 DEF Explore, Decide
    <3> QED BY <1>1, <1>6, <3>1
  <2> QED BY <1>6, <2>1, <2>2, <2>3 DEF Certify
<1>7. CASE UNCHANGED vars
  BY <1>7 DEF ResultInv, ResultExact, vars, certVars
<1> QED BY <1>3, <1>4, <1>5, <1>6, <1>7 DEF Next

(* "Proved" means equal: an expression proved equal to the candidate has its   *)
(* value on every input, at every width and for every pair of expressions.   *)
THEOREM ProvedPairsAreEqual == Spec => []ProvedIsEqual
  BY ExactAlways, ProvedMeansEqual, PTL

(* A counterexample tells the words of the two expressions apart at its bit,   *)
(* and no input does at a lower one.                                         *)
THEOREM CounterexamplesReplay == Spec => []CounterexampleReplays
  BY ExactAlways, DifferMeansApart, PTL

(* A carry vector reached holds, for each node that adds or scales, what the   *)
(* words so far would carry as numbers.                                      *)
THEOREM CarriesAreTheQuotients == Spec => []CarriesAreQuotients
  BY ExactAlways, CarriesMean, PTL

(* What any simplifier built on the certifier returns has the value of the    *)
(* expression it was given, whatever the limits.                             *)
THEOREM ResultsAreExact == Spec => []ResultExact
<1>1. Init => ResultInv
  BY DEF Init, ResultInv, ResultExact
<1>2. ExactInv /\ ModeInv /\ ResultInv /\ [Next]_vars => ResultInv'
  BY ResultStep
<1>3. ResultInv => ResultExact
  BY DEF ResultInv
<1> QED BY <1>1, <1>2, <1>3, ExactAlways, PTL DEF Spec

(* A sum of multiples of constants and of bitwise functions, simplified by its *)
(* own projection, never gets a counterexample: the interpolation on the cube *)
(* of zeros and ones is exact, at every width and for any number of variables. *)
THEOREM LinearIsNeverRefuted == Spec => []LinearNeverRefuted
<1>1. Init => ProjectedInv
  BY DEF Init, ProjectedInv
<1>2. ExactInv /\ ProjectedInv /\ [Next]_vars => ProjectedInv'
  BY ProjectedStep DEF ExactInv
<1>3. ExactInv /\ ProjectedInv => LinearNeverRefuted
  BY NeverApart
<1> QED BY <1>1, <1>2, <1>3, ExactAlways, PTL DEF Spec

-----------------------------------------------------------------------------
(* Rows of n integers, and the inner product of two, which Dot is the         *)
(* remainder of.                                                             *)
Row(n) == [1 .. n -> Int]
Inner(u, v, n) == SumFunction([j \in 1 .. n |-> u[j] * v[j]])

(* The inner product is an integer. *)
LEMMA InnerInt ==
  ASSUME NEW n \in Nat, NEW u \in Row(n), NEW v \in Row(n)
  PROVE  IntFunction([j \in 1 .. n |-> u[j] * v[j]], 1 .. n) /\ Inner(u, v, n) \in Int
<1> DEFINE f == [j \in 1 .. n |-> u[j] * v[j]]
<1>1. IsFiniteSet(1 .. n)
  BY FS_Interval
<1>2. f \in [1 .. n -> Int]
  BY DEF Row
<1>3. IntFunction(f, 1 .. n)
  BY <1>1, <1>2 DEF IntFunction
<1> HIDE DEF f
<1>4. SumFunction(f) \in Int
  BY <1>3, SumType
<1> QED BY <1>3, <1>4 DEF f, Inner

(* Multiplication commutes. *)
LEMMA InnerSwaps ==
  ASSUME NEW n \in Nat, NEW u \in Row(n), NEW v \in Row(n)
  PROVE  Inner(u, v, n) = Inner(v, u, n)
<1>1. [j \in 1 .. n |-> u[j] * v[j]] = [j \in 1 .. n |-> v[j] * u[j]]
  <2>1. \A j \in 1 .. n : u[j] * v[j] = v[j] * u[j]
    BY DEF Row
  <2> QED BY <2>1
<1> QED BY <1>1 DEF Inner

(* A row is another and a multiple of a third. *)
Combines(w, u, d, v, n) == \A j \in 1 .. n : w[j] = u[j] + d * v[j]

(* The inner product is linear. *)
LEMMA InnerLinear ==
  ASSUME NEW n \in Nat, NEW u \in Row(n), NEW v \in Row(n), NEW w \in Row(n), NEW x \in Row(n),
         NEW d \in Int, Combines(w, u, d, v, n)
  PROVE  Inner(w, x, n) = Inner(u, x, n) + d * Inner(v, x, n)
<1> DEFINE f == [j \in 1 .. n |-> u[j] * x[j]]
           g == [j \in 1 .. n |-> v[j] * x[j]]
           h == [j \in 1 .. n |-> w[j] * x[j]]
<1>1. IntFunction(f, 1 .. n) /\ IntFunction(g, 1 .. n) /\ IntFunction(h, 1 .. n)
  BY InnerInt
<1>2. ASSUME NEW j \in 1 .. n PROVE h[j] = f[j] + d * g[j]
  <2> DEFINE a == u[j]  b == v[j]  y == x[j]
  <2>1. a \in Int /\ b \in Int /\ y \in Int /\ w[j] = a + d * b
    BY DEF Row, Combines
  <2>2. h[j] = w[j] * y /\ f[j] = a * y /\ g[j] = b * y
    OBVIOUS
  <2> HIDE DEF a, b, y, f, g, h
  <2>3. (a + d * b) * y = a * y + d * (b * y)
    BY <2>1
  <2> QED BY <2>1, <2>2, <2>3
<1> HIDE DEF f, g, h
<1>3. SumFunction(h) = SumFunction(f) + d * SumFunction(g)
  BY <1>1, <1>2, SumLinear
<1> QED BY <1>3 DEF f, g, h, Inner

(* Rows congruent entry by entry. *)
CongruentRows(u, v, n, m) == \A j \in 1 .. n : Congruent(u[j], v[j], m)

(* They have congruent inner products. *)
LEMMA InnerCongruent ==
  ASSUME NEW n \in Nat, NEW m \in Int, NEW u \in Row(n), NEW v \in Row(n), NEW x \in Row(n),
         CongruentRows(u, v, n, m)
  PROVE  Congruent(Inner(u, x, n), Inner(v, x, n), m)
<1> DEFINE f == [j \in 1 .. n |-> u[j] * x[j]]
           g == [j \in 1 .. n |-> v[j] * x[j]]
<1>1. IntFunction(f, 1 .. n) /\ IntFunction(g, 1 .. n)
  BY InnerInt
<1>2. ASSUME NEW j \in 1 .. n PROVE Congruent(f[j], g[j], m)
  <2> DEFINE a == u[j]  b == v[j]  y == x[j]
  <2>1. a \in Int /\ b \in Int /\ y \in Int /\ Congruent(a, b, m)
    BY DEF Row, CongruentRows
  <2>2. f[j] = y * a /\ g[j] = y * b
    <3>1. a * y = y * a /\ b * y = y * b
      BY <2>1
    <3>2. f[j] = a * y /\ g[j] = b * y
      OBVIOUS
    <3> QED BY <3>1, <3>2
  <2> HIDE DEF a, b, y, f, g
  <2> QED BY <2>1, <2>2, CongruentTimes
<1> HIDE DEF f, g
<1>3. Congruent(SumFunction(f), SumFunction(g), m)
  BY <1>1, <1>2, CongruentSum
<1> QED BY <1>3 DEF f, g, Inner

(* A row with one entry that is not zero takes that one of the other. *)
OnlyAt(u, r, n) == \A j \in 1 .. n : j # r => u[j] = 0

(* The inner product is that of the two entries. *)
LEMMA InnerOnly ==
  ASSUME NEW n \in Nat, NEW u \in Row(n), NEW x \in Row(n), NEW r \in 1 .. n, OnlyAt(u, r, n)
  PROVE  Inner(u, x, n) = u[r] * x[r]
<1> DEFINE D == 1 .. n
           f == [j \in D |-> u[j] * x[j]]
           g == Restrict(f, D \ {r})
<1>1. IntFunction(f, D)
  BY InnerInt
<1>2. \A j \in D \ {r} : f[j] = 0
  <2> TAKE j \in D \ {r}
  <2>1. u[j] = 0 /\ x[j] \in Int
    BY DEF OnlyAt, Row
  <2> QED BY <2>1
<1>3. f[r] = u[r] * x[r] /\ f[r] \in Int
  BY DEF Row
<1> HIDE DEF f, D
<1>4. r \in D /\ D \ {r} \in SUBSET D
  BY DEF D
<1>5. IntFunction(g, D \ {r})
  BY <1>1, <1>4, RestrictInt
<1>6. \A j \in D \ {r} : g[j] = 0
  BY <1>2 DEF Restrict
<1>7. SumFunction(f) = f[r] + SumFunction(g)
  BY <1>1, <1>4, SumTake
<1> HIDE DEF g
<1>8. SumFunction(g) = 0
  BY <1>5, <1>6, SumZeros
<1>9. SumFunction(f) = f[r]
  BY <1>3, <1>7, <1>8
<1> QED BY <1>3, <1>9 DEF f, D, Inner

(* A row of zeros takes nothing. *)
LEMMA InnerNone ==
  ASSUME NEW n \in Nat, NEW u \in Row(n), NEW x \in Row(n), \A j \in 1 .. n : u[j] = 0
  PROVE  Inner(u, x, n) = 0
<1> DEFINE f == [j \in 1 .. n |-> u[j] * x[j]]
<1>1. IntFunction(f, 1 .. n)
  BY InnerInt
<1>2. \A j \in 1 .. n : f[j] = 0
  BY DEF Row
<1> HIDE DEF f
<1>3. SumFunction(f) = 0
  BY <1>1, <1>2, SumZeros
<1> QED BY <1>3 DEF f, Inner

(* Two entries change places in both rows or in neither. *)
LEMMA SwapForm ==
  ASSUME NEW n \in Nat, NEW S, NEW u \in [1 .. n -> S], NEW i \in 1 .. n, NEW k \in 1 .. n
  PROVE  /\ Swap(u, i, k) \in [1 .. n -> S]
         /\ Swap(u, i, k)[i] = u[k] /\ Swap(u, i, k)[k] = u[i]
         /\ \A j \in 1 .. n : j # i /\ j # k => Swap(u, i, k)[j] = u[j]
         /\ Swap(Swap(u, i, k), i, k) = u
BY DEF Swap

(* So the inner product with a swapped row is one with the other swapped. *)
LEMMA InnerSwapped ==
  ASSUME NEW n \in Nat, NEW u \in Row(n), NEW x \in Row(n), NEW i \in 1 .. n, NEW k \in 1 .. n
  PROVE  Inner(Swap(u, i, k), x, n) = Inner(u, Swap(x, i, k), n)
<1> DEFINE D == 1 .. n
           f == [j \in D |-> Swap(u, i, k)[j] * x[j]]
           g == [j \in D |-> u[j] * Swap(x, i, k)[j]]
           p == [j \in D |-> IF j = i THEN k ELSE IF j = k THEN i ELSE j]
<1>1. Swap(u, i, k) \in Row(n) /\ Swap(x, i, k) \in Row(n)
  BY SwapForm DEF Row
<1>2. IntFunction(f, D) /\ IntFunction(g, D)
  BY <1>1, InnerInt
<1>3. Renames(p, D, D)
  BY DEF Renames
<1>4. \A j \in D : f[j] = g[p[j]]
  <2> TAKE j \in D
  <2> DEFINE a == Swap(u, i, k)  b == Swap(x, i, k)
  <2>1. /\ a[i] = u[k] /\ a[k] = u[i] /\ (j # i /\ j # k => a[j] = u[j])
        /\ b[i] = x[k] /\ b[k] = x[i] /\ (j # i /\ j # k => b[j] = x[j])
    <3> HIDE DEF a, b
    <3>1. u \in [1 .. n -> Int] /\ x \in [1 .. n -> Int]
      BY DEF Row
    <3>2. a[i] = u[k] /\ a[k] = u[i] /\ (j # i /\ j # k => a[j] = u[j])
      BY <3>1 DEF Swap, a
    <3>3. b[i] = x[k] /\ b[k] = x[i] /\ (j # i /\ j # k => b[j] = x[j])
      BY <3>1 DEF Swap, b
    <3> QED BY <3>2, <3>3
  <2>2. f[j] = a[j] * x[j] /\ \A e \in D : g[e] = u[e] * b[e]
    OBVIOUS
  <2>3. i \in D /\ k \in D /\ p[j] = IF j = i THEN k ELSE IF j = k THEN i ELSE j
    OBVIOUS
  <2> HIDE DEF a, b, f, g, p
  <2> QED BY <2>1, <2>2, <2>3
<1>5. \A e \in D : \E j \in D : p[j] = e
  <2> TAKE e \in D
  <2>1. p[p[e]] = e /\ p[e] \in D
    OBVIOUS
  <2> QED BY <2>1
<1>6. SameTerms(f, D, g, D, p)
  BY <1>4, <1>5 DEF SameTerms
<1> HIDE DEF f, g, p, D
<1>7. SumFunction(f) = SumFunction(g)
  BY <1>2, <1>3, <1>6, SumRenamed
<1> QED BY <1>7 DEF f, g, D, Inner

(* Dot is the remainder of the inner product. *)
Vector(n) == [1 .. n -> Residues]

(* The modulus is positive. *)
LEMMA ModulusPositive == Modulus \in Nat \ {0}
  BY SystemAssumption, PowPositive DEF Modulus

(* Vectors are rows. *)
LEMMA VectorRow == \A n \in Nat : \A x \in Vector(n) : x \in Row(n) /\ DOMAIN x = 1 .. n
  BY ModulusPositive DEF Vector, Row, Residues

(* So equal products are congruent ones. *)
LEMMA DotInner ==
  ASSUME NEW n \in Nat, NEW u \in Row(n), NEW x \in Row(n)
  PROVE  /\ Dot(u, x) \in Residues
         /\ \A b \in Residues : Dot(u, x) = b <=> Congruent(Inner(u, x, n), b, Modulus)
         /\ \A v, y \in Row(n) :
              Dot(u, x) = Dot(v, y) <=> Congruent(Inner(u, x, n), Inner(v, y, n), Modulus)
<1>1. \A v, y \in Row(n) : Dot(v, y) = Inner(v, y, n) % Modulus
  BY DEF Dot, Inner, Row
<1>2. \A v, y \in Row(n) : Inner(v, y, n) \in Int
  BY InnerInt
<1> DEFINE m == Modulus
<1>3. m \in Nat \ {0}
  BY ModulusPositive
<1>4. Inner(u, x, n) % m \in 0 .. m - 1
  BY <1>2, <1>3, CongruentRest
<1>5. \A b \in 0 .. m - 1 : Inner(u, x, n) % m = b <=> Congruent(Inner(u, x, n), b, m)
  BY <1>2, <1>3, RestIs
<1>6. ASSUME NEW v \in Row(n), NEW y \in Row(n)
      PROVE  Inner(u, x, n) % m = Inner(v, y, n) % m <=> Congruent(Inner(u, x, n), Inner(v, y, n), m)
  BY <1>2, <1>3, SameRest
<1> QED BY <1>1, <1>4, <1>5, <1>6 DEF Residues

(* A row reduced entry by entry. *)
ReducedRow(u, w, n) == \A j \in 1 .. n : u[j] = w[j] % Modulus

(* Reducing keeps the inner product, modulo the modulus. *)
LEMMA InnerReduced ==
  ASSUME NEW n \in Nat, NEW u \in Vector(n), NEW w \in Row(n), NEW x \in Vector(n), ReducedRow(u, w, n)
  PROVE  Congruent(Inner(u, x, n), Inner(w, x, n), Modulus)
<1>1. u \in Row(n) /\ x \in Row(n) /\ Modulus \in Nat \ {0}
  BY VectorRow, ModulusPositive
<1>2. ASSUME NEW j \in 1 .. n PROVE Congruent(u[j], w[j], Modulus)
  <2>1. w[j] \in Int /\ u[j] = w[j] % Modulus
    BY DEF Row, ReducedRow
  <2> QED BY <1>1, <2>1, CongruentRest
<1>3. CongruentRows(u, w, n, Modulus)
  BY <1>2 DEF CongruentRows
<1> QED BY <1>1, <1>3, InnerCongruent

(* A row times a number. *)
LEMMA RowTimesForm ==
  ASSUME NEW n \in Nat, NEW u \in Vector(n), NEW c \in Int
  PROVE  /\ RowTimes(u, c) \in Vector(n)
         /\ \A j \in 1 .. n : RowTimes(u, c)[j] = (u[j] * c) % Modulus
         /\ \A x \in Vector(n) : Congruent(Inner(RowTimes(u, c), x, n), c * Inner(u, x, n), Modulus)
<1> DEFINE f == [j \in 1 .. n |-> (u[j] * c) % Modulus]
           w == [j \in 1 .. n |-> u[j] * c]
           z == [j \in 1 .. n |-> 0]
<1>1. \A j \in 1 .. n : u[j] \in Int /\ u[j] * c \in Int
  BY VectorRow DEF Row
<1>2. w \in Row(n) /\ z \in Row(n) /\ u \in Row(n)
  BY <1>1, VectorRow DEF Row
<1>3. f \in [1 .. n -> Residues]
  <2>1. ASSUME NEW j \in 1 .. n PROVE (u[j] * c) % Modulus \in Residues
    BY <1>1, ModulusPositive, CongruentRest DEF Residues
  <2> QED BY <2>1
<1>4. RowTimes(u, c) = f
  <2>1. RowTimes(u, c) = f \o <<>>
    BY DEF RowTimes, Vector
  <2> HIDE DEF f
  <2> QED BY <1>3, <2>1, Padded
<1>5. \A j \in 1 .. n : f[j] = w[j] % Modulus /\ w[j] = z[j] + c * u[j] /\ z[j] = 0
  <2>1. \A j \in 1 .. n : u[j] * c = 0 + c * u[j]
    BY <1>1
  <2> QED BY <2>1
<1>6. \A j \in 1 .. n : f[j] = (u[j] * c) % Modulus
  OBVIOUS
<1> HIDE DEF f, w, z
<1>7. ASSUME NEW x \in Vector(n) PROVE Congruent(Inner(f, x, n), c * Inner(u, x, n), Modulus)
  <2>1. x \in Row(n)
    BY VectorRow
  <2>2. Inner(z, x, n) = 0 /\ Inner(u, x, n) \in Int
    BY <1>2, <1>5, <2>1, InnerNone, InnerInt
  <2>3. Inner(w, x, n) = Inner(z, x, n) + c * Inner(u, x, n)
    <3>1. Combines(w, z, c, u, n)
      BY <1>5 DEF Combines
    <3> QED BY <1>2, <2>1, <3>1, InnerLinear
  <2>4. Inner(w, x, n) = c * Inner(u, x, n)
    <3> DEFINE a == c * Inner(u, x, n)
    <3>1. a \in Int
      BY <2>2
    <3> HIDE DEF a
    <3>2. Inner(w, x, n) = a
      BY <2>2, <2>3, <3>1 DEF a
    <3> QED BY <3>2 DEF a
  <2>5. ReducedRow(f, w, n) /\ f \in Vector(n)
    BY <1>3, <1>5 DEF ReducedRow, Vector
  <2> QED BY <1>2, <2>4, <2>5, InnerReduced
<1> QED BY <1>3, <1>4, <1>6, <1>7 DEF Vector

(* A row less a multiple of another. *)
LEMMA LessForm ==
  ASSUME NEW n \in Nat, NEW u \in Vector(n), NEW v \in Vector(n), NEW q \in Int
  PROVE  /\ Less0(u, q, v) \in Vector(n)
         /\ \A j \in 1 .. n : Less0(u, q, v)[j] = (u[j] - q * v[j]) % Modulus
         /\ \A x \in Vector(n) :
              Congruent(Inner(Less0(u, q, v), x, n), Inner(u, x, n) - q * Inner(v, x, n), Modulus)
<1> DEFINE f == [j \in 1 .. n |-> (u[j] - q * v[j]) % Modulus]
           w == [j \in 1 .. n |-> u[j] - q * v[j]]
           d == -q
<1>1. \A j \in 1 .. n : u[j] \in Int /\ v[j] \in Int
  BY VectorRow DEF Row
<1>2. w \in Row(n) /\ u \in Row(n) /\ v \in Row(n) /\ d \in Int
  BY <1>1, VectorRow DEF Row
<1>3. f \in [1 .. n -> Residues]
  <2>1. ASSUME NEW j \in 1 .. n PROVE (u[j] - q * v[j]) % Modulus \in Residues
    <3>1. u[j] - q * v[j] \in Int
      BY <1>1
    <3> QED BY <3>1, ModulusPositive, CongruentRest DEF Residues
  <2> QED BY <2>1
<1>4. Less0(u, q, v) = f
  <2>1. Less0(u, q, v) = f \o <<>>
    BY DEF Less0, Vector
  <2> HIDE DEF f
  <2> QED BY <1>3, <2>1, Padded
<1>5. \A j \in 1 .. n : f[j] = w[j] % Modulus /\ w[j] = u[j] + d * v[j]
  <2>1. \A j \in 1 .. n : u[j] - q * v[j] = u[j] + (-q) * v[j]
    BY <1>1
  <2> QED BY <2>1
<1>6. \A j \in 1 .. n : f[j] = (u[j] - q * v[j]) % Modulus
  OBVIOUS
<1>7. \A y, z \in Int : y + d * z = y - q * z
  OBVIOUS
<1> HIDE DEF f, w, d
<1>8. ASSUME NEW x \in Vector(n)
      PROVE  Congruent(Inner(f, x, n), Inner(u, x, n) - q * Inner(v, x, n), Modulus)
  <2>1. x \in Row(n)
    BY VectorRow
  <2>2. Inner(w, x, n) = Inner(u, x, n) + d * Inner(v, x, n)
    <3>1. Combines(w, u, d, v, n)
      BY <1>5 DEF Combines
    <3> QED BY <1>2, <2>1, <3>1, InnerLinear
  <2>3. Inner(w, x, n) = Inner(u, x, n) - q * Inner(v, x, n)
    BY <1>2, <1>7, <2>1, <2>2, InnerInt
  <2>4. ReducedRow(f, w, n) /\ f \in Vector(n)
    BY <1>3, <1>5 DEF ReducedRow, Vector
  <2> QED BY <1>2, <2>3, <2>4, InnerReduced
<1> QED BY <1>3, <1>4, <1>6, <1>8 DEF Vector

(* A system of m rows and n columns, and what solves it. *)
IsMatrix(a, m, n) == m \in Nat \ {0} /\ n \in Nat \ {0} /\ a \in [1 .. m -> Vector(n)]
IsSystem(a, b, m, n) == IsMatrix(a, m, n) /\ b \in Vector(m)
Solved(a, b, x, m, n) == \A i \in 1 .. m : Congruent(Inner(a[i], x, n), b[i], Modulus)
SameSolutions(a, b, c, d, m, n) ==
  \A x \in Vector(n) : Solved(a, b, x, m, n) <=> Solved(c, d, x, m, n)

(* There are rows and columns. *)
LEMMA Sizes ==
  ASSUME NEW a, NEW m, NEW n, IsMatrix(a, m, n)
  PROVE  m \in Nat /\ n \in Nat /\ 1 \in 1 .. m /\ 1 \in 1 .. n /\ Modulus \in Nat \ {0} /\ Modulus \in Int
BY ModulusPositive DEF IsMatrix

(* The right sides are numbers. *)
LEMMA Sides ==
  ASSUME NEW a, NEW b, NEW m, NEW n, IsSystem(a, b, m, n)
  PROVE  IsMatrix(a, m, n) /\ \A i \in 1 .. m : b[i] \in Residues /\ b[i] \in Int
<1>1. IsMatrix(a, m, n) /\ b \in [1 .. m -> Residues]
  BY DEF IsSystem, Vector
<1>2. \A i \in 1 .. m : b[i] \in Residues
  BY <1>1
<1>3. \A e \in Residues : e \in Int
  BY ModulusPositive DEF Residues
<1> QED BY <1>1, <1>2, <1>3

(* Where there is a system there are rows. *)
LEMMA SystemRows ==
  ASSUME NEW a, NEW m, NEW n, IsMatrix(a, m, n)
  PROVE  /\ \A i \in 1 .. m : a[i] \in Vector(n) /\ a[i] \in Row(n) /\ Len(a[i]) = n
         /\ \A i \in 1 .. m : \A j \in 1 .. n : a[i][j] \in Residues /\ a[i][j] \in Int
         /\ \A i \in 1 .. m : \A x \in Vector(n) : Inner(a[i], x, n) \in Int
         /\ DOMAIN a = 1 .. m /\ Len(a) = m
<1>1. ASSUME NEW i \in 1 .. m PROVE a[i] \in Vector(n) /\ a[i] \in Row(n) /\ Len(a[i]) = n
  <2>1. a[i] \in Vector(n) /\ n \in Nat
    BY DEF IsMatrix
  <2> QED BY <2>1, VectorRow, Padded DEF Vector
<1>2. ASSUME NEW i \in 1 .. m, NEW j \in 1 .. n PROVE a[i][j] \in Residues /\ a[i][j] \in Int
  BY <1>1 DEF Vector, Row
<1>3. ASSUME NEW i \in 1 .. m, NEW x \in Vector(n) PROVE Inner(a[i], x, n) \in Int
  BY <1>1, VectorRow, InnerInt DEF IsMatrix
<1>4. DOMAIN a = 1 .. m /\ Len(a) = m
  BY Padded DEF IsMatrix
<1> QED BY <1>1, <1>2, <1>3, <1>4

(* What the solutions of a system are. *)
LEMMA SolutionsAre ==
  ASSUME NEW a, NEW b, NEW m, NEW n, IsSystem(a, b, m, n)
  PROVE  /\ \A x \in Vector(n) : Product0(a, x) = b <=> Solved(a, b, x, m, n)
         /\ \A sys : sys.matrix = a /\ sys.rhs = b =>
              SolutionsOf(sys) = {x \in Vector(n) : Solved(a, b, x, m, n)}
<1>1. IsMatrix(a, m, n) /\ b \in [1 .. m -> Residues] /\ m \in Nat /\ n \in Nat /\ 1 \in 1 .. m
  BY DEF IsSystem, IsMatrix, Vector
<1>2. ASSUME NEW x \in Vector(n) PROVE Product0(a, x) = b <=> Solved(a, b, x, m, n)
  <2>1. Product0(a, x) = [i \in 1 .. m |-> Dot(a[i], x)]
    BY <1>1, SystemRows DEF Product0
  <2>2. Product0(a, x) = b <=> \A i \in 1 .. m : Dot(a[i], x) = b[i]
    BY <1>1, <2>1
  <2>3. ASSUME NEW i \in 1 .. m PROVE Dot(a[i], x) = b[i] <=> Congruent(Inner(a[i], x, n), b[i], Modulus)
    BY <1>1, SystemRows, VectorRow, DotInner
  <2> QED BY <2>2, <2>3 DEF Solved
<1>3. ASSUME NEW sys, sys.matrix = a, sys.rhs = b
      PROVE  SolutionsOf(sys) = {x \in Vector(n) : Solved(a, b, x, m, n)}
  <2>1. Len(sys.matrix[1]) = n
    BY <1>1, <1>3, SystemRows
  <2>2. SolutionsOf(sys) = {x \in Vector(n) : Product0(a, x) = b}
    BY <1>3, <2>1 DEF SolutionsOf, Vectors, Vector
  <2> QED BY <1>2, <2>2
<1> QED BY <1>2, <1>3

(* Two rows change places. *)
LEMMA RowsSwapped ==
  ASSUME NEW a, NEW b, NEW m, NEW n, IsSystem(a, b, m, n), NEW r \in 1 .. m, NEW p \in 1 .. m
  PROVE  /\ IsSystem(Swap(a, r, p), Swap(b, r, p), m, n)
         /\ SameSolutions(a, b, Swap(a, r, p), Swap(b, r, p), m, n)
<1> DEFINE c == Swap(a, r, p)  d == Swap(b, r, p)
<1>1. a \in [1 .. m -> Vector(n)] /\ b \in [1 .. m -> Residues]
  BY DEF IsSystem, IsMatrix, Vector
<1>2. c \in [1 .. m -> Vector(n)] /\ d \in [1 .. m -> Residues]
  BY <1>1 DEF Swap
<1>3. /\ c[r] = a[p] /\ c[p] = a[r] /\ \A i \in 1 .. m : i # r /\ i # p => c[i] = a[i]
      /\ d[r] = b[p] /\ d[p] = b[r] /\ \A i \in 1 .. m : i # r /\ i # p => d[i] = b[i]
  BY <1>1 DEF Swap
<1>4. IsSystem(c, d, m, n)
  BY <1>2 DEF IsSystem, IsMatrix, Vector
<1> HIDE DEF c, d
<1>5. ASSUME NEW x \in Vector(n) PROVE Solved(a, b, x, m, n) <=> Solved(c, d, x, m, n)
  <2> DEFINE E(i) == Congruent(Inner(a[i], x, n), b[i], Modulus)
             F(i) == Congruent(Inner(c[i], x, n), d[i], Modulus)
  <2>1. (F(r) <=> E(p)) /\ (F(p) <=> E(r)) /\ \A i \in 1 .. m : i # r /\ i # p => (F(i) <=> E(i))
    BY <1>3
  <2>2. (Solved(a, b, x, m, n) <=> \A i \in 1 .. m : E(i)) /\ (Solved(c, d, x, m, n) <=> \A i \in 1 .. m : F(i))
    BY DEF Solved
  <2> HIDE DEF E, F
  <2> QED BY <2>1, <2>2
<1> QED BY <1>4, <1>5 DEF SameSolutions, c, d

(* A number with an inverse. *)
Unit(c) == c \in Int /\ \E d \in Int : Congruent(d * c, 1, Modulus)

(* It can be taken out of a congruence. *)
LEMMA UnitCancels ==
  ASSUME NEW c, Unit(c), NEW y \in Int, NEW z \in Int
  PROVE  Congruent(c * y, c * z, Modulus) <=> Congruent(y, z, Modulus)
<1>1. c \in Int /\ Modulus \in Int
  BY ModulusPositive DEF Unit
<1>2. PICK d \in Int : Congruent(d * c, 1, Modulus)
  BY DEF Unit
<1>3. ASSUME NEW w \in Int PROVE Congruent(d * (c * w), w, Modulus) /\ d * (c * w) \in Int
  <2> DEFINE e == d * c
  <2>1. e \in Int /\ Congruent(e, 1, Modulus)
    BY <1>1, <1>2
  <2> HIDE DEF e
  <2>2. Congruent(w * e, w, Modulus)
    <3> DEFINE o == 1
    <3>1. o \in Int /\ Congruent(e, o, Modulus) /\ w * o = w
      BY <2>1
    <3> HIDE DEF o
    <3>2. Congruent(w * e, w * o, Modulus)
      BY <1>1, <2>1, <3>1, CongruentTimes
    <3> QED BY <3>1, <3>2
  <2>4. w * e = d * (c * w)
    <3>1. w * (d * c) = d * (c * w)
      BY <1>1
    <3> QED BY <3>1 DEF e
  <2>5. d * (c * w) \in Int
    BY <1>1
  <2> QED BY <2>2, <2>4, <2>5
<1>4. ASSUME Congruent(c * y, c * z, Modulus) PROVE Congruent(y, z, Modulus)
  <2> DEFINE s == c * y  t == c * z
  <2>1. s \in Int /\ t \in Int
    BY <1>1
  <2>2. Congruent(d * s, y, Modulus) /\ Congruent(d * t, z, Modulus) /\ d * s \in Int /\ d * t \in Int
    BY <1>3
  <2>3. Congruent(s, t, Modulus)
    BY <1>4
  <2> HIDE DEF s, t
  <2>4. Congruent(d * s, d * t, Modulus)
    BY <1>1, <2>1, <2>3, CongruentTimes
  <2> DEFINE e == d * s  f == d * t
  <2>5. e \in Int /\ f \in Int /\ Congruent(e, f, Modulus) /\ Congruent(e, y, Modulus) /\ Congruent(f, z, Modulus)
    BY <2>2, <2>4
  <2> HIDE DEF e, f
  <2>6. Congruent(y, e, Modulus)
    BY <1>1, <2>5, CongruentSame
  <2>7. Congruent(y, f, Modulus)
    BY <1>1, <2>5, <2>6, CongruentSame
  <2> QED BY <1>1, <2>5, <2>7, CongruentSame
<1>5. ASSUME Congruent(y, z, Modulus) PROVE Congruent(c * y, c * z, Modulus)
  BY <1>1, <1>5, CongruentTimes
<1> QED BY <1>4, <1>5

(* A row and its right side are multiplied by a number with an inverse. *)
LEMMA RowScaled ==
  ASSUME NEW a, NEW b, NEW m, NEW n, IsSystem(a, b, m, n), NEW r \in 1 .. m, NEW c, Unit(c)
  PROVE  /\ IsSystem([a EXCEPT ![r] = RowTimes(@, c)], [b EXCEPT ![r] = (@ * c) % Modulus], m, n)
         /\ SameSolutions(a, b, [a EXCEPT ![r] = RowTimes(@, c)], [b EXCEPT ![r] = (@ * c) % Modulus], m, n)
<1> DEFINE e == [a EXCEPT ![r] = RowTimes(@, c)]  f == [b EXCEPT ![r] = (@ * c) % Modulus]
           u == RowTimes(a[r], c)  w == (b[r] * c) % Modulus
<1>1. a \in [1 .. m -> Vector(n)] /\ b \in [1 .. m -> Residues] /\ n \in Nat /\ Modulus \in Nat \ {0} /\ c \in Int
  BY ModulusPositive DEF IsSystem, IsMatrix, Vector, Unit
<1>2. a[r] \in Vector(n) /\ b[r] \in Int
  BY <1>1 DEF Residues
<1>3. /\ u \in Vector(n)
      /\ \A x \in Vector(n) : Congruent(Inner(u, x, n), c * Inner(a[r], x, n), Modulus)
  BY <1>1, <1>2, RowTimesForm
<1>4. w \in Residues /\ Congruent(w, c * b[r], Modulus)
  <2>1. b[r] * c = c * b[r] /\ b[r] * c \in Int
    BY <1>1, <1>2
  <2> QED BY <1>1, <2>1, CongruentRest DEF Residues
<1>5. e[r] = u /\ f[r] = w /\ \A i \in 1 .. m : i # r => e[i] = a[i] /\ f[i] = b[i]
  BY <1>1
<1>6. e \in [1 .. m -> Vector(n)] /\ f \in [1 .. m -> Residues]
  <2> HIDE DEF u, w
  <2> QED BY <1>1, <1>3, <1>4 DEF u, w
<1> HIDE DEF e, f, u, w
<1>7. IsSystem(e, f, m, n)
  BY <1>6 DEF IsSystem, IsMatrix, Vector
<1>8. ASSUME NEW x \in Vector(n) PROVE Solved(a, b, x, m, n) <=> Solved(e, f, x, m, n)
  <2> DEFINE y == Inner(a[r], x, n)  z == b[r]  s == c * y  t == c * z  v == Inner(u, x, n)
  <2>1. y \in Int /\ z \in Int /\ v \in Int /\ w \in Int
    <3>1. x \in Row(n) /\ a[r] \in Row(n) /\ u \in Row(n)
      BY <1>1, <1>2, <1>3, VectorRow
    <3>2. y \in Int /\ v \in Int
      BY <1>1, <3>1, InnerInt
    <3> QED BY <1>1, <1>2, <1>4, <3>2 DEF Residues
  <2>2. s \in Int /\ t \in Int /\ Congruent(v, s, Modulus) /\ Congruent(w, t, Modulus)
    BY <1>1, <1>3, <1>4, <2>1
  <2>3. Congruent(s, t, Modulus) <=> Congruent(y, z, Modulus)
    BY <2>1, UnitCancels
  <2> HIDE DEF y, z, s, t, v
  <2>4. Congruent(v, w, Modulus) <=> Congruent(s, t, Modulus)
    BY <1>1, <2>1, <2>2, CongruentBoth
  <2>5. Congruent(Inner(e[r], x, n), f[r], Modulus) <=> Congruent(Inner(a[r], x, n), b[r], Modulus)
    BY <1>5, <2>3, <2>4 DEF v, y, z
  <2> QED BY <1>5, <2>5 DEF Solved
<1> QED BY <1>7, <1>8 DEF SameSolutions, e, f

(* There is a pivot on the diagonal. *)
Clearable(a, m, n, r) ==
  IsMatrix(a, m, n) /\ r \in 1 .. m /\ r \in 1 .. n /\ a[r][r] \in Nat \ {0}

(* Multiples of its equation are taken from the others. *)
LEMMA EquationsCleared ==
  ASSUME NEW a, NEW b, NEW m, NEW n, IsSystem(a, b, m, n), NEW r, Clearable(a, m, n, r)
  PROVE  /\ IsSystem(RowsCleared(a, r), RhsCleared(b, a, r), m, n)
         /\ SameSolutions(a, b, RowsCleared(a, r), RhsCleared(b, a, r), m, n)
         /\ RowsCleared(a, r)[r] = a[r]
         /\ \A i \in 1 .. m : i # r => \A j \in 1 .. n :
              RowsCleared(a, r)[i][j] = (a[i][j] - Quotient(a[i][r], a[r][r]) * a[r][j]) % Modulus
<1> USE DEF Clearable
<1> DEFINE q(i) == Quotient(a[i][r], a[r][r])
           row(i) == IF i = r THEN a[r] ELSE Less0(a[i], q(i), a[r])
           side(i) == IF i = r THEN b[r] ELSE (b[i] - q(i) * b[r]) % Modulus
           c == [i \in 1 .. m |-> row(i)]
           d == [i \in 1 .. m |-> side(i)]
<1>1. IsMatrix(a, m, n) /\ b \in [1 .. m -> Residues] /\ n \in Nat /\ m \in Nat /\ Modulus \in Nat \ {0}
  BY ModulusPositive DEF IsSystem, IsMatrix, Vector
<1>2. \A i \in 1 .. m : a[i] \in Vector(n) /\ b[i] \in Residues /\ b[i] \in Int
  BY <1>1, SystemRows DEF Residues
<1>3. ASSUME NEW i \in 1 .. m PROVE q(i) \in Int
  <2>1. a[i][r] \in Int
    BY <1>1, SystemRows
  <2> QED BY <2>1, DivMod DEF Quotient
<1>4. ASSUME NEW i \in 1 .. m PROVE row(i) \in Vector(n) /\ side(i) \in Residues
  <2>1. Less0(a[i], q(i), a[r]) \in Vector(n)
    BY <1>1, <1>2, <1>3, LessForm
  <2>2. (b[i] - q(i) * b[r]) % Modulus \in Residues
    <3>1. b[i] - q(i) * b[r] \in Int
      BY <1>2, <1>3
    <3> QED BY <1>1, <3>1, CongruentRest DEF Residues
  <2> QED BY <1>2, <2>1, <2>2
<1>5. c \in [1 .. m -> Vector(n)] /\ d \in [1 .. m -> Residues]
  <2> HIDE DEF row, side
  <2> QED BY <1>4
<1>6. RowsCleared(a, r) = c
  <2>1. RowsCleared(a, r) = c \o <<>>
    BY <1>1, SystemRows DEF RowsCleared
  <2> HIDE DEF c
  <2> QED BY <1>1, <1>5, <2>1, Padded
<1>7. RhsCleared(b, a, r) = d
  <2>1. RhsCleared(b, a, r) = d \o <<>>
    BY <1>1, SystemRows DEF RhsCleared
  <2> HIDE DEF d
  <2> QED BY <1>1, <1>5, <2>1, Padded
<1>8. IsSystem(c, d, m, n)
  BY <1>1, <1>5 DEF IsSystem, IsMatrix, Vector
<1>9. c[r] = a[r] /\ d[r] = b[r]
  OBVIOUS
<1>10. ASSUME NEW i \in 1 .. m, i # r
       PROVE  c[i] = Less0(a[i], q(i), a[r]) /\ d[i] = (b[i] - q(i) * b[r]) % Modulus
  BY <1>10
<1>11. ASSUME NEW i \in 1 .. m, i # r, NEW j \in 1 .. n PROVE c[i][j] = (a[i][j] - q(i) * a[r][j]) % Modulus
  <2> DEFINE k == q(i)
  <2>1. k \in Int /\ a[i] \in Vector(n) /\ a[r] \in Vector(n) /\ c[i] = Less0(a[i], k, a[r])
    BY <1>2, <1>3, <1>10, <1>11
  <2> HIDE DEF k, c
  <2> DEFINE u == a[i]  v == a[r]
  <2>2. u \in Vector(n) /\ v \in Vector(n) /\ n \in Nat /\ k \in Int
    BY <1>1, <2>1
  <2> HIDE DEF u, v
  <2>3. \A h \in 1 .. n : Less0(u, k, v)[h] = (u[h] - k * v[h]) % Modulus
    BY <2>2, LessForm, Zenon
  <2>4. c[i][j] = (a[i][j] - k * a[r][j]) % Modulus
    BY <2>1, <2>3, Zenon DEF u, v
  <2> QED BY <2>4 DEF k
<1> HIDE DEF c, d
<1>12. ASSUME NEW x \in Vector(n) PROVE Solved(a, b, x, m, n) <=> Solved(c, d, x, m, n)
  <2> DEFINE E(i) == Congruent(Inner(a[i], x, n), b[i], Modulus)
             F(i) == Congruent(Inner(c[i], x, n), d[i], Modulus)
  <2>1. E(r) <=> F(r)
    BY <1>9
  <2>2. ASSUME NEW i \in 1 .. m, i # r, E(r) PROVE E(i) <=> F(i)
    <3> DEFINE u == Inner(a[i], x, n)  v == Inner(a[r], x, n)  w == Inner(c[i], x, n)
               s == u - q(i) * v  t == b[i] - q(i) * b[r]
    <3>1. u \in Int /\ v \in Int
      BY <1>1, SystemRows
    <3>2. w \in Int
      BY <1>8, SystemRows DEF IsSystem
    <3>3. Congruent(s, t, Modulus) <=> Congruent(u, b[i], Modulus)
      <4> DEFINE k == q(i)  e == b[i]  f == b[r]
      <4>1. Congruent(v, f, Modulus) /\ k \in Int /\ e \in Int /\ f \in Int
        BY <1>2, <1>3, <2>2
      <4> HIDE DEF u, v, k, e, f
      <4>2. Congruent(u - k * v, e - k * f, Modulus) <=> Congruent(u, e, Modulus)
        <5>1. Modulus \in Int
          BY <1>1
        <5> QED BY <3>1, <4>1, <5>1, CongruentLess, Zenon
      <4> QED BY <4>2 DEF k, e, f
    <3>4. Congruent(w, s, Modulus)
      <4>1. c[i] = Less0(a[i], q(i), a[r])
        BY <1>10, <2>2
      <4> HIDE DEF q
      <4> QED BY <1>1, <1>2, <1>3, <4>1, LessForm
    <3>5. s \in Int /\ t \in Int
      <4> HIDE DEF u, v, q
      <4> QED BY <1>2, <1>3, <3>1
    <3>6. d[i] = t % Modulus
      BY <1>10, <2>2
    <3> HIDE DEF u, v, w, s, t, q
    <3>7. Congruent(d[i], t, Modulus) /\ d[i] \in Int
      <4>1. t % Modulus \in 0 .. Modulus - 1 /\ Congruent(t % Modulus, t, Modulus)
        BY <1>1, <3>5, CongruentRest
      <4>2. Modulus \in Int
        BY <1>1
      <4> QED BY <3>6, <4>1, <4>2
    <3>8. Congruent(w, d[i], Modulus) <=> Congruent(s, t, Modulus)
      <4> DEFINE e == d[i]
      <4>1. e \in Int /\ Congruent(e, t, Modulus)
        BY <3>7
      <4> HIDE DEF e
      <4>2. Congruent(w, e, Modulus) <=> Congruent(s, t, Modulus)
        BY <1>1, <3>2, <3>4, <3>5, <4>1, CongruentBoth
      <4> QED BY <4>2 DEF e
    <3> QED BY <3>3, <3>8 DEF u, w
  <2>3. (Solved(a, b, x, m, n) <=> \A i \in 1 .. m : E(i)) /\ (Solved(c, d, x, m, n) <=> \A i \in 1 .. m : F(i))
    BY DEF Solved
  <2> HIDE DEF E, F
  <2> QED BY <2>1, <2>2, <2>3
<1> HIDE DEF row, side
<1> QED BY <1>6, <1>7, <1>8, <1>9, <1>11, <1>12 DEF SameSolutions

(* A change of variables: what the rows of c do with z, those of a do with    *)
(* f[z], and each vector is f of one.                                        *)
Changes(f, n) == f \in [Vector(n) -> Vector(n)] /\ \A y \in Vector(n) : \E z \in Vector(n) : f[z] = y
Follows(c, a, f, m, n) ==
  \A i \in 1 .. m : \A z \in Vector(n) : Congruent(Inner(c[i], z, n), Inner(a[i], f[z], n), Modulus)
(* What t makes of the solutions. *)
Image(t, a, b, m, n) == {Product0(t, z) : z \in {x \in Vector(n) : Solved(a, b, x, m, n)}}

(* If the system and the transform change alike, the transform makes the same *)
(* of the solutions.                                                         *)
LEMMA VariablesChanged ==
  ASSUME NEW a, NEW b, NEW c, NEW m, NEW n, NEW t, NEW u, NEW f,
         IsSystem(a, b, m, n), IsMatrix(c, m, n), IsMatrix(t, n, n), IsMatrix(u, n, n),
         Changes(f, n), Follows(c, a, f, m, n), Follows(u, t, f, n, n)
  PROVE  Image(u, c, b, m, n) = Image(t, a, b, m, n)
<1>1. \A z \in Vector(n) : f[z] \in Vector(n)
  BY DEF Changes
<1>2. Modulus \in Int /\ n \in Nat /\ IsMatrix(a, m, n) /\ \A i \in 1 .. m : b[i] \in Int
  BY Sizes, Sides
<1>3. ASSUME NEW z \in Vector(n) PROVE Solved(c, b, z, m, n) <=> Solved(a, b, f[z], m, n)
  <2>1. ASSUME NEW i \in 1 .. m
        PROVE  Congruent(Inner(c[i], z, n), b[i], Modulus) <=> Congruent(Inner(a[i], f[z], n), b[i], Modulus)
    <3> DEFINE v == Inner(c[i], z, n)  w == Inner(a[i], f[z], n)  e == b[i]
    <3>1. v \in Int /\ w \in Int /\ e \in Int /\ Congruent(v, w, Modulus)
      BY <1>1, <1>2, SystemRows DEF Follows
    <3> HIDE DEF v, w, e
    <3>2. Congruent(e, e, Modulus)
      BY <1>2, <3>1, CongruentSame
    <3>3. Congruent(v, e, Modulus) <=> Congruent(w, e, Modulus)
      BY <1>2, <3>1, <3>2, CongruentBoth
    <3> QED BY <3>3 DEF v, w, e
  <2> QED BY <2>1 DEF Solved
<1>4. ASSUME NEW z \in Vector(n) PROVE Product0(u, z) = Product0(t, f[z])
  <2>1. ASSUME NEW i \in 1 .. n PROVE Dot(u[i], z) = Dot(t[i], f[z])
    <3>1. u[i] \in Row(n) /\ t[i] \in Row(n) /\ z \in Row(n) /\ f[z] \in Row(n)
      BY <1>1, <1>2, SystemRows, VectorRow
    <3>2. Congruent(Inner(u[i], z, n), Inner(t[i], f[z], n), Modulus)
      BY DEF Follows
    <3> QED BY <1>2, <3>1, <3>2, DotInner
  <2>2. DOMAIN u = 1 .. n /\ DOMAIN t = 1 .. n
    BY SystemRows
  <2> QED BY <2>1, <2>2 DEF Product0
<1>5. ASSUME NEW z \in Vector(n), Solved(c, b, z, m, n)
      PROVE  Product0(u, z) \in Image(t, a, b, m, n)
  BY <1>1, <1>3, <1>4, <1>5 DEF Image
<1>6. ASSUME NEW y \in Vector(n), Solved(a, b, y, m, n)
      PROVE  Product0(t, y) \in Image(u, c, b, m, n)
  <2>1. PICK z \in Vector(n) : f[z] = y
    BY DEF Changes
  <2>2. Solved(c, b, z, m, n) /\ Product0(u, z) = Product0(t, y)
    BY <1>3, <1>4, <1>6, <2>1
  <2> QED BY <2>2 DEF Image
<1> QED BY <1>5, <1>6 DEF Image

(* Two columns change places, as two variables do. *)
Swapping(n, r, p) == [z \in Vector(n) |-> Swap(z, r, p)]

(* Swapping is one to one. *)
LEMMA SwapChanges ==
  ASSUME NEW n \in Nat, NEW r \in 1 .. n, NEW p \in 1 .. n
  PROVE  Changes(Swapping(n, r, p), n)
<1> DEFINE f == [z \in Vector(n) |-> Swap(z, r, p)]
<1>1. ASSUME NEW z \in Vector(n) PROVE Swap(z, r, p) \in Vector(n) /\ Swap(Swap(z, r, p), r, p) = z
  BY SwapForm DEF Vector
<1>2. f \in [Vector(n) -> Vector(n)]
  BY <1>1
<1>3. ASSUME NEW y \in Vector(n) PROVE \E z \in Vector(n) : f[z] = y
  BY <1>1
<1> QED BY <1>2, <1>3 DEF Changes, Swapping

(* ColumnsSwapped swaps in every row. *)
LEMMA ColumnsSwappedFollow ==
  ASSUME NEW a, NEW m, NEW n, IsMatrix(a, m, n), NEW r \in 1 .. n, NEW p \in 1 .. n
  PROVE  /\ IsMatrix(ColumnsSwapped(a, r, p), m, n)
         /\ \A i \in 1 .. m : ColumnsSwapped(a, r, p)[i] = Swap(a[i], r, p)
         /\ Follows(ColumnsSwapped(a, r, p), a, Swapping(n, r, p), m, n)
<1> DEFINE c == [i \in 1 .. m |-> Swap(a[i], r, p)]
<1>1. n \in Nat /\ m \in Nat /\ Modulus \in Int /\ \A i \in 1 .. m : a[i] \in Vector(n) /\ a[i] \in Row(n)
  BY Sizes, SystemRows
<1>2. ASSUME NEW i \in 1 .. m PROVE Swap(a[i], r, p) \in Vector(n)
  BY <1>1, SwapForm DEF Vector
<1>3. c \in [1 .. m -> Vector(n)]
  BY <1>2
<1>4. ColumnsSwapped(a, r, p) = c
  <2>1. ColumnsSwapped(a, r, p) = c \o <<>>
    BY SystemRows DEF ColumnsSwapped
  <2> HIDE DEF c
  <2> QED BY <1>1, <1>3, <2>1, Padded
<1>5. \A i \in 1 .. m : c[i] = Swap(a[i], r, p)
  OBVIOUS
<1> HIDE DEF c
<1>6. IsMatrix(c, m, n)
  BY <1>3 DEF IsMatrix
<1>7. ASSUME NEW i \in 1 .. m, NEW z \in Vector(n)
      PROVE  Congruent(Inner(c[i], z, n), Inner(a[i], Swap(z, r, p), n), Modulus)
  <2>1. z \in Row(n)
    BY <1>1, VectorRow
  <2>2. Inner(c[i], z, n) = Inner(a[i], Swap(z, r, p), n)
    BY <1>1, <1>5, <2>1, InnerSwapped
  <2>3. Inner(c[i], z, n) \in Int
    BY <1>6, SystemRows
  <2> QED BY <1>1, <2>2, <2>3, CongruentSame
<1>8. Follows(c, a, Swapping(n, r, p), m, n)
  BY <1>7 DEF Follows, Swapping
<1> QED BY <1>4, <1>5, <1>6, <1>8

(* Multiples q of column r are taken from the others; variable r then stands  *)
(* for what it was less the multiples of the others.                         *)
Others(q, r, n) == q \in Row(n) /\ q[r] = 0
Shift(z, q, r, n) == [z EXCEPT ![r] = (@ - Inner(q, z, n)) % Modulus]
Shifting(q, r, n) == [z \in Vector(n) |-> Shift(z, q, r, n)]
ShiftedRow(u, q, r, n) == [j \in 1 .. n |-> IF j = r THEN u[r] ELSE (u[j] - q[j] * u[r]) % Modulus]

(* A shift touches variable r, and not the sum of the others. *)
LEMMA ShiftForm ==
  ASSUME NEW n \in Nat, NEW r \in 1 .. n, NEW q, Others(q, r, n), NEW z \in Vector(n)
  PROVE  /\ Shift(z, q, r, n) \in Vector(n) /\ Inner(q, z, n) \in Int
         /\ Shift(z, q, r, n)[r] = (z[r] - Inner(q, z, n)) % Modulus
         /\ \A j \in 1 .. n : j # r => Shift(z, q, r, n)[j] = z[j]
<1>1. z \in [1 .. n -> Residues] /\ z \in Row(n) /\ z[r] \in Int
  BY VectorRow DEF Vector, Row
<1>2. Inner(q, z, n) \in Int
  BY <1>1, InnerInt DEF Others
<1> DEFINE s == Inner(q, z, n)
<1>3. (z[r] - s) % Modulus \in Residues
  <2>1. z[r] - s \in Int
    BY <1>1, <1>2
  <2> QED BY <2>1, ModulusPositive, CongruentRest DEF Residues
<1> HIDE DEF s
<1>4. [z EXCEPT ![r] = (@ - s) % Modulus] \in [1 .. n -> Residues]
  <2> DEFINE e == (z[r] - s) % Modulus
  <2>1. e \in Residues /\ [z EXCEPT ![r] = (@ - s) % Modulus] = [z EXCEPT ![r] = e]
    BY <1>3
  <2> HIDE DEF e
  <2> QED BY <1>1, <2>1
<1> QED BY <1>1, <1>2, <1>4 DEF Shift, Vector, s

(* The sum of the others is not affected by variable r. *)
LEMMA OthersSame ==
  ASSUME NEW n \in Nat, NEW r \in 1 .. n, NEW q, Others(q, r, n), NEW y \in Row(n), NEW z \in Row(n),
         \A j \in 1 .. n : j # r => y[j] = z[j]
  PROVE  Inner(q, y, n) = Inner(q, z, n)
<1>1. ASSUME NEW j \in 1 .. n PROVE q[j] * y[j] = q[j] * z[j]
  <2>1. q[j] \in Int /\ y[j] \in Int /\ z[j] \in Int /\ q[r] = 0
    BY DEF Others, Row
  <2>2. CASE j = r
    BY <2>1, <2>2
  <2> QED BY <2>2
<1> QED BY <1>1 DEF Inner

(* Shifting is one to one. *)
LEMMA ShiftChanges ==
  ASSUME NEW n \in Nat, NEW r \in 1 .. n, NEW q, Others(q, r, n)
  PROVE  Changes(Shifting(q, r, n), n)
<1> DEFINE f == [z \in Vector(n) |-> Shift(z, q, r, n)]
<1>1. f \in [Vector(n) -> Vector(n)]
  BY ShiftForm
<1>2. ASSUME NEW y \in Vector(n) PROVE \E z \in Vector(n) : Shift(z, q, r, n) = y
  <2> DEFINE s == Inner(q, y, n)  e == (y[r] + s) % Modulus  z == [y EXCEPT ![r] = e]
  <2>1. y \in [1 .. n -> Residues] /\ y \in Row(n) /\ y[r] \in Residues /\ y[r] \in Int /\ Modulus \in Nat \ {0}
    BY VectorRow, ModulusPositive DEF Vector, Row
  <2>2. s \in Int
    BY <2>1, InnerInt DEF Others
  <2>3. e \in Residues /\ e \in Int /\ Congruent(e, y[r] + s, Modulus)
    <3>1. y[r] + s \in Int
      BY <2>1, <2>2
    <3> DEFINE h == y[r] + s
    <3>2. h \in Int
      BY <3>1
    <3> HIDE DEF h
    <3>3. h % Modulus \in 0 .. Modulus - 1 /\ Congruent(h % Modulus, h, Modulus)
      BY <2>1, <3>2, CongruentRest
    <3>4. e = h % Modulus
      BY DEF h
    <3> HIDE DEF e
    <3>5. e \in 0 .. Modulus - 1 /\ Congruent(e, h, Modulus)
      BY <3>3, <3>4
    <3> QED BY <2>1, <3>5 DEF Residues, h
  <2> HIDE DEF e
  <2>4. z \in Vector(n) /\ z[r] = e /\ \A j \in 1 .. n : j # r => z[j] = y[j]
    BY <2>1, <2>3 DEF Vector
  <2> HIDE DEF z
  <2>5. z \in Row(n)
    BY <2>4, VectorRow
  <2>6. Inner(q, z, n) = s
    BY <2>1, <2>4, <2>5, OthersSame
  <2> HIDE DEF s
  <2>7. (e - s) % Modulus = y[r]
    <3> DEFINE g == y[r]
    <3>1. g \in Int /\ g \in 0 .. Modulus - 1 /\ Congruent(e, g + s, Modulus)
      BY <2>1, <2>3 DEF Residues
    <3> HIDE DEF g
    <3>2. PICK k \in Int : e = (g + s) + Modulus * k
      BY <3>1 DEF Congruent
    <3> DEFINE d == Modulus * k
    <3>3. d \in Int /\ e = (g + s) + d
      BY <2>1, <3>2
    <3> HIDE DEF d
    <3>4. e - s = g + d /\ e - s \in Int
      BY <2>2, <2>3, <3>1, <3>3
    <3>5. Congruent(e - s, g, Modulus)
      BY <3>4 DEF Congruent, d
    <3> DEFINE h == e - s
    <3>6. h \in Int /\ Congruent(h, g, Modulus)
      BY <3>4, <3>5
    <3> HIDE DEF h
    <3>7. h % Modulus = g
      BY <2>1, <3>1, <3>6, RestIs
    <3> QED BY <3>7 DEF g, h
  <2>8. Shift(z, q, r, n) \in [1 .. n -> Residues] /\ \A j \in 1 .. n : Shift(z, q, r, n)[j] = y[j]
    <3>1. Shift(z, q, r, n)[r] = (e - s) % Modulus
      BY <2>4, <2>6, ShiftForm
    <3> QED BY <2>4, <2>7, <3>1, ShiftForm DEF Vector
  <2>9. Shift(z, q, r, n) = y
    BY <2>1, <2>8
  <2> QED BY <2>4, <2>9
<1>3. ASSUME NEW y \in Vector(n) PROVE \E z \in Vector(n) : f[z] = y
  BY <1>2
<1> QED BY <1>1, <1>3 DEF Changes, Shifting

(* What the shifted row does with z, the row does with shifted z. *)
LEMMA ShiftFollows ==
  ASSUME NEW n \in Nat, NEW r \in 1 .. n, NEW q, Others(q, r, n), NEW u \in Vector(n)
  PROVE  /\ ShiftedRow(u, q, r, n) \in Vector(n)
         /\ \A z \in Vector(n) :
              Congruent(Inner(ShiftedRow(u, q, r, n), z, n), Inner(u, Shift(z, q, r, n), n), Modulus)
<1> DEFINE w == ShiftedRow(u, q, r, n)
           k == -u[r]
           v == [j \in 1 .. n |-> u[j] + k * q[j]]
<1>1. u \in Row(n) /\ q \in Row(n) /\ q[r] = 0 /\ Modulus \in Nat \ {0} /\ Modulus \in Int
  BY VectorRow, ModulusPositive DEF Others
<1>2. \A j \in 1 .. n : u[j] \in Int /\ q[j] \in Int /\ u[j] \in Residues
  BY <1>1 DEF Row, Vector
<1>3. k \in Int
  BY <1>2
<1>4. ASSUME NEW j \in 1 .. n PROVE u[j] + k * q[j] \in Int /\ u[j] - q[j] * u[r] = u[j] + k * q[j]
  BY <1>2
<1>5. v \in Row(n)
  BY <1>4 DEF Row
<1>6. ASSUME NEW j \in 1 .. n PROVE w[j] \in Residues /\ w[j] = v[j] % Modulus
  <2>1. v[j] \in Int /\ v[j] = u[j] + k * q[j]
    BY <1>4
  <2>2. v[j] % Modulus \in Residues
    BY <1>1, <2>1, CongruentRest DEF Residues
  <2>3. w[j] = IF j = r THEN u[r] ELSE (u[j] - q[j] * u[r]) % Modulus
    BY DEF ShiftedRow
  <2>4. CASE j = r
    <3>1. v[j] = u[r]
      BY <1>1, <1>2, <1>3, <2>1, <2>4
    <3> DEFINE e == u[r]
    <3>2. e \in 0 .. Modulus - 1 /\ e \in Int
      BY <1>2 DEF Residues
    <3> HIDE DEF e
    <3>3. Congruent(e, e, Modulus)
      BY <1>1, <3>2, CongruentSame
    <3>4. e % Modulus = e
      BY <1>1, <3>2, <3>3, RestIs
    <3> HIDE DEF v, w
    <3> QED BY <1>2, <2>3, <2>4, <3>1, <3>4 DEF e
  <2>5. CASE j # r
    <3>1. w[j] = v[j] % Modulus
      BY <1>4, <2>1, <2>3, <2>5
    <3> HIDE DEF v, w
    <3> QED BY <2>2, <3>1
  <2> QED BY <2>4, <2>5
<1>7. w \in Vector(n)
  <2>1. w = [j \in 1 .. n |-> w[j]]
    BY DEF ShiftedRow
  <2> HIDE DEF w, v
  <2> QED BY <1>6, <2>1 DEF Vector
<1>8. Combines(v, u, k, q, n)
  BY DEF Combines
<1> HIDE DEF v, w
<1>9. ASSUME NEW z \in Vector(n) PROVE Congruent(Inner(w, z, n), Inner(u, Shift(z, q, r, n), n), Modulus)
  <2> DEFINE s == Inner(q, z, n)  y == Shift(z, q, r, n)
             d == [j \in 1 .. n |-> IF j = r THEN 1 ELSE 0]
             x == [j \in 1 .. n |-> z[j] + (-s) * d[j]]
  <2>1. z \in Row(n) /\ s \in Int /\ y \in Row(n) /\ y \in Vector(n) /\ d \in Row(n)
    BY <1>1, VectorRow, InnerInt, ShiftForm DEF Row
  <2>2. \A j \in 1 .. n : z[j] \in Int /\ y[j] \in Int
    BY <2>1 DEF Row
  <2>3. Congruent(Inner(w, z, n), Inner(v, z, n), Modulus)
    <3>1. ReducedRow(w, v, n)
      BY <1>6 DEF ReducedRow
    <3> QED BY <1>5, <1>7, <3>1, InnerReduced
  <2>4. Inner(v, z, n) = Inner(u, z, n) + k * s
    BY <1>1, <1>3, <1>5, <1>8, <2>1, InnerLinear
  <2> DEFINE h == -s
  <2>5. h \in Int
    BY <2>1
  <2>6. ASSUME NEW j \in 1 .. n
        PROVE  /\ x[j] \in Int /\ x[j] = z[j] + h * d[j]
               /\ (j = r => x[j] = z[r] - s) /\ (j # r => x[j] = z[j])
    <3> HIDE DEF s
    <3> QED BY <2>1, <2>2
  <2>7. x \in Row(n) /\ Combines(x, z, h, d, n)
    <3>1. x = [j \in 1 .. n |-> x[j]]
      OBVIOUS
    <3> HIDE DEF x, h, d
    <3> QED BY <2>6, <3>1 DEF Row, Combines
  <2>8. ReducedRow(y, x, n)
    <3>1. ASSUME NEW j \in 1 .. n PROVE y[j] = x[j] % Modulus
      <4>1. CASE j = r
        <5>1. y[j] = (z[r] - s) % Modulus
          BY <4>1, ShiftForm
        <5> HIDE DEF x, y, s, h, d
        <5> QED BY <2>6, <4>1, <5>1
      <4>2. CASE j # r
        <5>1. y[j] = z[j]
          BY <4>2, ShiftForm
        <5> DEFINE e == z[j]
        <5>2. e \in 0 .. Modulus - 1 /\ e \in Int
          BY <2>2 DEF Vector, Residues
        <5> HIDE DEF e
        <5>3. Congruent(e, e, Modulus)
          BY <1>1, <5>2, CongruentSame
        <5>4. e % Modulus = e
          BY <1>1, <5>2, <5>3, RestIs
        <5> HIDE DEF x, y, s, h, d
        <5> QED BY <2>6, <4>2, <5>1, <5>4 DEF e
      <4> QED BY <4>1, <4>2
    <3> QED BY <3>1 DEF ReducedRow
  <2>9. OnlyAt(d, r, n) /\ d[r] = 1
    BY DEF OnlyAt
  <2> HIDE DEF s, y, d, x, h
  <2>10. Inner(d, u, n) = u[r]
    <3>1. Inner(d, u, n) = d[r] * u[r]
      BY <1>1, <2>1, <2>9, InnerOnly
    <3> QED BY <1>2, <2>9, <3>1
  <2>11. Inner(x, u, n) = Inner(z, u, n) + h * Inner(d, u, n)
    BY <1>1, <2>1, <2>5, <2>7, InnerLinear
  <2>12. Congruent(Inner(y, u, n), Inner(x, u, n), Modulus)
    BY <2>1, <2>7, <2>8, InnerReduced
  <2>13. Inner(z, u, n) = Inner(u, z, n) /\ Inner(y, u, n) = Inner(u, y, n)
    BY <1>1, <2>1, InnerSwaps
  <2>14. Inner(u, z, n) \in Int /\ Inner(u, y, n) \in Int /\ Inner(w, z, n) \in Int
         /\ Inner(v, z, n) \in Int /\ Inner(x, u, n) \in Int
    BY <1>1, <1>5, <1>7, <2>1, <2>7, VectorRow, InnerInt
  <2>15. k * s = h * u[r]
    <3> DEFINE e == u[r]
    <3>1. e \in Int /\ k = -e /\ h = -s
      BY <1>2 DEF h
    <3> HIDE DEF e, k
    <3>2. k * s = h * e
      BY <2>1, <3>1
    <3> QED BY <3>2 DEF e
  <2>16. Inner(v, z, n) = Inner(x, u, n)
    BY <2>4, <2>10, <2>11, <2>13, <2>15
  <2>17. Congruent(Inner(x, u, n), Inner(u, y, n), Modulus)
    BY <1>1, <2>12, <2>13, <2>14, CongruentSame
  <2>18. Congruent(Inner(w, z, n), Inner(u, y, n), Modulus)
    BY <1>1, <2>3, <2>14, <2>16, <2>17, CongruentSame
  <2> QED BY <2>18 DEF y
<1> QED BY <1>7, <1>9 DEF w

(* ColumnsCleared shifts every row. *)
Multiples(a, r, n) == [j \in 1 .. n |-> IF j = r THEN 0 ELSE Quotient(a[r][j], a[r][r])]

(* So its rows follow the shift. *)
LEMMA ColumnsClearedFollow ==
  ASSUME NEW a, NEW m, NEW n, NEW r, Clearable(a, m, n, r), NEW t, NEW k, IsMatrix(t, k, n)
  PROVE  /\ Others(Multiples(a, r, n), r, n)
         /\ IsMatrix(ColumnsCleared(t, a, r), k, n)
         /\ \A i \in 1 .. k : /\ ColumnsCleared(t, a, r)[i][r] = t[i][r]
                              /\ \A j \in 1 .. n : j # r =>
                                   ColumnsCleared(t, a, r)[i][j]
                                     = (t[i][j] - Quotient(a[r][j], a[r][r]) * t[i][r]) % Modulus
         /\ Follows(ColumnsCleared(t, a, r), t, Shifting(Multiples(a, r, n), r, n), k, n)
<1> USE DEF Clearable
<1> DEFINE q == Multiples(a, r, n)  c == [i \in 1 .. k |-> ShiftedRow(t[i], q, r, n)]
<1>1. m \in Nat /\ n \in Nat /\ k \in Nat /\ DOMAIN t = 1 .. k /\ \A i \in 1 .. k : t[i] \in Vector(n)
  BY Sizes, SystemRows
<1>2. Others(q, r, n)
  <2>1. ASSUME NEW j \in 1 .. n PROVE Quotient(a[r][j], a[r][r]) \in Int
    BY SystemRows, DivMod DEF Quotient
  <2> QED BY <2>1 DEF Others, Multiples, Row
<1>3. ASSUME NEW i \in 1 .. k
      PROVE  [j \in DOMAIN t[i] |-> IF j = r THEN t[i][r]
                 ELSE (t[i][j] - Quotient(a[r][j], a[r][r]) * t[i][r]) % Modulus] \o <<>>
               = ShiftedRow(t[i], q, r, n)
  <2> DEFINE u == t[i]
             f == [j \in DOMAIN u |-> IF j = r THEN u[r] ELSE (u[j] - Quotient(a[r][j], a[r][r]) * u[r]) % Modulus]
  <2>1. DOMAIN u = 1 .. n
    BY <1>1 DEF Vector
  <2>2. f = ShiftedRow(u, q, r, n)
    <3> HIDE DEF u
    <3> QED BY <2>1 DEF ShiftedRow, Multiples
  <2>3. ShiftedRow(u, q, r, n) \in [1 .. n -> Residues]
    BY <1>1, <1>2, ShiftFollows DEF Vector
  <2>4. f \o <<>> = f
    <3> HIDE DEF f
    <3> QED BY <1>1, <2>2, <2>3, Padded
  <2> QED BY <2>2, <2>4
<1>4. c \in [1 .. k -> Vector(n)]
  BY <1>1, <1>2, ShiftFollows
<1>5. ColumnsCleared(t, a, r) = c
  <2>1. ColumnsCleared(t, a, r) = c \o <<>>
    <3> HIDE DEF q
    <3> QED BY <1>1, <1>3 DEF ColumnsCleared
  <2> HIDE DEF c
  <2> QED BY <1>1, <1>4, <2>1, Padded
<1>6. \A i \in 1 .. k : c[i] = ShiftedRow(t[i], q, r, n)
  OBVIOUS
<1> HIDE DEF c
<1>7. IsMatrix(c, k, n)
  BY <1>4 DEF IsMatrix
<1>8. Follows(c, t, Shifting(q, r, n), k, n)
  <2>1. ASSUME NEW i \in 1 .. k, NEW z \in Vector(n)
        PROVE  Congruent(Inner(c[i], z, n), Inner(t[i], Shift(z, q, r, n), n), Modulus)
    BY <1>1, <1>2, <1>6, ShiftFollows
  <2> QED BY <2>1 DEF Follows, Shifting
<1>9. ASSUME NEW i \in 1 .. k
      PROVE  /\ c[i][r] = t[i][r]
             /\ \A j \in 1 .. n : j # r =>
                  c[i][j] = (t[i][j] - Quotient(a[r][j], a[r][r]) * t[i][r]) % Modulus
  BY <1>6 DEF ShiftedRow, Multiples
<1> QED BY <1>2, <1>5, <1>7, <1>8, <1>9

(* A set of numbers up to k has a greatest. *)
LEMMA MaxIs ==
  ASSUME NEW k \in Nat, NEW S \in SUBSET (0 .. k), S # {}
  PROVE  Max(S) \in S /\ \A x \in S : x <= Max(S)
<1> DEFINE T == {k - x : x \in S}
<1>1. \A x \in S : x \in Nat /\ x \in Int /\ x <= k
  OBVIOUS
<1>2. \A x \in S : k - x \in T
  OBVIOUS
<1>3. \A y \in T : \E x \in S : y = k - x
  OBVIOUS
<1> HIDE DEF T
<1>4. T \in SUBSET Nat
  <2> SUFFICES ASSUME NEW y \in T PROVE y \in Nat
    OBVIOUS
  <2>1. PICK x \in S : y = k - x
    BY <1>3
  <2> QED BY <1>1, <2>1
<1>5. T # {}
  BY <1>2
<1>6. PICK y \in T : \A z \in T : y <= z
  BY <1>4, <1>5, LeastNat
<1>7. PICK w \in S : y = k - w
  BY <1>3
<1>8. \A x \in S : w >= x
  <2> TAKE x \in S
  <2>1. k - w <= k - x
    BY <1>2, <1>6, <1>7
  <2>2. k \in Int /\ w \in Int /\ x \in Int
    BY <1>1
  <2> QED BY <2>1, <2>2
<1>9. \E x \in S : \A z \in S : x >= z
  BY <1>8
<1>10. Max(S) \in S /\ \A z \in S : Max(S) >= z
  BY <1>9 DEF Max
<1>11. ASSUME NEW z \in S PROVE z <= Max(S)
  <2> DEFINE g == Max(S)
  <2>1. g >= z /\ g \in Int /\ z \in Int
    BY <1>1, <1>10
  <2> HIDE DEF g
  <2>2. z <= g
    BY <2>1
  <2> QED BY <2>2 DEF g
<1> QED BY <1>10, <1>11

(* A number that is not zero is an odd one times a power of two.  *)
LEMMA TrailingForm ==
  ASSUME NEW x \in Residues, x # 0
  PROVE  /\ TrailingZeros(x) \in 0 .. SystemWidth - 1
         /\ UnitOf(x) \in Nat /\ UnitOf(x) % 2 = 1
         /\ x = 2 ^ TrailingZeros(x) * UnitOf(x)
<1> DEFINE S == {v \in 0 .. SystemWidth : x % 2 ^ v = 0}
           v == TrailingZeros(x)  d == 2 ^ v  u == UnitOf(x)
<1>1. SystemWidth \in Nat /\ x \in Nat /\ x < Modulus /\ x > 0
  BY SystemAssumption, ModulusPositive DEF Residues
<1>2. 0 \in S
  <2>1. x % 2 ^ 0 = 0
    BY <1>1
  <2> QED BY <1>1, <2>1
<1>3. v \in 0 .. SystemWidth /\ x % 2 ^ v = 0 /\ \A w \in S : w <= v
  <2>1. v = Max(S)
    BY DEF TrailingZeros
  <2>2. S \in SUBSET (0 .. SystemWidth) /\ S # {}
    BY <1>2
  <2> HIDE DEF S, v
  <2>3. v \in S /\ \A w \in S : w <= v
    BY <1>1, <2>1, <2>2, MaxIs
  <2> QED BY <2>3 DEF S
<1>4. d \in Nat \ {0} /\ v \in Nat
  BY <1>1, <1>3, PowPositive
<1>5. u = x \div d /\ x % d = 0
  BY <1>3 DEF UnitOf
<1> HIDE DEF v, u
<1>6. v + 1 <= SystemWidth => x % 2 ^ (v + 1) # 0
  <2> SUFFICES ASSUME v + 1 <= SystemWidth, x % 2 ^ (v + 1) = 0 PROVE FALSE
    OBVIOUS
  <2>1. v + 1 \in S
    BY <1>1, <1>4
  <2> HIDE DEF S
  <2> QED BY <1>3, <1>4, <2>1
<1> HIDE DEF S, d
<1>7. x = d * u /\ u \in Int
  <2>1. x = d * (x \div d) + (x % d) /\ x \div d \in Int
    BY <1>1, <1>4, DivMod
  <2> QED BY <1>1, <1>4, <1>5, <2>1
<1>8. u \in Nat
  BY <1>1, <1>4, <1>7
<1>9. v # SystemWidth
  <2> SUFFICES ASSUME v = SystemWidth PROVE FALSE
    OBVIOUS
  <2>1. d = Modulus
    BY DEF d, Modulus
  <2>2. u = 0 \/ u >= 1
    BY <1>8
  <2> QED BY <1>1, <1>4, <1>7, <1>8, <2>1, <2>2
<1>10. u % 2 = 1
  <2> SUFFICES ASSUME u % 2 # 1 PROVE FALSE
    OBVIOUS
  <2> DEFINE h == u \div 2
  <2>1. u = 2 * h /\ h \in Int
    BY <1>8
  <2>2. 2 ^ (v + 1) = 2 * d /\ v + 1 <= SystemWidth
    BY <1>1, <1>3, <1>4, <1>9, PowNext DEF d
  <2> HIDE DEF h
  <2>3. x = (2 * d) * h
    BY <1>4, <1>7, <2>1
  <2> DEFINE e == 2 * d  z == 0
  <2>4. e \in Nat \ {0} /\ z \in 0 .. e - 1 /\ x = e * h + z
    BY <1>4, <2>1, <2>3
  <2> HIDE DEF e, z
  <2>5. x % e = z
    BY <2>1, <2>4, DivUnique
  <2> QED BY <1>6, <2>2, <2>5 DEF e, z
<1>11. v \in 0 .. SystemWidth - 1
  BY <1>1, <1>3, <1>4, <1>9
<1> QED BY <1>7, <1>8, <1>10, <1>11 DEF v, u, d

(* What has at least as many zeros is a multiple of that power. *)
LEMMA MoreZeros ==
  ASSUME NEW x \in Residues, NEW v \in 0 .. SystemWidth - 1, x # 0 => v <= TrailingZeros(x)
  PROVE  \E q \in Nat : x = 2 ^ v * q
<1>1. v \in Nat /\ 2 ^ v \in Nat
  BY SystemAssumption, PowPositive
<1>2. CASE x = 0
  <2>1. x = 2 ^ v * 0
    BY <1>1, <1>2
  <2> QED BY <2>1
<1>3. CASE x # 0
  <2> DEFINE w == TrailingZeros(x)  u == UnitOf(x)  d == 2 ^ v  e == 2 ^ w
  <2>1. w \in Nat /\ u \in Nat /\ x = e * u
    BY <1>3, TrailingForm
  <2>2. PICK q \in Nat : e = d * q
    BY <1>1, <1>3, <2>1, PowMultiple
  <2>3. d \in Nat
    BY <1>1
  <2> HIDE DEF d, e, u, w
  <2>4. (d * q) * u = d * (q * u) /\ q * u \in Nat
    BY <2>1, <2>3
  <2> QED BY <2>1, <2>2, <2>4 DEF d
<1> QED BY <1>2, <1>3

(* What one step of Newton's iteration makes of an inverse. *)
Improved(u, i) == (i * (2 - u * i)) % Modulus
(* i is an inverse of u in the lowest c bits. *)
InvertsBits(u, i, c) == \A a \in 0 .. SystemWidth : a <= c => Congruent(u * i, 1, 2 ^ a)

(* A number is odd if and only if it is its own inverse in one bit. *)
LEMMA FirstBit ==
  ASSUME NEW u \in Nat, u % 2 = 1
  PROVE  InvertsBits(u, 1, 1)
<1>1. ASSUME NEW a \in 0 .. SystemWidth, a <= 1 PROVE Congruent(u * 1, 1, 2 ^ a)
  <2> DEFINE d == 2 ^ a
  <2>1. d = 1 \/ d = 2
    <3>1. a = 0 \/ a = 1
      BY <1>1, SystemAssumption
    <3>2. 2 ^ 0 = 1 /\ 2 ^ 1 = 2
      OBVIOUS
    <3> QED BY <3>1, <3>2
  <2>2. u = 1 + 1 * (u - 1) /\ u = 1 + 2 * (u \div 2) /\ u - 1 \in Int /\ u \div 2 \in Int
    OBVIOUS
  <2>3. u * 1 = u
    OBVIOUS
  <2> HIDE DEF d
  <2>4. \E q \in Int : u = 1 + d * q
    BY <2>1, <2>2
  <2> QED BY <2>3, <2>4 DEF Congruent, d
<1> QED BY <1>1 DEF InvertsBits

(* What is left to one is squared. *)
LEMMA SquareLeft ==
  ASSUME NEW u \in Int, NEW i \in Int, NEW d \in Int, NEW q \in Int, u * i = 1 + d * q
  PROVE  u * (i * (2 - u * i)) = 1 + (d * d) * (0 - q * q)
<1> DEFINE w == u * i  e == d * q
<1>1. w \in Int /\ e \in Int /\ w = 1 + e
  OBVIOUS
<1>2. (d * d) * (0 - q * q) = 0 - e * e
  OBVIOUS
<1>3. u * (i * (2 - w)) = w * (2 - w)
  <2> DEFINE g == 2 - w
  <2>1. g \in Int
    BY <1>1
  <2> HIDE DEF g
  <2>2. u * (i * g) = (u * i) * g
    BY <2>1
  <2> QED BY <2>2 DEF g
<1> HIDE DEF w, e
<1>4. w * (2 - w) = 1 - e * e
  BY <1>1
<1>5. w * (2 - w) = 1 + (0 - e * e)
  <2> DEFINE g == e * e
  <2>1. g \in Int
    BY <1>1
  <2> HIDE DEF g
  <2>2. 1 - g = 1 + (0 - g)
    BY <2>1
  <2> QED BY <1>4, <2>2 DEF g
<1> QED BY <1>2, <1>3, <1>5 DEF w, e

(* A step doubles the bits. *)
LEMMA NewtonStep ==
  ASSUME NEW u \in Nat, NEW i \in Residues, NEW c \in Nat, NEW e \in Nat, e = 2 * c, InvertsBits(u, i, c)
  PROVE  Improved(u, i) \in Residues /\ InvertsBits(u, Improved(u, i), e)
<1> DEFINE j == i * (2 - u * i)  k == j % Modulus
<1>1. Modulus \in Nat \ {0} /\ i \in Int /\ u \in Int /\ SystemWidth \in Nat
  BY ModulusPositive, SystemAssumption DEF Residues
<1>2. j \in Int
  BY <1>1
<1> HIDE DEF j
<1>3. k \in Residues /\ k \in Int /\ Congruent(k, j, Modulus)
  <2>1. k \in 0 .. Modulus - 1 /\ Congruent(k, j, Modulus)
    BY <1>1, <1>2, CongruentRest
  <2> HIDE DEF k
  <2> QED BY <1>1, <2>1 DEF Residues
<1> HIDE DEF k
<1>4. ASSUME NEW a \in 0 .. SystemWidth, a <= e PROVE Congruent(u * k, 1, 2 ^ a)
  <2> DEFINE h == a - (a \div 2)  d == 2 ^ h  f == 2 ^ a
  <2>1. h \in 0 .. SystemWidth /\ h <= c /\ a <= h + h /\ h \in Nat /\ h + h \in Nat /\ a \in Nat
    BY <1>1, <1>4
  <2> HIDE DEF h
  <2>2. Congruent(u * i, 1, d)
    BY <2>1 DEF InvertsBits
  <2>3. d \in Int /\ f \in Int /\ 2 ^ (h + h) = d * d
    BY <2>1, PowAdd, PowPositive
  <2>4. PICK q \in Int : u * i = 1 + d * q
    BY <2>2 DEF Congruent
  <2>5. PICK s \in Nat : d * d = f * s
    BY <2>1, <2>3, PowMultiple
  <2>6. PICK t \in Nat : Modulus = f * t
    <3>1. a <= SystemWidth
      BY <1>1
    <3>2. \E t \in Nat : 2 ^ SystemWidth = 2 ^ a * t
      BY <1>1, <2>1, <3>1, PowMultiple
    <3> QED BY <3>2 DEF Modulus
  <2>7. PICK p \in Int : k = j + Modulus * p
    BY <1>3 DEF Congruent
  <2> HIDE DEF d, f
  <2>8. u * j = 1 + (d * d) * (0 - q * q)
    BY <1>1, <2>3, <2>4, SquareLeft DEF j
  <2> DEFINE g == 0 - q * q
  <2>9. g \in Int
    OBVIOUS
  <2> HIDE DEF g
  <2>10. u * j = 1 + f * (s * g)
    <3>1. (f * s) * g = f * (s * g)
      BY <2>3, <2>9
    <3> QED BY <2>5, <2>8, <3>1 DEF g
  <2>11. u * k = u * j + f * (t * (p * u))
    <3>1. u * (j + (f * t) * p) = u * j + f * (t * (p * u))
      BY <1>1, <1>2, <2>3
    <3> QED BY <2>6, <2>7, <3>1
  <2>12. u * k = 1 + f * (s * g + t * (p * u)) /\ s * g + t * (p * u) \in Int
    <3> DEFINE x == s * g  y == t * (p * u)
    <3>1. x \in Int /\ y \in Int
      BY <1>1, <2>9
    <3> HIDE DEF x, y
    <3>2. (1 + f * x) + f * y = 1 + f * (x + y) /\ x + y \in Int
      BY <2>3, <3>1
    <3> QED BY <2>10, <2>11, <3>2 DEF x, y
  <2> QED BY <2>12 DEF Congruent, f
<1> QED BY <1>3, <1>4 DEF Improved, InvertsBits, k, j

(* There are two residues at least. *)
LEMMA ModulusTwo == Modulus \in Nat \ {0} /\ 0 \in Residues /\ 1 \in Residues
<1>1. SystemWidth - 1 \in Nat /\ (SystemWidth - 1) + 1 = SystemWidth
  BY SystemAssumption
<1> DEFINE d == 2 ^ (SystemWidth - 1)
<1>2. 2 ^ SystemWidth = 2 * d /\ d \in Nat \ {0}
  BY <1>1, PowNext, PowPositive
<1> HIDE DEF d
<1> QED BY <1>2 DEF Modulus, Residues

(* The inverse of an odd number is one: six steps are enough for 64 bits.      *)
LEMMA InverseForm ==
  ASSUME NEW u \in Nat, u % 2 = 1
  PROVE  InverseOdd(u) \in Residues /\ Congruent(u * InverseOdd(u), 1, Modulus)
<1> DEFINE step == [k \in 1 .. 6 |-> [i \in Residues |-> Improved(u, i)]]
<1>1. Modulus \in Nat \ {0} /\ 1 \in Residues /\ SystemWidth \in 1 .. 64
  BY ModulusTwo, SystemAssumption
<1>2. ASSUME NEW i \in Residues PROVE Improved(u, i) \in Residues
  <2> DEFINE j == i * (2 - u * i)
  <2>1. j \in Int
    BY <1>1 DEF Residues
  <2> HIDE DEF j
  <2>2. j % Modulus \in Residues
    BY <1>1, <2>1, CongruentRest DEF Residues
  <2> QED BY <2>2 DEF Improved, j
<1>3. step \in [1 .. 6 -> [Residues -> Residues]]
  BY <1>2
<1> DEFINE Right(g) == g = [k \in 0 .. 6 |-> IF k = 0 THEN 1 ELSE (g[k - 1] * (2 - u * g[k - 1])) % Modulus]
           inverse == CHOOSE g : Right(g)
<1>4. \E g : Right(g)
  <2>1. PICK g \in [0 .. 6 -> Residues] : g[0] = 1 /\ \A k \in 1 .. 6 : g[k] = step[k][g[k - 1]]
    <3> DEFINE n == 6  b == 1
    <3>1. n \in Nat /\ b \in Residues /\ step \in [1 .. n -> [Residues -> Residues]]
      BY <1>1, <1>3
    <3> HIDE DEF step, n, b
    <3>2. \E g \in [0 .. n -> Residues] : g[0] = b /\ \A k \in 1 .. n : g[k] = step[k][g[k - 1]]
      BY <3>1, RecursionExists
    <3> QED BY <3>2 DEF n, b
  <2>2. ASSUME NEW k \in 1 .. 6 PROVE g[k] = (g[k - 1] * (2 - u * g[k - 1])) % Modulus
    <3>1. k - 1 \in 0 .. 6 /\ g[k - 1] \in Residues
      OBVIOUS
    <3> QED BY <2>1, <3>1 DEF Improved
  <2>3. ASSUME NEW k \in 0 .. 6
        PROVE  g[k] = IF k = 0 THEN 1 ELSE (g[k - 1] * (2 - u * g[k - 1])) % Modulus
    <3>1. k = 0 \/ k \in 1 .. 6
      OBVIOUS
    <3> HIDE DEF step
    <3>2. k = 0 => g[k] = 1
      BY <2>1
    <3>3. k \in 1 .. 6 => k # 0
      OBVIOUS
    <3> QED BY <2>2, <3>1, <3>2, <3>3, Zenon
  <2>4. Right(g)
    BY <2>3
  <2> QED BY <2>4
<1>5. Right(inverse)
  <2> HIDE DEF Right
  <2> QED BY <1>4
<1>6. inverse[0] = 1
  <2> DEFINE g == inverse
  <2> HIDE DEF g
  <2>1. Right(g)
    BY <1>5 DEF g
  <2>2. g[0] = 1
    BY <2>1
  <2> QED BY <2>2 DEF g
<1>7. ASSUME NEW k \in 0 .. 5 PROVE inverse[k + 1] = Improved(u, inverse[k])
  <2> DEFINE g == inverse  n == k + 1
  <2>1. n \in 0 .. 6 /\ n # 0 /\ n - 1 = k
    OBVIOUS
  <2> HIDE DEF g
  <2>2. Right(g)
    BY <1>5 DEF g
  <2> HIDE DEF n
  <2>3. g[n] = IF n = 0 THEN 1 ELSE (g[n - 1] * (2 - u * g[n - 1])) % Modulus
    BY <2>1, <2>2
  <2>4. g[n] = Improved(u, g[k])
    BY <2>1, <2>3 DEF Improved
  <2> QED BY <2>4 DEF g, n
<1>8. InverseOdd(u) = inverse[6]
  BY Zenon DEF InverseOdd
<1> HIDE DEF inverse, Right, step
<1>9. inverse[0] \in Residues /\ InvertsBits(u, inverse[0], 1)
  BY <1>1, <1>6, FirstBit
<1>10. ASSUME NEW k \in 0 .. 5, NEW c \in Nat, NEW e \in Nat, e = 2 * c,
              inverse[k] \in Residues, InvertsBits(u, inverse[k], c)
       PROVE  inverse[k + 1] \in Residues /\ InvertsBits(u, inverse[k + 1], e)
  <2> DEFINE i == inverse[k]
  <2> HIDE DEF i
  <2>1. i \in Residues /\ InvertsBits(u, i, c)
    BY <1>10 DEF i
  <2>2. Improved(u, i) \in Residues /\ InvertsBits(u, Improved(u, i), e)
    BY <1>10, <2>1, NewtonStep
  <2> QED BY <1>7, <2>2 DEF i
<1>11. inverse[1] \in Residues /\ InvertsBits(u, inverse[1], 2)
  BY <1>9, <1>10
<1>12. inverse[2] \in Residues /\ InvertsBits(u, inverse[2], 4)
  BY <1>11, <1>10
<1>13. inverse[3] \in Residues /\ InvertsBits(u, inverse[3], 8)
  BY <1>12, <1>10
<1>14. inverse[4] \in Residues /\ InvertsBits(u, inverse[4], 16)
  BY <1>13, <1>10
<1>15. inverse[5] \in Residues /\ InvertsBits(u, inverse[5], 32)
  BY <1>14, <1>10
<1>16. inverse[6] \in Residues /\ InvertsBits(u, inverse[6], 64)
  BY <1>15, <1>10
<1>17. Congruent(u * inverse[6], 1, 2 ^ SystemWidth)
  <2> DEFINE i == inverse[6]
  <2> HIDE DEF i
  <2>1. InvertsBits(u, i, 64)
    BY <1>16 DEF i
  <2>2. SystemWidth \in 0 .. SystemWidth /\ SystemWidth <= 64
    BY <1>1
  <2>3. Congruent(u * i, 1, 2 ^ SystemWidth)
    BY <2>1, <2>2 DEF InvertsBits
  <2> QED BY <2>3 DEF i
<1> QED BY <1>8, <1>16, <1>17 DEF Modulus

(* So it can be taken out of a congruence. *)
LEMMA InverseUnit ==
  ASSUME NEW u \in Nat, u % 2 = 1
  PROVE  Unit(InverseOdd(u))
<1>1. InverseOdd(u) \in Residues /\ Congruent(u * InverseOdd(u), 1, Modulus)
  BY InverseForm
<1>2. InverseOdd(u) \in Int
  BY <1>1, ModulusPositive DEF Residues
<1> QED BY <1>1, <1>2 DEF Unit

(* There is a pivot where there is an entry, and all entries have its zeros. *)
LEMMA PivotLeast ==
  ASSUME NEW m, NEW n, IsMatrix(matrix, m, n), rank \in Nat, Entries # {}
  PROVE  /\ Pivot \in Entries
         /\ \A q \in Entries : TrailingZeros(matrix[Pivot[1]][Pivot[2]]) <= TrailingZeros(matrix[q[1]][q[2]])
<1> DEFINE Z(p) == TrailingZeros(matrix[p[1]][p[2]])
<1>1. ASSUME NEW p \in Entries PROVE p[1] \in Nat /\ p[2] \in Nat /\ Z(p) \in Nat
  <2>1. Len(matrix) = m /\ Len(matrix[1]) = n
    BY SystemRows, Sizes
  <2>2. /\ p[1] \in rank + 1 .. m /\ p[2] \in rank + 1 .. n
        /\ matrix[p[1]][p[2]] # 0
    BY <2>1 DEF Entries
  <2>3. p[1] \in 1 .. m /\ p[2] \in 1 .. n /\ m \in Nat /\ n \in Nat
    BY <2>2, Sizes
  <2> DEFINE x == matrix[p[1]][p[2]]
  <2>4. x \in Residues /\ x # 0
    BY <2>2, <2>3, SystemRows
  <2> HIDE DEF x
  <2>5. TrailingZeros(x) \in Nat
    BY <2>4, TrailingForm, SystemAssumption
  <2> QED BY <2>3, <2>5 DEF x
<1> DEFINE f == [p \in Entries |-> Z(p)]
<1>2. f \in [Entries -> Nat] /\ \A p \in Entries : f[p] = Z(p)
  BY <1>1
<1> HIDE DEF f
<1>3. PICK a \in Entries : \A q \in Entries : Z(a) <= Z(q)
  BY <1>2, LeastMeasure
<1> DEFINE E == {p \in Entries : Z(p) = Z(a)}
           g == [p \in E |-> p[1]]
<1>4. E # {} /\ (\A p \in E : p \in Entries /\ Z(p) = Z(a)) /\ \A p \in Entries : Z(p) = Z(a) => p \in E
  BY <1>3
<1> HIDE DEF E
<1>5. g \in [E -> Nat] /\ \A p \in E : g[p] = p[1]
  BY <1>1, <1>4
<1> HIDE DEF g
<1>6. PICK b \in E : \A q \in E : b[1] <= q[1]
  BY <1>4, <1>5, LeastMeasure
<1> DEFINE F == {p \in E : p[1] = b[1]}
           h == [p \in F |-> p[2]]
<1>7. F # {} /\ (\A p \in F : p \in E /\ p[1] = b[1]) /\ \A p \in E : p[1] = b[1] => p \in F
  BY <1>6
<1> HIDE DEF F
<1>8. h \in [F -> Nat] /\ \A p \in F : h[p] = p[2]
  BY <1>1, <1>4, <1>7
<1> HIDE DEF h
<1>9. PICK c \in F : \A q \in F : c[2] <= q[2]
  BY <1>7, <1>8, LeastMeasure
<1>10. c \in Entries /\ c \in E /\ Z(c) = Z(a) /\ c[1] = b[1]
  BY <1>4, <1>7, <1>9
<1> HIDE DEF Z
<1>11. ASSUME NEW q \in Entries
       PROVE  Z(c) < Z(q) \/ (Z(c) = Z(q) /\ (c[1] < q[1] \/ (c[1] = q[1] /\ c[2] <= q[2])))
  <2>1. Z(c) \in Nat /\ Z(q) \in Nat /\ Z(c) <= Z(q) /\ c[1] \in Nat /\ q[1] \in Nat
    BY <1>1, <1>3, <1>10
  <2>2. CASE Z(q) = Z(c)
    <3>1. q \in E
      BY <1>4, <1>10, <2>2
    <3>2. c[1] <= q[1] /\ (c[1] = q[1] => c[2] <= q[2])
      BY <1>6, <1>7, <1>9, <1>10, <3>1
    <3> QED BY <2>1, <2>2, <3>2
  <2>3. CASE Z(q) # Z(c)
    BY <2>1, <2>3
  <2> QED BY <2>2, <2>3
<1>12. \A q \in Entries : Precedes(c, q)
  BY <1>11 DEF Precedes, Z
<1>13. Pivot \in Entries /\ \A q \in Entries : Precedes(Pivot, q)
  BY <1>10, <1>12 DEF Pivot
<1>14. ASSUME NEW q \in Entries PROVE Z(Pivot) <= Z(q)
  <2>1. Z(Pivot) \in Nat /\ Z(q) \in Nat
    BY <1>1, <1>13
  <2>2. Z(Pivot) < Z(q) \/ Z(Pivot) = Z(q)
    BY <1>13 DEF Precedes, Z
  <2> QED BY <2>1, <2>2
<1> QED BY <1>13, <1>14 DEF Z

(* In the first k rows and columns only the diagonal is left, with powers of  *)
(* two.                                                                      *)
Cleaned(a, k, m, n) ==
  \A i \in 1 .. m : \A j \in 1 .. n : (i <= k \/ j <= k) /\ i # j => a[i][j] = 0
PivotAt(x) == \E v \in 0 .. SystemWidth - 1 : x = 2 ^ v
Diagonalised(a, k, m, n) ==
  k \in Nat /\ k <= m /\ k <= n /\ Cleaned(a, k, m, n) /\ \A i \in 1 .. k : PivotAt(a[i][i])
(* The others are multiples of d. *)
Multiple(x, d) == \E q \in Int : x = d * q
Divisible(a, k, d, m, n) == \A i \in k + 1 .. m : \A j \in k + 1 .. n : Multiple(a[i][j], d)

(* Swapping rows and columns that are left keeps both. *)
LEMMA RowsSwappedReduced ==
  ASSUME NEW a, NEW m, NEW n, NEW k, NEW d, IsMatrix(a, m, n), Diagonalised(a, k, m, n), Divisible(a, k, d, m, n),
         NEW r \in k + 1 .. m, NEW p \in k + 1 .. m
  PROVE  Diagonalised(Swap(a, r, p), k, m, n) /\ Divisible(Swap(a, r, p), k, d, m, n) /\ Swap(a, r, p)[r] = a[p]
<1> DEFINE c == Swap(a, r, p)
<1>1. m \in Nat /\ n \in Nat /\ k \in Nat /\ k <= m /\ k <= n /\ a \in [1 .. m -> Vector(n)]
  BY Sizes DEF Diagonalised, IsMatrix
<1>2. r \in 1 .. m /\ p \in 1 .. m /\ r > k /\ p > k
  BY <1>1
<1>3. c[r] = a[p] /\ c[p] = a[r] /\ \A i \in 1 .. m : i # r /\ i # p => c[i] = a[i]
  BY <1>1, <1>2 DEF Swap
<1> HIDE DEF c
<1>4. ASSUME NEW i \in 1 .. m, NEW j \in 1 .. n, i <= k \/ j <= k, i # j PROVE c[i][j] = 0
  <2>1. Cleaned(a, k, m, n)
    BY DEF Diagonalised
  <2>2. CASE i = r
    <3>1. p # j /\ a[p][j] = 0
      BY <1>1, <1>2, <1>4, <2>1, <2>2 DEF Cleaned
    <3> QED BY <1>3, <2>2, <3>1
  <2>3. CASE i = p
    <3>1. r # j /\ a[r][j] = 0
      BY <1>1, <1>2, <1>4, <2>1, <2>3 DEF Cleaned
    <3> QED BY <1>3, <2>3, <3>1
  <2>4. CASE i # r /\ i # p
    <3>1. a[i][j] = 0
      BY <1>4, <2>1 DEF Cleaned
    <3> QED BY <1>3, <2>4, <3>1
  <2> QED BY <2>2, <2>3, <2>4
<1>5. Cleaned(c, k, m, n)
  BY <1>4 DEF Cleaned
<1>6. ASSUME NEW i \in 1 .. k PROVE PivotAt(c[i][i])
  <2>1. i # r /\ i # p /\ i \in 1 .. m
    BY <1>1, <1>2
  <2> QED BY <1>3, <2>1 DEF Diagonalised
<1>7. ASSUME NEW i \in k + 1 .. m, NEW j \in k + 1 .. n PROVE Multiple(c[i][j], d)
  <2>1. i \in 1 .. m
    BY <1>1
  <2>2. c[i] = a[p] \/ c[i] = a[r] \/ c[i] = a[i]
    BY <1>3, <2>1
  <2> QED BY <2>2 DEF Divisible
<1>8. Diagonalised(c, k, m, n)
  BY <1>1, <1>5, <1>6 DEF Diagonalised
<1>9. Divisible(c, k, d, m, n)
  BY <1>7 DEF Divisible
<1> QED BY <1>3, <1>8, <1>9 DEF c

(* The same of columns. *)
LEMMA ColumnsSwappedReduced ==
  ASSUME NEW a, NEW m, NEW n, NEW k, NEW d, IsMatrix(a, m, n), Diagonalised(a, k, m, n), Divisible(a, k, d, m, n),
         NEW r \in k + 1 .. n, NEW p \in k + 1 .. n
  PROVE  /\ Diagonalised(ColumnsSwapped(a, r, p), k, m, n) /\ Divisible(ColumnsSwapped(a, r, p), k, d, m, n)
         /\ \A i \in 1 .. m : ColumnsSwapped(a, r, p)[i][r] = a[i][p]
<1> DEFINE c == ColumnsSwapped(a, r, p)
<1>1. /\ m \in Nat /\ n \in Nat /\ k \in Nat /\ k <= m /\ k <= n
      /\ \A i \in 1 .. m : a[i] \in Vector(n)
  BY Sizes, SystemRows DEF Diagonalised
<1>2. r \in 1 .. n /\ p \in 1 .. n /\ r > k /\ p > k
  BY <1>1
<1>3. ASSUME NEW i \in 1 .. m
      PROVE c[i][r] = a[i][p] /\ c[i][p] = a[i][r] /\ \A j \in 1 .. n : j # r /\ j # p => c[i][j] = a[i][j]
  <2>1. c[i] = Swap(a[i], r, p)
    <3>1. \A l \in 1 .. m : ColumnsSwapped(a, r, p)[l] = Swap(a[l], r, p)
      <4>1. IsMatrix(a, m, n) /\ r \in 1 .. n /\ p \in 1 .. n
        BY <1>2
      <4> HIDE DEF c
      <4> QED BY ONLY <4>1, ColumnsSwappedFollow
    <3> QED BY <3>1
  <2> DEFINE u == a[i]
  <2>2. u \in [1 .. n -> Residues]
    BY <1>1 DEF Vector
  <2> HIDE DEF u
  <2>3. /\ Swap(u, r, p)[r] = u[p] /\ Swap(u, r, p)[p] = u[r]
        /\ \A j \in 1 .. n : j # r /\ j # p => Swap(u, r, p)[j] = u[j]
    BY <1>1, <1>2, <2>2 DEF Swap
  <2> HIDE DEF c
  <2> QED BY <2>1, <2>3 DEF u
<1> HIDE DEF c
<1>4. ASSUME NEW i \in 1 .. m, NEW j \in 1 .. n, i <= k \/ j <= k, i # j PROVE c[i][j] = 0
  <2>1. Cleaned(a, k, m, n)
    BY DEF Diagonalised
  <2>2. CASE j = r
    <3>1. p # i /\ a[i][p] = 0
      BY <1>1, <1>2, <1>4, <2>1, <2>2 DEF Cleaned
    <3> QED BY <1>3, <2>2, <3>1
  <2>3. CASE j = p
    <3>1. r # i /\ a[i][r] = 0
      BY <1>1, <1>2, <1>4, <2>1, <2>3 DEF Cleaned
    <3> QED BY <1>3, <2>3, <3>1
  <2>4. CASE j # r /\ j # p
    <3>1. a[i][j] = 0
      BY <1>4, <2>1 DEF Cleaned
    <3> QED BY <1>3, <2>4, <3>1
  <2> QED BY <2>2, <2>3, <2>4
<1>5. Cleaned(c, k, m, n)
  BY <1>4 DEF Cleaned
<1>6. ASSUME NEW i \in 1 .. k PROVE PivotAt(c[i][i])
  <2>1. i # r /\ i # p /\ i \in 1 .. m /\ i \in 1 .. n
    BY <1>1, <1>2
  <2>2. c[i][i] = a[i][i]
    BY <1>3, <2>1
  <2> QED BY <2>2 DEF Diagonalised
<1>7. ASSUME NEW i \in k + 1 .. m, NEW j \in k + 1 .. n PROVE Multiple(c[i][j], d)
  <2>1. i \in 1 .. m /\ j \in 1 .. n
    BY <1>1
  <2>2. c[i][j] = a[i][p] \/ c[i][j] = a[i][r] \/ c[i][j] = a[i][j]
    BY <1>3, <2>1
  <2> QED BY <2>2 DEF Divisible
<1>8. Diagonalised(c, k, m, n)
  BY <1>1, <1>5, <1>6 DEF Diagonalised
<1>9. Divisible(c, k, d, m, n)
  BY <1>7 DEF Divisible
<1> QED BY <1>3, <1>8, <1>9 DEF c

(* What divides a number and the modulus divides the remainder. *)
LEMMA RestMultiple ==
  ASSUME NEW d \in Int, NEW x \in Int, Multiple(x, d), Multiple(Modulus, d)
  PROVE  Multiple(x % Modulus, d)
<1>1. PICK q \in Int : x = d * q
  BY DEF Multiple
<1>2. PICK w \in Int : Modulus = d * w
  BY DEF Multiple
<1> DEFINE y == x % Modulus
<1>3. y \in Int /\ Congruent(y, x, Modulus)
  <2>1. y \in 0 .. Modulus - 1 /\ Congruent(y, x, Modulus)
    BY ModulusPositive, CongruentRest
  <2> HIDE DEF y
  <2> QED BY <2>1, ModulusPositive
<1>4. PICK s \in Int : y = x + Modulus * s
  BY <1>3 DEF Congruent
<1> HIDE DEF y
<1>5. y = d * (q + w * s) /\ q + w * s \in Int
  <2>1. d * q + (d * w) * s = d * (q + w * s)
    OBVIOUS
  <2> QED BY <1>1, <1>2, <1>4, <2>1
<1> QED BY <1>5 DEF Multiple, y

(* A pivot divides the modulus and is less. *)
LEMMA PivotForm ==
  ASSUME NEW x, PivotAt(x)
  PROVE  x \in Nat \ {0} /\ x \in Residues /\ Multiple(Modulus, x)
<1>1. PICK v \in 0 .. SystemWidth - 1 : x = 2 ^ v
  BY DEF PivotAt
<1>2. SystemWidth \in Nat /\ v \in Nat /\ v + 1 \in Nat /\ v + 1 <= SystemWidth
  BY SystemAssumption
<1>3. x \in Nat \ {0} /\ 2 ^ (v + 1) = 2 * x
  BY <1>1, <1>2, PowPositive, PowNext
<1>4. PICK q \in Nat : 2 ^ SystemWidth = 2 ^ (v + 1) * q
  BY <1>2, PowMultiple
<1>5. Modulus = (2 * x) * q
  BY <1>3, <1>4 DEF Modulus
<1>6. Modulus = x * (2 * q) /\ 2 * q \in Int
  BY <1>3, <1>5
<1>7. q # 0
  BY <1>3, <1>5, ModulusPositive
<1>8. x <= Modulus - 1
  <2>1. x * (2 * q) >= x * 2
    BY <1>3, <1>7
  <2> QED BY <1>3, <1>6, <2>1, ModulusPositive
<1> QED BY <1>3, <1>6, <1>8 DEF Multiple, Residues

(* The next pivot is in its place, and what is left is divided by its power   *)
(* of two.                                                                   *)
PivotPlaced(a, k, m, n, r) ==
  IsMatrix(a, m, n) /\ Diagonalised(a, k, m, n) /\ r = k + 1 /\ r <= m /\ r <= n
Scalable(a, k, m, n, r) ==
  PivotPlaced(a, k, m, n, r) /\ a[r][r] # 0 /\ Divisible(a, k, 2 ^ TrailingZeros(a[r][r]), m, n)

(* Scaling the row makes the pivot a power of two. *)
LEMMA ScaledReduced ==
  ASSUME NEW a, NEW m, NEW n, NEW k, NEW r, Scalable(a, k, m, n, r)
  PROVE  /\ IsMatrix(Scaled1(a, r), m, n) /\ Diagonalised(Scaled1(a, r), k, m, n)
         /\ Divisible(Scaled1(a, r), k, 2 ^ TrailingZeros(a[r][r]), m, n)
         /\ Scaled1(a, r)[r][r] = 2 ^ TrailingZeros(a[r][r]) /\ PivotAt(Scaled1(a, r)[r][r])
         /\ Unit(InverseOdd(UnitOf(a[r][r])))
<1> USE DEF Scalable, PivotPlaced
<1> DEFINE x == a[r][r]  v == TrailingZeros(x)  d == 2 ^ v  u == UnitOf(x)  w == InverseOdd(u)
           c == [a EXCEPT ![r] = RowTimes(@, w)]
<1>1. /\ m \in Nat /\ n \in Nat /\ k \in Nat /\ k <= m /\ k <= n /\ a \in [1 .. m -> Vector(n)]
      /\ r \in 1 .. m /\ r \in 1 .. n /\ r > k /\ a[r] \in Vector(n)
      /\ Modulus \in Nat \ {0}
  <2>1. m \in Nat /\ n \in Nat /\ k \in Nat /\ k <= m /\ k <= n
    BY Sizes DEF Diagonalised
  <2>2. r \in 1 .. m /\ r \in 1 .. n /\ r > k
    BY <2>1
  <2>3. a \in [1 .. m -> Vector(n)] /\ a[r] \in Vector(n)
    BY <2>2 DEF IsMatrix
  <2> QED BY <2>1, <2>2, <2>3, ModulusPositive
<1>2. x \in Residues /\ x # 0
  BY <1>1, SystemRows
<1> HIDE DEF x
<1>3. v \in 0 .. SystemWidth - 1 /\ u \in Nat /\ u % 2 = 1 /\ x = d * u
  BY <1>2, TrailingForm
<1>4. PivotAt(d)
  BY <1>3 DEF PivotAt
<1> HIDE DEF v, u, d
<1>5. w \in Residues /\ Congruent(u * w, 1, Modulus) /\ Unit(w)
  BY <1>3, InverseForm, InverseUnit
<1>6. w \in Int
  BY <1>1, <1>5 DEF Residues
<1> HIDE DEF w
<1>7. d \in Nat \ {0} /\ d \in Residues /\ Multiple(Modulus, d)
  BY <1>4, PivotForm
<1>8. Scaled1(a, r) = c
  BY DEF Scaled1, w, u, x
<1>9. /\ c[r] = RowTimes(a[r], w) /\ \A i \in 1 .. m : i # r => c[i] = a[i]
  BY <1>1
<1>10. /\ RowTimes(a[r], w) \in Vector(n)
       /\ \A j \in 1 .. n : RowTimes(a[r], w)[j] = (a[r][j] * w) % Modulus
  BY <1>1, <1>6, RowTimesForm
<1>11. c \in [1 .. m -> Vector(n)]
  BY <1>1, <1>10
<1> HIDE DEF c
<1>12. \A j \in 1 .. n : c[r][j] = (a[r][j] * w) % Modulus
  BY <1>9, <1>10
<1>13. IsMatrix(c, m, n)
  BY <1>11 DEF IsMatrix
<1>14. c[r][r] = d
  <2>1. c[r][r] = (x * w) % Modulus
    BY <1>1, <1>12 DEF x
  <2> DEFINE e == u * w  o == 1  f == d * o  g == x * w
  <2>2. e \in Int /\ o \in Int /\ d \in Int /\ Modulus \in Int /\ Congruent(e, o, Modulus)
    BY <1>1, <1>3, <1>5, <1>6, <1>7
  <2>3. g = d * e /\ f = d /\ g \in Int
    BY <1>3, <1>6, <1>7
  <2> HIDE DEF e, o
  <2>4. Congruent(d * e, d * o, Modulus)
    BY <2>2, CongruentTimes
  <2>5. Congruent(g, d, Modulus)
    BY <2>3, <2>4
  <2> HIDE DEF g
  <2>6. g % Modulus = d
    BY <1>1, <1>7, <2>3, <2>5, RestIs DEF Residues
  <2> QED BY <2>1, <2>6 DEF g
<1>15. ASSUME NEW i \in 1 .. m, NEW j \in 1 .. n, a[i][j] = 0 PROVE c[i][j] = 0
  <2>1. CASE i = r
    <3>1. 0 * w = 0 /\ 0 % Modulus = 0
      BY <1>1, <1>6
    <3> QED BY <1>12, <1>15, <2>1, <3>1
  <2>2. CASE i # r
    BY <1>9, <1>15, <2>2
  <2> QED BY <2>1, <2>2
<1>16. Cleaned(c, k, m, n)
  BY <1>15 DEF Diagonalised, Cleaned
<1>17. ASSUME NEW i \in 1 .. k PROVE PivotAt(c[i][i])
  <2>1. i # r /\ i \in 1 .. m
    BY <1>1
  <2> QED BY <1>9, <2>1 DEF Diagonalised
<1>18. ASSUME NEW i \in k + 1 .. m, NEW j \in k + 1 .. n PROVE Multiple(c[i][j], d)
  <2>1. i \in 1 .. m /\ j \in 1 .. n
    BY <1>1
  <2>2. Multiple(a[i][j], d)
    BY DEF Divisible, d, v, x
  <2>3. CASE i = r
    <3> DEFINE y == a[i][j] * w
    <3>1. PICK q \in Int : a[i][j] = d * q
      BY <2>2 DEF Multiple
    <3>2. y = d * (q * w) /\ q * w \in Int /\ y \in Int
      BY <1>6, <1>7, <3>1
    <3>3. c[i][j] = y % Modulus
      BY <1>12, <2>1, <2>3
    <3> HIDE DEF y
    <3>4. Multiple(y, d) /\ d \in Int
      BY <1>7, <3>2 DEF Multiple
    <3> QED BY <1>7, <3>2, <3>3, <3>4, RestMultiple
  <2>4. CASE i # r
    BY <1>9, <2>1, <2>2, <2>4
  <2> QED BY <2>3, <2>4
<1>19. Diagonalised(c, k, m, n)
  BY <1>1, <1>16, <1>17 DEF Diagonalised
<1>20. Divisible(c, k, d, m, n)
  BY <1>18 DEF Divisible
<1> QED BY <1>4, <1>5, <1>8, <1>13, <1>14, <1>19, <1>20 DEF d, v, x, w, u

(* Taking nothing leaves an entry, taking the quotient leaves nothing.         *)
LEMMA LessNothing ==
  ASSUME NEW x \in Residues, NEW y \in Int, NEW z \in Int, y = 0 \/ z = 0
  PROVE  (x - y * z) % Modulus = x
<1> DEFINE w == x - y * z
<1>1. w = x
  <2>1. x \in Int /\ y * z = 0
    BY ModulusPositive DEF Residues
  <2> QED BY <2>1
<1> HIDE DEF w
<1>2. x % Modulus = x
  <2>1. Modulus \in Nat \ {0} /\ x \in 0 .. Modulus - 1 /\ x \in Int /\ Modulus \in Int
    BY ModulusPositive DEF Residues
  <2>2. Congruent(x, x, Modulus)
    BY <2>1, CongruentSame
  <2> QED BY <2>1, <2>2, RestIs
<1> QED BY <1>1, <1>2 DEF w

(* Taking the quotient leaves nothing. *)
LEMMA LessAll ==
  ASSUME NEW x \in Int, NEW d \in Nat \ {0}, Multiple(x, d)
  PROVE  (x - Quotient(x, d) * d) % Modulus = 0 /\ Quotient(x, d) \in Int
<1>1. PICK q \in Int : x = d * q
  BY DEF Multiple
<1> DEFINE z == 0  w == d * q + z
<1>2. z \in 0 .. d - 1 /\ w = x
  BY <1>1
<1> HIDE DEF z
<1>3. w \div d = q
  BY <1>2, DivUnique
<1>4. Quotient(x, d) = q
  BY <1>2, <1>3 DEF Quotient
<1>5. x - q * d = 0
  BY <1>1
<1>6. 0 % Modulus = 0
  BY ModulusPositive
<1> QED BY <1>4, <1>5, <1>6

(* Nothing is no multiple. *)
LEMMA QuotientNone == \A d \in Nat \ {0} : Quotient(0, d) = 0
  BY DEF Quotient

(* Quotients are integers. *)
LEMMA QuotientInt == \A x \in Int : \A d \in Nat \ {0} : Quotient(x, d) \in Int
  BY DivMod DEF Quotient

(* A pivot that divides the entries left is alone in its column when the rows *)
(* are cleared ...                                                           *)
LEMMA RowsClearedReduced ==
  ASSUME NEW a, NEW b, NEW m, NEW n, NEW k, NEW r, IsSystem(a, b, m, n), PivotPlaced(a, k, m, n, r),
         PivotAt(a[r][r]), Divisible(a, k, a[r][r], m, n)
  PROVE  /\ Diagonalised(RowsCleared(a, r), k, m, n) /\ RowsCleared(a, r)[r] = a[r]
         /\ \A i \in 1 .. m : i # r => RowsCleared(a, r)[i][r] = 0
<1> USE DEF PivotPlaced
<1> DEFINE c == RowsCleared(a, r)  d == a[r][r]
<1>1. m \in Nat /\ n \in Nat /\ k \in Nat /\ k <= m /\ k <= n /\ r \in 1 .. m /\ r \in 1 .. n /\ r > k
  <2>1. m \in Nat /\ n \in Nat /\ k \in Nat /\ k <= m /\ k <= n
    BY Sides, Sizes DEF Diagonalised
  <2> QED BY <2>1
<1>2. \A i \in 1 .. m : \A j \in 1 .. n : a[i][j] \in Residues /\ a[i][j] \in Int
  BY Sides, SystemRows
<1>3. d \in Nat \ {0}
  BY PivotForm
<1>4. /\ c[r] = a[r]
      /\ \A i \in 1 .. m : i # r => \A j \in 1 .. n :
           c[i][j] = (a[i][j] - Quotient(a[i][r], d) * a[r][j]) % Modulus
  <2>1. Clearable(a, m, n, r)
    BY <1>1, <1>3, Sides DEF Clearable
  <2> QED BY <2>1, EquationsCleared
<1> HIDE DEF c, d
<1>5. ASSUME NEW i \in 1 .. m, i # r, NEW j \in 1 .. n, i <= k \/ j <= k PROVE c[i][j] = a[i][j]
  <2>1. c[i][j] = (a[i][j] - Quotient(a[i][r], d) * a[r][j]) % Modulus
    BY <1>4, <1>5
  <2> DEFINE y == Quotient(a[i][r], d)  z == a[r][j]  x == a[i][j]
  <2>2. y \in Int /\ z \in Int /\ x \in Residues
    BY <1>1, <1>2, <1>3, QuotientInt
  <2>3. y = 0 \/ z = 0
    <3>1. CASE i <= k
      <4>1. a[i][r] = 0
        BY <1>1, <1>5, <3>1 DEF Diagonalised, Cleaned
      <4> QED BY <1>3, <4>1, QuotientNone
    <3>2. CASE j <= k
      <4>1. r # j
        BY <1>1, <3>2
      <4>2. a[r][j] = 0
        BY <1>1, <3>2, <4>1 DEF Diagonalised, Cleaned
      <4> QED BY <4>2
    <3> QED BY <1>5, <3>1, <3>2
  <2> HIDE DEF x, y, z
  <2>4. (x - y * z) % Modulus = x
    BY <2>2, <2>3, LessNothing
  <2> QED BY <2>1, <2>4 DEF x, y, z
<1>6. Cleaned(c, k, m, n)
  <2> SUFFICES ASSUME NEW i \in 1 .. m, NEW j \in 1 .. n, i <= k \/ j <= k, i # j PROVE c[i][j] = 0
    BY DEF Cleaned
  <2>1. a[i][j] = 0
    BY DEF Diagonalised, Cleaned
  <2> QED BY <1>4, <1>5, <2>1
<1>7. ASSUME NEW i \in 1 .. k PROVE PivotAt(c[i][i])
  <2>1. i # r /\ i \in 1 .. m /\ i \in 1 .. n /\ i <= k
    BY <1>1
  <2>2. c[i][i] = a[i][i]
    BY <1>5, <2>1
  <2> QED BY <2>2 DEF Diagonalised
<1>8. ASSUME NEW i \in 1 .. m, i # r PROVE c[i][r] = 0
  <2>1. CASE i <= k
    <3>1. a[i][r] = 0
      BY <1>1, <1>8, <2>1 DEF Diagonalised, Cleaned
    <3> QED BY <1>1, <1>5, <1>8, <2>1, <3>1
  <2>2. CASE ~(i <= k)
    <3>1. i \in k + 1 .. m /\ r \in k + 1 .. n
      BY <1>1, <2>2
    <3>2. Multiple(a[i][r], d)
      BY <3>1 DEF Divisible, d
    <3> DEFINE x == a[i][r]
    <3>3. c[i][r] = (x - Quotient(x, d) * d) % Modulus
      BY <1>1, <1>4, <1>8 DEF d
    <3>4. x \in Int
      BY <1>1, <1>2
    <3> HIDE DEF x
    <3>5. Multiple(x, d)
      BY <3>2 DEF x
    <3>6. (x - Quotient(x, d) * d) % Modulus = 0
      BY <1>3, <3>4, <3>5, LessAll
    <3> QED BY <3>3, <3>6
  <2> QED BY <2>1, <2>2
<1>9. Diagonalised(c, k, m, n)
  BY <1>1, <1>6, <1>7 DEF Diagonalised
<1> QED BY <1>4, <1>8, <1>9 DEF c

(* ... and then in its row when the columns are.                              *)
LEMMA ColumnsClearedReduced ==
  ASSUME NEW a, NEW m, NEW n, NEW k, NEW r, PivotPlaced(a, k, m, n, r), PivotAt(a[r][r]),
         \A j \in k + 1 .. n : Multiple(a[r][j], a[r][r]),
         \A i \in 1 .. m : i # r => a[i][r] = 0
  PROVE  Diagonalised(ColumnsCleared(a, a, r), r, m, n)
<1> USE DEF PivotPlaced
<1> DEFINE c == ColumnsCleared(a, a, r)  d == a[r][r]
<1>1. m \in Nat /\ n \in Nat /\ k \in Nat /\ k <= m /\ k <= n /\ r \in 1 .. m /\ r \in 1 .. n /\ r > k /\ r \in Nat
  <2>1. m \in Nat /\ n \in Nat /\ k \in Nat /\ k <= m /\ k <= n
    BY Sizes DEF Diagonalised
  <2> QED BY <2>1
<1>2. \A i \in 1 .. m : \A j \in 1 .. n : a[i][j] \in Residues /\ a[i][j] \in Int
  BY SystemRows
<1>3. d \in Nat \ {0}
  BY PivotForm
<1>4. \A i \in 1 .. m :
        /\ c[i][r] = a[i][r]
        /\ \A j \in 1 .. n : j # r =>
             c[i][j] = (a[i][j] - Quotient(a[r][j], d) * a[i][r]) % Modulus
  <2>1. Clearable(a, m, n, r) /\ IsMatrix(a, m, n)
    BY <1>1, <1>3 DEF Clearable
  <2> QED BY <2>1, ColumnsClearedFollow
<1> HIDE DEF c, d
<1>5. ASSUME NEW i \in 1 .. m, NEW j \in 1 .. n, i # r \/ j = r PROVE c[i][j] = a[i][j]
  <2>1. CASE j = r
    BY <1>4, <2>1
  <2>2. CASE j # r
    <3> DEFINE y == Quotient(a[r][j], d)  z == a[i][r]  x == a[i][j]
    <3>1. c[i][j] = (x - y * z) % Modulus
      BY <1>4, <2>2
    <3>2. y \in Int /\ z \in Int /\ x \in Residues
      BY <1>1, <1>2, <1>3, QuotientInt
    <3>3. z = 0
      BY <1>5, <2>2
    <3> HIDE DEF x, y, z
    <3>4. (x - y * z) % Modulus = x
      BY <3>2, <3>3, LessNothing
    <3> QED BY <3>1, <3>4 DEF x
  <2> QED BY <2>1, <2>2
<1>6. ASSUME NEW j \in 1 .. n, j # r PROVE c[r][j] = 0
  <2> DEFINE x == a[r][j]
  <2>1. c[r][j] = (x - Quotient(x, d) * d) % Modulus
    BY <1>1, <1>4, <1>6 DEF d
  <2>2. x \in Int
    BY <1>1, <1>2
  <2>3. Multiple(x, d)
    <3>1. CASE j <= k
      <4>1. x = d * 0
        BY <1>1, <1>3, <1>6, <3>1 DEF Diagonalised, Cleaned
      <4> HIDE DEF x
      <4> QED BY <4>1 DEF Multiple
    <3>2. CASE ~(j <= k)
      <4>1. j \in k + 1 .. n
        BY <1>1, <3>2
      <4> QED BY <4>1 DEF d
    <3> QED BY <3>1, <3>2
  <2> HIDE DEF x
  <2>4. (x - Quotient(x, d) * d) % Modulus = 0
    BY <1>3, <2>2, <2>3, LessAll
  <2> QED BY <2>1, <2>4
<1>7. Cleaned(c, r, m, n)
  <2> SUFFICES ASSUME NEW i \in 1 .. m, NEW j \in 1 .. n, i <= r \/ j <= r, i # j PROVE c[i][j] = 0
    BY DEF Cleaned
  <2>1. CASE i = r
    BY <1>6, <2>1
  <2>2. CASE i # r
    <3>1. c[i][j] = a[i][j]
      BY <1>5, <2>2
    <3>2. CASE j = r
      BY <2>2, <3>1, <3>2
    <3>3. CASE j # r
      <4>1. i <= k \/ j <= k
        BY <1>1, <2>2, <3>3
      <4>2. a[i][j] = 0
        BY <4>1 DEF Diagonalised, Cleaned
      <4> QED BY <3>1, <4>2
    <3> QED BY <3>2, <3>3
  <2> QED BY <2>1, <2>2
<1>8. ASSUME NEW i \in 1 .. r PROVE PivotAt(c[i][i])
  <2>1. i \in 1 .. m /\ i \in 1 .. n
    BY <1>1
  <2>2. c[i][i] = a[i][i]
    <3>1. i # r \/ i = r
      OBVIOUS
    <3> QED BY <1>5, <2>1, <3>1
  <2>3. CASE i = r
    BY <2>2, <2>3
  <2>4. CASE i # r
    <3>1. i \in 1 .. k
      BY <1>1, <2>4
    <3> QED BY <2>2, <3>1 DEF Diagonalised
  <2> QED BY <2>3, <2>4
<1>9. r <= m /\ r <= n
  OBVIOUS
<1>10. Diagonalised(c, r, m, n)
  BY <1>1, <1>7, <1>8, <1>9 DEF Diagonalised
<1> QED BY <1>10 DEF c

(* Systems with the same solutions have the same image.                       *)
LEMMA SameImage ==
  ASSUME NEW a, NEW b, NEW c, NEW d, NEW m, NEW n, SameSolutions(a, b, c, d, m, n)
  PROVE  \A t : Image(t, c, d, m, n) = Image(t, a, b, m, n)
<1>1. {x \in Vector(n) : Solved(c, d, x, m, n)} = {x \in Vector(n) : Solved(a, b, x, m, n)}
  BY DEF SameSolutions
<1> QED BY <1>1, Zenon DEF Image

(* What Eliminate makes of a system with p for its pivot.                     *)
LEMMA EliminateStep ==
  ASSUME NEW a, NEW b, NEW m, NEW n, NEW t, NEW k, IsSystem(a, b, m, n), IsMatrix(t, n, n), Diagonalised(a, k, m, n),
         NEW r, r = k + 1, NEW p, p[1] \in r .. m, p[2] \in r .. n, a[p[1]][p[2]] # 0,
         Divisible(a, k, 2 ^ TrailingZeros(a[p[1]][p[2]]), m, n),
         NEW c, c = Scaled1(Moved(a, r, p), r), NEW e, e = RowsCleared(c, r),
         NEW s, s = RhsCleared([Swap(b, r, p[1]) EXCEPT
                                  ![r] = (@ * InverseOdd(UnitOf(Moved(a, r, p)[r][r]))) % Modulus], c, r)
  PROVE  /\ IsSystem(ColumnsCleared(e, e, r), s, m, n) /\ IsMatrix(Combined(t, e, r, p), n, n)
         /\ Diagonalised(ColumnsCleared(e, e, r), r, m, n)
         /\ Image(Combined(t, e, r, p), ColumnsCleared(e, e, r), s, m, n) = Image(t, a, b, m, n)
<1> DEFINE i == p[1]  j == p[2]  x == a[i][j]  d == 2 ^ TrailingZeros(x)
           a1 == Swap(a, r, i)  b1 == Swap(b, r, i)  a2 == ColumnsSwapped(a1, r, j)  t1 == ColumnsSwapped(t, r, j)
           w == InverseOdd(UnitOf(a2[r][r]))
           b2 == [b1 EXCEPT ![r] = (@ * w) % Modulus]
           f == ColumnsCleared(e, e, r)  t2 == ColumnsCleared(t1, e, r)
<1>1. /\ m \in Nat /\ n \in Nat /\ k \in Nat /\ k <= m /\ k <= n /\ IsMatrix(a, m, n)
      /\ r \in k + 1 .. m /\ r \in k + 1 .. n /\ i \in k + 1 .. m /\ j \in k + 1 .. n
      /\ r \in 1 .. m /\ r \in 1 .. n /\ i \in 1 .. m /\ j \in 1 .. n /\ r <= m /\ r <= n
  <2>1. m \in Nat /\ n \in Nat /\ k \in Nat /\ k <= m /\ k <= n /\ IsMatrix(a, m, n)
    BY Sides, Sizes DEF Diagonalised
  <2> QED BY <2>1
<1>2. c = Scaled1(a2, r) /\ s = RhsCleared(b2, c, r) /\ Combined(t, e, r, p) = t2
  BY DEF Moved, Combined
<1>3. x # 0 /\ Divisible(a, k, d, m, n)
  OBVIOUS
<1> HIDE DEF a1, b1, i, j
<1>4. IsSystem(a1, b1, m, n) /\ SameSolutions(a, b, a1, b1, m, n) /\ IsMatrix(a1, m, n)
  <2>1. IsSystem(a1, b1, m, n) /\ SameSolutions(a, b, a1, b1, m, n)
    BY <1>1, RowsSwapped DEF a1, b1
  <2> QED BY <2>1, Sides
<1>5. Diagonalised(a1, k, m, n) /\ Divisible(a1, k, d, m, n) /\ a1[r] = a[i]
  <2> HIDE DEF d
  <2> QED BY <1>1, <1>3, RowsSwappedReduced DEF a1
<1> HIDE DEF a2, t1, d
<1>6. /\ IsMatrix(a2, m, n) /\ IsMatrix(t1, n, n)
      /\ Follows(a2, a1, Swapping(n, r, j), m, n) /\ Follows(t1, t, Swapping(n, r, j), n, n)
  BY <1>1, <1>4, ColumnsSwappedFollow DEF a2, t1
<1>7. Changes(Swapping(n, r, j), n)
  BY <1>1, SwapChanges
<1>8. Diagonalised(a2, k, m, n) /\ Divisible(a2, k, d, m, n) /\ a2[r][r] = x
  <2>1. Diagonalised(a2, k, m, n) /\ Divisible(a2, k, d, m, n) /\ a2[r][r] = a1[r][j]
    BY <1>1, <1>4, <1>5, ColumnsSwappedReduced DEF a2
  <2> QED BY <1>5, <2>1
<1>9. IsSystem(a2, b1, m, n)
  BY <1>4, <1>6 DEF IsSystem
<1>10. Image(t1, a2, b1, m, n) = Image(t, a1, b1, m, n)
  <2> DEFINE g == Swapping(n, r, j)
  <2> HIDE DEF g
  <2>1. Changes(g, n) /\ Follows(a2, a1, g, m, n) /\ Follows(t1, t, g, n, n)
    BY <1>6, <1>7 DEF g
  <2> QED BY <1>4, <1>6, <2>1, VariablesChanged
<1>11. /\ IsMatrix(c, m, n) /\ Diagonalised(c, k, m, n) /\ Divisible(c, k, d, m, n) /\ c[r][r] = d /\ PivotAt(d)
       /\ Unit(w)
  <2> DEFINE y == 2 ^ TrailingZeros(a2[r][r])
  <2>1. y = d /\ a2[r][r] # 0
    BY <1>3, <1>8 DEF d
  <2> HIDE DEF y
  <2>2. Divisible(a2, k, y, m, n)
    BY <1>8, <2>1
  <2>3. /\ IsMatrix(Scaled1(a2, r), m, n) /\ Diagonalised(Scaled1(a2, r), k, m, n)
        /\ Divisible(Scaled1(a2, r), k, y, m, n)
        /\ Scaled1(a2, r)[r][r] = y /\ PivotAt(Scaled1(a2, r)[r][r])
        /\ Unit(InverseOdd(UnitOf(a2[r][r])))
    <3>1. Scalable(a2, k, m, n, r)
      BY <1>1, <1>6, <1>8, <2>1, <2>2 DEF y, Scalable, PivotPlaced
    <3>2. /\ IsMatrix(Scaled1(a2, r), m, n) /\ Diagonalised(Scaled1(a2, r), k, m, n)
          /\ Divisible(Scaled1(a2, r), k, 2 ^ TrailingZeros(a2[r][r]), m, n)
          /\ Scaled1(a2, r)[r][r] = 2 ^ TrailingZeros(a2[r][r]) /\ PivotAt(Scaled1(a2, r)[r][r])
          /\ Unit(InverseOdd(UnitOf(a2[r][r])))
      BY <3>1, ScaledReduced
    <3> QED BY <3>2 DEF y
  <2>4. Divisible(c, k, d, m, n) /\ c[r][r] = d /\ PivotAt(d)
    BY <1>2, <2>1, <2>3
  <2>5. IsMatrix(c, m, n) /\ Diagonalised(c, k, m, n)
    BY <1>2, <2>3
  <2>6. Unit(w)
    BY <2>3
  <2> QED BY <2>4, <2>5, <2>6
<1>12. IsSystem(c, b2, m, n) /\ SameSolutions(a2, b1, c, b2, m, n)
  <2> HIDE DEF w
  <2>1. /\ IsSystem([a2 EXCEPT ![r] = RowTimes(@, w)], [b1 EXCEPT ![r] = (@ * w) % Modulus], m, n)
        /\ SameSolutions(a2, b1, [a2 EXCEPT ![r] = RowTimes(@, w)], [b1 EXCEPT ![r] = (@ * w) % Modulus], m, n)
    BY <1>1, <1>9, <1>11, RowScaled
  <2>2. c = [a2 EXCEPT ![r] = RowTimes(@, w)]
    BY <1>2 DEF Scaled1, w
  <2> QED BY <2>1, <2>2
<1> HIDE DEF b2, w
<1>13. d \in Nat \ {0}
  BY <1>11, PivotForm
<1>14. IsSystem(e, s, m, n) /\ SameSolutions(c, b2, e, s, m, n)
  <2>1. Clearable(c, m, n, r)
    BY <1>1, <1>11, <1>13 DEF Clearable
  <2> QED BY <1>2, <1>12, <2>1, EquationsCleared
<1>15. Diagonalised(e, k, m, n) /\ e[r] = c[r] /\ \A l \in 1 .. m : l # r => e[l][r] = 0
  <2>1. PivotPlaced(c, k, m, n, r) /\ PivotAt(c[r][r]) /\ Divisible(c, k, c[r][r], m, n)
    BY <1>1, <1>11 DEF PivotPlaced
  <2>2. /\ Diagonalised(RowsCleared(c, r), k, m, n) /\ RowsCleared(c, r)[r] = c[r]
        /\ \A l \in 1 .. m : l # r => RowsCleared(c, r)[l][r] = 0
    BY <1>12, <2>1, RowsClearedReduced
  <2> QED BY <2>2
<1>16. e[r][r] = d /\ IsMatrix(e, m, n)
  BY <1>11, <1>14, <1>15, Sides
<1>17. Diagonalised(f, r, m, n)
  <2>1. \A l \in k + 1 .. n : Multiple(e[r][l], e[r][r])
    BY <1>1, <1>11, <1>15, <1>16 DEF Divisible
  <2>2. PivotAt(e[r][r]) /\ PivotPlaced(e, k, m, n, r)
    BY <1>1, <1>11, <1>15, <1>16 DEF PivotPlaced
  <2> HIDE DEF f
  <2>3. Diagonalised(ColumnsCleared(e, e, r), r, m, n)
    BY <1>15, <2>1, <2>2, ColumnsClearedReduced
  <2> QED BY <2>3 DEF f
<1> DEFINE q == Multiples(e, r, n)
<1> HIDE DEF q, f, t2
<1>18. /\ Others(q, r, n) /\ IsMatrix(f, m, n) /\ IsMatrix(t2, n, n)
       /\ Follows(f, e, Shifting(q, r, n), m, n) /\ Follows(t2, t1, Shifting(q, r, n), n, n)
  <2>1. Clearable(e, m, n, r)
    BY <1>1, <1>13, <1>16 DEF Clearable
  <2>2. Others(q, r, n) /\ IsMatrix(f, m, n) /\ Follows(f, e, Shifting(q, r, n), m, n)
    BY <1>1, <1>16, <2>1, ColumnsClearedFollow DEF q, f
  <2>3. IsMatrix(t2, n, n) /\ Follows(t2, t1, Shifting(q, r, n), n, n)
    BY <1>1, <1>6, <1>16, <2>1, ColumnsClearedFollow DEF q, t2
  <2> QED BY <2>2, <2>3
<1>19. Image(t2, f, s, m, n) = Image(t1, e, s, m, n)
  <2> DEFINE g == Shifting(q, r, n)
  <2>1. Changes(g, n)
    BY <1>1, <1>18, ShiftChanges
  <2> HIDE DEF g
  <2>2. Changes(g, n) /\ Follows(f, e, g, m, n) /\ Follows(t2, t1, g, n, n)
    BY <1>18, <2>1 DEF g
  <2> QED BY <1>6, <1>14, <1>18, <2>2, VariablesChanged
<1>20. IsSystem(f, s, m, n)
  BY <1>14, <1>18 DEF IsSystem
<1>21. Image(t2, f, s, m, n) = Image(t, a, b, m, n)
  <2>1. Image(t1, e, s, m, n) = Image(t1, c, b2, m, n)
    BY <1>14, SameImage
  <2>2. Image(t1, c, b2, m, n) = Image(t1, a2, b1, m, n)
    BY <1>12, SameImage
  <2>3. Image(t, a1, b1, m, n) = Image(t, a, b, m, n)
    BY <1>4, SameImage
  <2> QED BY <1>10, <1>19, <2>1, <2>2, <2>3
<1> QED BY <1>2, <1>17, <1>18, <1>20, <1>21 DEF f

(* A well-formed system is one of rows and columns. *)
LEMMA SystemsForm ==
  ASSUME NEW sys \in Systems
  PROVE  IsSystem(sys.matrix, sys.rhs, Len(sys.matrix), Len(sys.matrix[1]))
<1> DEFINE a == sys.matrix  b == sys.rhs  m == Len(a)  n == Len(a[1])
<1>1. /\ a \in Seq(Seq(Residues)) /\ b \in Seq(Residues) /\ Len(a) = Len(b) /\ Len(a) > 0 /\ Len(a[1]) > 0
      /\ \A i \in DOMAIN a : Len(a[i]) = Len(a[1])
  BY SystemAssumption DEF WellFormedSystem
<1> HIDE DEF a, b
<1>2. m \in Nat \ {0} /\ DOMAIN a = 1 .. m /\ 1 \in 1 .. m /\ \A i \in 1 .. m : a[i] \in Seq(Residues)
  BY <1>1
<1>3. n \in Nat \ {0}
  BY <1>1, <1>2
<1>4. ASSUME NEW i \in 1 .. m PROVE a[i] \in Vector(n)
  <2>1. a[i] \in Seq(Residues) /\ Len(a[i]) = n
    BY <1>1, <1>2
  <2> QED BY <2>1 DEF Vector
<1>5. a \in [1 .. m -> Vector(n)]
  BY <1>1, <1>2, <1>4
<1>6. b \in Vector(m)
  BY <1>1 DEF Vector
<1>7. IsSystem(a, b, m, n)
  BY <1>2, <1>3, <1>5, <1>6 DEF IsSystem, IsMatrix
<1> QED BY <1>7 DEF a, b

(* The identity leaves vectors as they are. *)
LEMMA IdentityForm ==
  ASSUME NEW n \in Nat \ {0}
  PROVE  IsMatrix(Identity(n), n, n) /\ \A z \in Vector(n) : Product0(Identity(n), z) = z
<1> DEFINE row(i) == [j \in 1 .. n |-> IF i = j THEN 1 ELSE 0]  c == [i \in 1 .. n |-> row(i)]
<1>1. ASSUME NEW i \in 1 .. n
      PROVE  /\ row(i) \in Vector(n) /\ row(i) \o <<>> = row(i) /\ row(i) \in Row(n)
             /\ OnlyAt(row(i), i, n) /\ row(i)[i] = 1
  <2>1. row(i) \in Vector(n)
    BY ModulusTwo DEF Vector
  <2>2. row(i) \in [1 .. n -> Residues] /\ n \in Nat
    BY <2>1 DEF Vector
  <2>3. OnlyAt(row(i), i, n) /\ row(i)[i] = 1
    BY DEF OnlyAt
  <2> HIDE DEF row
  <2>4. row(i) \o <<>> = row(i)
    BY <2>2, Padded
  <2>5. row(i) \in Row(n)
    BY <2>1, VectorRow
  <2> QED BY <2>1, <2>3, <2>4, <2>5
<1>2. c \in [1 .. n -> Vector(n)]
  BY <1>1
<1>3. Identity(n) = c
  <2>1. \A i \in 1 .. n : row(i) \o <<>> = row(i)
    BY <1>1
  <2>2. Identity(n) = [i \in 1 .. n |-> row(i) \o <<>>] \o <<>>
    BY DEF Identity
  <2> HIDE DEF row
  <2>3. Identity(n) = c \o <<>>
    BY <2>1, <2>2
  <2> HIDE DEF c
  <2> QED BY <1>2, <2>3, Padded
<1>4. \A i \in 1 .. n : c[i] = row(i)
  OBVIOUS
<1> HIDE DEF c, row
<1>5. IsMatrix(c, n, n)
  BY <1>2 DEF IsMatrix
<1>6. ASSUME NEW z \in Vector(n) PROVE Product0(c, z) = z
  <2>1. z \in [1 .. n -> Residues] /\ z \in Row(n) /\ DOMAIN c = 1 .. n
    BY <1>2, VectorRow DEF Vector
  <2>2. ASSUME NEW i \in 1 .. n PROVE Dot(c[i], z) = z[i]
    <3> DEFINE u == row(i)  o == 1
    <3>1. u \in Row(n) /\ OnlyAt(u, i, n) /\ u[i] = o
      BY <1>1
    <3> HIDE DEF u
    <3>2. Inner(u, z, n) = u[i] * z[i]
      BY <2>1, <3>1, InnerOnly
    <3>3. z[i] \in Residues /\ z[i] \in Int
      BY <2>1, ModulusPositive DEF Residues
    <3>4. Inner(u, z, n) = z[i]
      BY <3>1, <3>2, <3>3
    <3>5. Congruent(Inner(u, z, n), z[i], Modulus)
      BY <3>3, <3>4, ModulusPositive, CongruentSame
    <3>6. Dot(u, z) = z[i]
      BY <2>1, <3>1, <3>3, <3>5, DotInner
    <3> QED BY <1>4, <3>6 DEF u
  <2>3. Product0(c, z) = [i \in 1 .. n |-> z[i]]
    BY <2>1, <2>2 DEF Product0
  <2> QED BY <2>1, <2>3
<1> QED BY <1>3, <1>5, <1>6

(* What a transform makes of the solutions, as a set of products. *)
LEMMA ImageIs ==
  ASSUME NEW t, NEW a, NEW b, NEW m, NEW n, IsSystem(a, b, m, n)
  PROVE  Image(t, a, b, m, n) = {Product0(t, z) : z \in SolutionsOf([matrix |-> a, rhs |-> b])}
<1>1. SolutionsOf([matrix |-> a, rhs |-> b]) = {x \in Vector(n) : Solved(a, b, x, m, n)}
  BY SolutionsAre
<1> QED BY <1>1 DEF Image

(* Where nothing but the diagonal is left, each equation has one variable or  *)
(* none.                                                                     *)
Empty(a, k, m, n) == \A i \in k + 1 .. m : \A j \in k + 1 .. n : a[i][j] = 0

(* The solutions are those of the diagonal, if the other sides are zero. *)
LEMMA DiagonalRows ==
  ASSUME NEW a, NEW b, NEW m, NEW n, NEW k, IsSystem(a, b, m, n), Diagonalised(a, k, m, n), Empty(a, k, m, n),
         NEW x \in Vector(n)
  PROVE  Solved(a, b, x, m, n) <=>
           /\ \A i \in 1 .. k : Congruent(a[i][i] * x[i], b[i], Modulus)
           /\ \A i \in k + 1 .. m : b[i] = 0
<1>1. m \in Nat /\ n \in Nat /\ k \in Nat /\ k <= m /\ k <= n /\ IsMatrix(a, m, n)
  BY Sides, Sizes DEF Diagonalised
<1>2. x \in Row(n) /\ \A i \in 1 .. m : a[i] \in Row(n) /\ b[i] \in Residues /\ b[i] \in Int
  BY <1>1, VectorRow, SystemRows, Sides
<1>3. ASSUME NEW i \in 1 .. k PROVE Inner(a[i], x, n) = a[i][i] * x[i]
  <2>1. i \in 1 .. m /\ i \in 1 .. n /\ i <= k
    BY <1>1
  <2>2. OnlyAt(a[i], i, n)
    BY <2>1 DEF Diagonalised, Cleaned, OnlyAt
  <2> QED BY <1>1, <1>2, <2>1, <2>2, InnerOnly
<1>4. ASSUME NEW i \in k + 1 .. m PROVE Congruent(Inner(a[i], x, n), b[i], Modulus) <=> b[i] = 0
  <2>1. i \in 1 .. m
    BY <1>1
  <2>2. ASSUME NEW j \in 1 .. n PROVE a[i][j] = 0
    <3>1. CASE j <= k
      <4>1. i # j
        BY <1>1, <3>1
      <4> QED BY <2>1, <3>1, <4>1 DEF Diagonalised, Cleaned
    <3>2. CASE ~(j <= k)
      <4>1. j \in k + 1 .. n
        BY <1>1, <3>2
      <4> QED BY <4>1 DEF Empty
    <3> QED BY <3>1, <3>2
  <2> DEFINE z == 0
  <2>3. Inner(a[i], x, n) = z
    BY <1>1, <1>2, <2>1, <2>2, InnerNone
  <2>4. z \in Residues /\ z \in Int /\ b[i] \in Residues /\ Modulus \in Nat \ {0}
    BY <1>2, <2>1, ModulusTwo
  <2> DEFINE y == b[i]
  <2> HIDE DEF z, y
  <2>5. Congruent(z, y, Modulus) => z = y
    BY <2>4, CongruentEqual DEF Residues, y
  <2>6. Congruent(z, z, Modulus)
    BY <2>4, CongruentSame
  <2>7. Congruent(z, y, Modulus) <=> y = z
    BY <2>5, <2>6
  <2> QED BY <2>3, <2>7 DEF y, z
<1>5. (1 .. m) = (1 .. k) \cup (k + 1 .. m)
  BY <1>1
<1>6. Solved(a, b, x, m, n) <=>
        /\ \A i \in 1 .. k : Congruent(Inner(a[i], x, n), b[i], Modulus)
        /\ \A i \in k + 1 .. m : Congruent(Inner(a[i], x, n), b[i], Modulus)
  BY <1>5 DEF Solved
<1> QED BY <1>3, <1>4, <1>6

(* One variable has a solution if and only if the pivot divides the right     *)
(* side, and then the quotient is one.                                       *)
LEMMA PivotSolves ==
  ASSUME NEW d, PivotAt(d), NEW b \in Residues
  PROVE  /\ b \div d \in Residues
         /\ b % d = 0 => Congruent(d * (b \div d), b, Modulus)
         /\ \A x \in Residues : Congruent(d * x, b, Modulus) => b % d = 0
<1>1. d \in Nat \ {0} /\ Multiple(Modulus, d) /\ Modulus \in Nat \ {0} /\ b \in Nat /\ b \in Int
  BY PivotForm, ModulusPositive DEF Residues
<1> DEFINE q == b \div d  r == b % d
<1>2. b = d * q + r /\ r \in 0 .. d - 1 /\ q \in Int
  BY <1>1, DivMod
<1> HIDE DEF q, r
<1>3. q >= 0
  <2> SUFFICES ASSUME q <= -1 PROVE FALSE
    BY <1>2
  <2>1. d * q <= -d
    BY <1>1, <1>2
  <2> QED BY <1>1, <1>2, <2>1
<1>4. q <= b
  <2>1. d * q >= q
    BY <1>1, <1>2, <1>3
  <2> QED BY <1>1, <1>2, <1>3, <2>1
<1>5. q \in Residues
  BY <1>1, <1>2, <1>3, <1>4 DEF Residues
<1>6. ASSUME r = 0 PROVE Congruent(d * q, b, Modulus)
  <2>1. d * q = b
    BY <1>1, <1>2, <1>6
  <2> QED BY <1>1, <2>1, CongruentSame
<1>7. ASSUME NEW x \in Residues, Congruent(d * x, b, Modulus) PROVE r = 0
  <2>1. x \in Int
    BY <1>1 DEF Residues
  <2> DEFINE y == d * x
  <2>2. y \in Int
    BY <1>1, <2>1
  <2>3. Congruent(y, b, Modulus)
    BY <1>7
  <2> HIDE DEF y
  <2>4. Congruent(b, y, Modulus)
    BY <1>1, <2>2, <2>3, CongruentSame
  <2>5. PICK s \in Int : b = y + Modulus * s
    BY <2>4 DEF Congruent
  <2>6. PICK w \in Int : Modulus = d * w
    BY <1>1 DEF Multiple
  <2> DEFINE e == x + w * s  z == 0
  <2>7. b = d * e + z /\ e \in Int /\ z \in 0 .. d - 1
    <3>1. d * x + (d * w) * s = d * e + z
      BY <1>1, <2>1
    <3> QED BY <1>1, <2>1, <2>5, <2>6, <3>1 DEF y
  <2> HIDE DEF e, z
  <2>8. b % d = z
    BY <1>1, <2>7, DivUnique
  <2> QED BY <2>8 DEF r, z
<1> QED BY <1>5, <1>6, <1>7 DEF q, r

(* Rows and columns of the system. *)
Height == Len(system.matrix)
Breadth == Len(system.matrix[1])

(* The system there is now is one of as many rows and columns, reduced as far *)
(* as rank; the transform is square and takes its solutions to those of the  *)
(* system that was given; an answer is right.                                *)
Answered ==
  solving = "done" =>
    /\ solution # <<>> => Satisfied
    /\ solution = <<>> => SolutionsOf(system) = {}
Shaped ==
  /\ system \in Systems /\ solving \in {"eliminate", "done"}
  /\ IsSystem(matrix, rhs, Height, Breadth) /\ IsMatrix(transform, Breadth, Breadth)
SystemInv == Shaped /\ Diagonalised(matrix, rank, Height, Breadth) /\ SolutionsCarried /\ Answered

(* It holds at the start. *)
LEMMA SystemStarts ==
  ASSUME SystemInit
  PROVE  SystemInv
<1> DEFINE m == Height  n == Breadth
<1>1. IsSystem(matrix, rhs, m, n) /\ system \in Systems /\ solving = "eliminate" /\ rank = 0
  BY SystemsForm DEF SystemInit, Height, Breadth
<1>2. transform = Identity(n) /\ matrix = system.matrix /\ rhs = system.rhs
  BY DEF SystemInit, Breadth
<1> HIDE DEF m, n
<1>3. m \in Nat \ {0} /\ n \in Nat \ {0}
  BY <1>1 DEF IsSystem, IsMatrix
<1>4. IsMatrix(transform, n, n) /\ \A z \in Vector(n) : Product0(transform, z) = z
  BY <1>2, <1>3, IdentityForm
<1>5. Diagonalised(matrix, rank, m, n)
  <2>1. \A i \in 1 .. m : \A j \in 1 .. n : ~(i <= 0 \/ j <= 0)
    BY <1>3
  <2>2. Cleaned(matrix, 0, m, n)
    BY <2>1 DEF Cleaned
  <2> QED BY <1>1, <1>3, <2>2 DEF Diagonalised
<1>6. SolutionsCarried
  <2> DEFINE S == SolutionsOf([matrix |-> matrix, rhs |-> rhs])
  <2>1. SolutionsOf(system) = {x \in Vector(n) : Solved(matrix, rhs, x, m, n)}
    BY <1>1, <1>2, SolutionsAre
  <2>2. S = {x \in Vector(n) : Solved(matrix, rhs, x, m, n)}
    BY <1>1, SolutionsAre
  <2>3. S \subseteq Vector(n)
    BY <2>2
  <2> HIDE DEF S
  <2>4. {Product0(transform, z) : z \in S} = S
    BY <1>4, <2>3
  <2> QED BY <2>1, <2>2, <2>4 DEF SolutionsCarried, S
<1>7. Answered
  BY <1>1 DEF Answered
<1> QED BY <1>1, <1>4, <1>5, <1>6, <1>7 DEF SystemInv, Shaped, m, n

(* Eliminating keeps it. *)
LEMMA EliminateKeeps ==
  ASSUME SystemInv, Eliminate
  PROVE  SystemInv'
<1> DEFINE m == Height  n == Breadth  r == rank + 1  p == Pivot
           c == Scaled1(Moved(matrix, r, p), r)  e == RowsCleared(c, r)
           s == RhsCleared([Swap(rhs, r, p[1]) EXCEPT
                              ![r] = (@ * InverseOdd(UnitOf(Moved(matrix, r, p)[r][r]))) % Modulus], c, r)
<1>1. /\ system \in Systems /\ solving = "eliminate" /\ Entries # {}
      /\ IsSystem(matrix, rhs, m, n) /\ IsMatrix(transform, n, n)
      /\ Diagonalised(matrix, rank, m, n) /\ SolutionsCarried
  BY DEF SystemInv, Shaped, Eliminate
<1>2. IsMatrix(matrix, m, n) /\ m \in Nat /\ n \in Nat /\ rank \in Nat /\ Len(matrix) = m /\ Len(matrix[1]) = n
  BY <1>1, Sides, Sizes, SystemRows DEF Diagonalised
<1>3. /\ p \in Entries
      /\ \A q \in Entries : TrailingZeros(matrix[p[1]][p[2]]) <= TrailingZeros(matrix[q[1]][q[2]])
  BY <1>1, <1>2, PivotLeast
<1>4. /\ matrix' = ColumnsCleared(e, e, r) /\ rhs' = s /\ transform' = Combined(transform, e, r, p)
      /\ rank' = r /\ system' = system /\ solving' = solving
  BY Zenon DEF Eliminate, Cleared
<1>5. Height' = m /\ Breadth' = n
  BY <1>4 DEF Height, Breadth
<1> HIDE DEF m, n, p
<1>6. p[1] \in r .. m /\ p[2] \in r .. n /\ matrix[p[1]][p[2]] # 0
  BY <1>2, <1>3 DEF Entries
<1>7. p[1] \in 1 .. m /\ p[2] \in 1 .. n
  BY <1>2, <1>6
<1> DEFINE v == TrailingZeros(matrix[p[1]][p[2]])
<1>8. v \in 0 .. SystemWidth - 1
  <2>1. matrix[p[1]][p[2]] \in Residues
    BY <1>2, <1>7, SystemRows
  <2> QED BY <1>6, <2>1, TrailingForm
<1>9. Divisible(matrix, rank, 2 ^ v, m, n)
  <2> SUFFICES ASSUME NEW i \in rank + 1 .. m, NEW j \in rank + 1 .. n PROVE Multiple(matrix[i][j], 2 ^ v)
    BY DEF Divisible
  <2> DEFINE x == matrix[i][j]
  <2>1. i \in 1 .. m /\ j \in 1 .. n
    BY <1>2
  <2>2. x \in Residues
    BY <1>2, <2>1, SystemRows
  <2>3. x # 0 => v <= TrailingZeros(x)
    <3>1. ASSUME x # 0 PROVE <<i, j>> \in Entries
      BY <1>2, <3>1 DEF Entries
    <3> QED BY <1>3, <3>1
  <2> HIDE DEF x, v
  <2>4. \E q \in Nat : x = 2 ^ v * q
    BY <1>8, <2>2, <2>3, MoreZeros
  <2> QED BY <2>4 DEF Multiple, x
<1> HIDE DEF c, e, s
<1>10. /\ IsSystem(ColumnsCleared(e, e, r), s, m, n) /\ IsMatrix(Combined(transform, e, r, p), n, n)
       /\ Diagonalised(ColumnsCleared(e, e, r), r, m, n)
       /\ Image(Combined(transform, e, r, p), ColumnsCleared(e, e, r), s, m, n) = Image(transform, matrix, rhs, m, n)
  BY <1>1, <1>6, <1>9, EliminateStep DEF c, e, s
<1>11. /\ IsSystem(matrix', rhs', m, n) /\ IsMatrix(transform', n, n) /\ Diagonalised(matrix', r, m, n)
       /\ Image(transform', matrix', rhs', m, n) = Image(transform, matrix, rhs, m, n)
  BY <1>4, <1>10
<1>12. SolutionsCarried'
  <2>1. SolutionsOf(system) = Image(transform, matrix, rhs, m, n)
    BY <1>1, ImageIs DEF SolutionsCarried
  <2>2. Image(transform', matrix', rhs', m, n)
          = {Product0(transform', z) : z \in SolutionsOf([matrix |-> matrix', rhs |-> rhs'])}
    BY <1>11, ImageIs
  <2>3. SolutionsOf(system') = SolutionsOf(system)
    BY <1>4
  <2> QED BY <1>11, <2>1, <2>2, <2>3 DEF SolutionsCarried
<1>13. Answered'
  BY <1>1, <1>4 DEF Answered
<1>14. Shaped'
  BY <1>1, <1>4, <1>5, <1>11 DEF Shaped
<1>15. Diagonalised(matrix, rank, Height, Breadth)'
  BY <1>4, <1>5, <1>11
<1> QED BY <1>12, <1>13, <1>14, <1>15 DEF SystemInv

(* Substitute0 answers: the diagonal solves the system there is now if each   *)
(* pivot divides its right side and the other right sides are zero, and only  *)
(* then does anything.                                                       *)
LEMMA SubstituteKeeps ==
  ASSUME SystemInv, Substitute0
  PROVE  SystemInv'
<1> DEFINE m == Height  n == Breadth  k == rank  a == matrix  b == rhs  t == transform
<1>1. /\ system \in Systems /\ Entries = {}
      /\ IsSystem(a, b, m, n) /\ IsMatrix(t, n, n) /\ Diagonalised(a, k, m, n) /\ SolutionsCarried
  BY DEF SystemInv, Shaped, Substitute0
<1>2. /\ IsMatrix(a, m, n) /\ m \in Nat /\ n \in Nat /\ k \in Nat /\ k <= m /\ k <= n
      /\ Len(a) = m /\ Len(a[1]) = n /\ Len(b) = m
  <2>1. /\ IsMatrix(a, m, n) /\ m \in Nat /\ n \in Nat /\ k \in Nat /\ k <= m /\ k <= n
        /\ Len(a) = m /\ Len(a[1]) = n
    BY <1>1, Sides, Sizes, SystemRows DEF Diagonalised
  <2>2. Len(b) = m
    BY <1>1, <2>1, Padded DEF IsSystem, Vector
  <2> QED BY <2>1, <2>2
<1>3. /\ system' = system /\ matrix' = a /\ rhs' = b /\ transform' = t /\ rank' = k /\ solving' = "done"
      /\ solution' = IF Solvable THEN Product0(t, Diagonal) \o <<>> ELSE <<>>
  BY DEF Substitute0
<1>4. Height' = m /\ Breadth' = n
  BY <1>3 DEF Height, Breadth
<1>5. IsSystem(system.matrix, system.rhs, m, n)
  BY <1>1, SystemsForm DEF Height, Breadth
<1> HIDE DEF m, n
<1>6. Empty(a, k, m, n)
  <2> SUFFICES ASSUME NEW i \in k + 1 .. m, NEW j \in k + 1 .. n, a[i][j] # 0 PROVE FALSE
    BY DEF Empty
  <2>1. <<i, j>> \in Entries
    BY <1>2 DEF Entries
  <2> QED BY <1>1, <2>1
<1>7. SolutionsOf(system) = Image(t, a, b, m, n)
  BY <1>1, ImageIs DEF SolutionsCarried
<1>8. ASSUME NEW i \in 1 .. k PROVE PivotAt(a[i][i]) /\ b[i] \in Residues /\ i \in 1 .. n
  <2>1. i \in 1 .. m /\ i \in 1 .. n
    BY <1>2
  <2> QED BY <1>1, <2>1, Sides DEF Diagonalised
<1>9. ASSUME Solvable
      PROVE  solution' \in SolutionsOf(system) /\ solution' # <<>> /\ solution' \in [1 .. n -> Residues]
  <2>1. (\A i \in 1 .. k : b[i] % a[i][i] = 0) /\ \A i \in k + 1 .. m : b[i] = 0
    BY <1>2, <1>9 DEF Solvable
  <2> DEFINE x == [j \in 1 .. n |-> IF j <= k THEN b[j] \div a[j][j] ELSE 0]
  <2>2. Diagonal = x
    <3>1. DOMAIN t = 1 .. n
      BY <1>1, SystemRows
    <3> QED BY <3>1 DEF Diagonal
  <2>3. ASSUME NEW j \in 1 .. n PROVE x[j] \in Residues
    <3>1. CASE j <= k
      <4>1. j \in 1 .. k
        BY <1>2, <3>1
      <4>2. b[j] \div a[j][j] \in Residues
        BY <1>8, <4>1, PivotSolves
      <4> QED BY <3>1, <4>2
    <3>2. CASE ~(j <= k)
      BY <3>2, ModulusTwo
    <3> QED BY <3>1, <3>2
  <2>4. x \in Vector(n)
    BY <2>3 DEF Vector
  <2>5. ASSUME NEW i \in 1 .. k PROVE Congruent(a[i][i] * x[i], b[i], Modulus)
    <3>1. x[i] = b[i] \div a[i][i]
      BY <1>2, <1>8
    <3>2. Congruent(a[i][i] * (b[i] \div a[i][i]), b[i], Modulus)
      BY <1>8, <2>1, PivotSolves
    <3> HIDE DEF x
    <3> QED BY <3>1, <3>2
  <2> HIDE DEF x
  <2>6. Solved(a, b, x, m, n)
    BY <1>1, <1>6, <2>1, <2>4, <2>5, DiagonalRows
  <2>7. Product0(t, x) \in Image(t, a, b, m, n)
    BY <2>4, <2>6 DEF Image
  <2>8. SolutionsOf(system) \subseteq [1 .. n -> Residues]
    BY <1>5, SolutionsAre DEF Vector
  <2> DEFINE y == Product0(t, x)
  <2>9. y \in SolutionsOf(system) /\ y \in [1 .. n -> Residues]
    BY <1>7, <2>7, <2>8
  <2> HIDE DEF y
  <2>10. y \o <<>> = y
    BY <1>2, <2>9, Padded
  <2>11. solution' = y
    BY <1>3, <1>9, <2>2, <2>10 DEF y
  <2>12. y # <<>>
    <3>1. 1 \in DOMAIN y
      BY <1>1, <2>9, Sizes
    <3> QED BY <3>1
  <2> QED BY <2>9, <2>11, <2>12
<1>10. ASSUME ~Solvable PROVE solution' = <<>> /\ SolutionsOf(system) = {}
  <2>1. ASSUME NEW x \in Vector(n), Solved(a, b, x, m, n) PROVE FALSE
    <3>1. /\ \A i \in 1 .. k : Congruent(a[i][i] * x[i], b[i], Modulus)
          /\ \A i \in k + 1 .. m : b[i] = 0
      BY <1>1, <1>6, <2>1, DiagonalRows
    <3>2. ASSUME NEW i \in 1 .. k PROVE b[i] % a[i][i] = 0
      <4>1. x[i] \in Residues
        BY <1>8 DEF Vector
      <4> QED BY <1>8, <3>1, <4>1, PivotSolves
    <3>3. Solvable
      BY <1>2, <3>1, <3>2 DEF Solvable
    <3> QED BY <1>10, <3>3
  <2>2. Image(t, a, b, m, n) = {}
    BY <2>1 DEF Image
  <2> QED BY <1>3, <1>7, <1>10, <2>2
<1>11. ASSUME solution' \in SolutionsOf(system), solution' \in [1 .. n -> Residues] PROVE Satisfied'
  <2> DEFINE y == solution'
  <2>1. Product0(system.matrix, y) = system.rhs
    BY <1>11 DEF SolutionsOf
  <2>2. system.rhs \in [1 .. m -> Residues]
    BY <1>5 DEF IsSystem, Vector
  <2>3. system.rhs \o <<>> = system.rhs
    BY <1>2, <2>2, Padded
  <2> QED BY <1>3, <2>1, <2>3 DEF Satisfied
<1>12. Answered'
  <2>1. SolutionsOf(system') = SolutionsOf(system)
    BY <1>3
  <2> QED BY <1>9, <1>10, <1>11, <2>1 DEF Answered
<1>13. SolutionsCarried'
  <2>1. SolutionsOf(system)' = SolutionsOf(system)
    BY <1>3 DEF SolutionsOf, Product0, Dot, Vectors
  <2>2. SolutionsCarried' <=> SolutionsCarried
    BY <1>3 DEF SolutionsCarried
  <2> QED BY <1>1, <2>2
<1>14. Shaped'
  BY <1>1, <1>3, <1>4 DEF Shaped
<1>15. Diagonalised(matrix, rank, Height, Breadth)'
  BY <1>1, <1>3, <1>4
<1> QED BY <1>12, <1>13, <1>14, <1>15 DEF SystemInv

(* Rows and columns are combined without losing or gaining a solution: the    *)
(* matrix is diagonal with powers of two as far as rank, and the transform    *)
(* takes the solutions of the system there is now exactly to those of the    *)
(* system that was given, whatever its size.                                 *)
THEOREM SystemIsKept == SystemSpec => []SystemInv
<1>1. SystemInit => SystemInv
  BY SystemStarts
<1>2. SystemInv /\ [SystemNext]_systemVars => SystemInv'
  <2> SUFFICES ASSUME SystemInv, [SystemNext]_systemVars PROVE SystemInv'
    OBVIOUS
  <2>1. CASE Eliminate
    BY <2>1, EliminateKeeps
  <2>2. CASE Substitute0
    BY <2>2, SubstituteKeeps
  <2>3. CASE UNCHANGED systemVars
    <3>1. /\ system' = system /\ matrix' = matrix /\ rhs' = rhs /\ transform' = transform
          /\ rank' = rank /\ solving' = solving /\ solution' = solution
      BY <2>3 DEF systemVars
    <3>2. Shaped' /\ Diagonalised(matrix, rank, Height, Breadth)'
      BY <3>1 DEF SystemInv, Shaped, Height, Breadth
    <3>3. SolutionsCarried' /\ Answered'
      BY <3>1 DEF SystemInv, SolutionsCarried, Answered, Satisfied
    <3> QED BY <3>2, <3>3 DEF SystemInv
  <2> QED BY <2>1, <2>2, <2>3 DEF SystemNext
<1> QED BY <1>1, <1>2, PTL DEF SystemSpec

(* The property of the runs, of systems of at most two columns. *)
THEOREM SolutionsAreKept == SystemSpec => []SolutionsKept
<1>1. SystemInv => SolutionsKept
  BY DEF SystemInv, SolutionsKept
<1> QED BY <1>1, SystemIsKept, PTL

(* solve_modular_power_of_two returns a solution if there is one, and what it *)
(* returns is one.                                                           *)
THEOREM SystemIsAnswered == SystemSpec => []SystemAnswered
<1>1. SystemInv => SystemAnswered
  BY DEF SystemInv, Answered, SystemAnswered
<1> QED BY <1>1, SystemIsKept, PTL
=============================================================================
