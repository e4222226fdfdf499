---------------------------- MODULE ProgramProofs ----------------------------
(***************************************************************************)
(* Proofs about the IR program, for every set of identifiers and programs  *)
(* of every length.                                                        *)
(***************************************************************************)
EXTENDS Program, Inductions

-----------------------------------------------------------------------------
(* Kept: the recursion that defines it, then what it does to <<>> and to an    *)
(* appended member; everything else about it follows by SeqCases.             *)
Keeps(f, s, S) ==
  /\ f[0] = <<>>
  /\ \A i \in 1 .. Len(s) :
       f[i] = IF s[i] \in S THEN Append(f[i - 1], s[i]) ELSE f[i - 1]
  /\ Kept(s, S) = f[Len(s)]

LEMMA KeptRecursion ==
  ASSUME NEW V, NEW s \in Seq(V), NEW S
  PROVE  \E f \in [0 .. Len(s) -> Seq(V)] : Keeps(f, s, S)
<1> DEFINE n == Len(s)
           step == [i \in 1 .. n |-> [v \in Seq(V) |->
                      IF s[i] \in S THEN Append(v, s[i]) ELSE v]]
           rec(g) == [i \in 0 .. n |->
                        IF i = 0 THEN <<>>
                        ELSE IF s[i] \in S THEN Append(g[i - 1], s[i]) ELSE g[i - 1]]
<1>1. n \in Nat /\ \A i \in 1 .. n : s[i] \in V
  BY ElementOfSeq, LenProperties
<1>2. \A i \in 1 .. n, v \in Seq(V) :
        step[i][v] = (IF s[i] \in S THEN Append(v, s[i]) ELSE v) /\ step[i][v] \in Seq(V)
  BY <1>1, AppendProperties
<1>3. PICK g \in [0 .. n -> Seq(V)] :
        g[0] = <<>> /\ \A i \in 1 .. n : g[i] = step[i][g[i - 1]]
  <2> HIDE DEF step, n
  <2> DEFINE SV == Seq(V)
             b == <<>>
  <2>1. b \in SV /\ n \in Nat /\ step \in [1 .. n -> [SV -> SV]]
    BY <1>1, <1>2, EmptySeq DEF step
  <2> HIDE DEF SV, b
  <2>2. \E g \in [0 .. n -> SV] :
          g[0] = b /\ \A i \in 1 .. n : g[i] = step[i][g[i - 1]]
    BY <2>1, RecursionExists
  <2> QED BY <2>2 DEF SV, b
<1>4. \A i \in 1 .. n : g[i] = IF s[i] \in S THEN Append(g[i - 1], s[i]) ELSE g[i - 1]
  <2> HIDE DEF step, n
  <2> TAKE i \in 1 .. n
  <2>1. g[i - 1] \in Seq(V)
    BY <1>1, <1>3
  <2> QED BY <1>2, <1>3, <2>1
<1>5. g = rec(g)
  <2> HIDE DEF step, n
  <2>1. ASSUME NEW i \in 0 .. n PROVE g[i] = rec(g)[i]
    <3>1. CASE i = 0
      BY <1>3, <3>1
    <3>2. CASE i # 0
      <4>1. i \in 1 .. n
        BY <1>1, <3>2
      <4>2. rec(g)[i] = IF s[i] \in S THEN Append(g[i - 1], s[i]) ELSE g[i - 1]
        BY <3>2
      <4> QED BY <1>4, <4>1, <4>2
    <3> QED BY <3>1, <3>2
  <2> QED BY <1>3, <2>1
<1> DEFINE f == CHOOSE h : h = rec(h)
<1>6. f = rec(f)
  <2> HIDE DEF rec
  <2> QED BY <1>5
<1>7. Kept(s, S) = f[n]
  BY DEF Kept
<1>8. f[0] = <<>> /\ \A i \in 1 .. n :
        f[i] = IF s[i] \in S THEN Append(f[i - 1], s[i]) ELSE f[i - 1]
  <2> HIDE DEF f, n, step
  <2>1. 0 \in 0 .. n /\ rec(f)[0] = <<>>
    BY <1>1
  <2>2. ASSUME NEW i \in 1 .. n
        PROVE  f[i] = IF s[i] \in S THEN Append(f[i - 1], s[i]) ELSE f[i - 1]
    <3>1. i \in 0 .. n /\ i # 0
      BY <1>1
    <3>2. rec(f)[i] = IF s[i] \in S THEN Append(f[i - 1], s[i]) ELSE f[i - 1]
      BY <3>1
    <3>3. f[i] = rec(f)[i]
      BY <1>6, Zenon
    <3> QED BY <3>2, <3>3
  <2>3. f[0] = rec(f)[0]
    BY <1>6, Zenon
  <2> QED BY <2>1, <2>2, <2>3
<1>9. \A i \in 0 .. n : g[i] = f[i]
  <2> DEFINE T == {k \in Nat : k <= n => g[k] = f[k]}
  <2> HIDE DEF f, n, step, rec
  <2>1. 0 \in T
    BY <1>3, <1>8
  <2>2. ASSUME NEW k \in T PROVE k + 1 \in T
    <3> SUFFICES ASSUME k + 1 <= n PROVE g[k + 1] = f[k + 1]
      OBVIOUS
    <3>1. g[k] = f[k] /\ k + 1 \in 1 .. n /\ (k + 1) - 1 = k
      BY <1>1
    <3> QED BY <1>4, <1>8, <3>1
  <2>3. \A k \in Nat : k \in T
    <3> HIDE DEF T
    <3>1. T \in SUBSET Nat
      BY DEF T
    <3> QED BY <2>1, <2>2, <3>1, NatCases
  <2> QED BY <1>1, <2>3
<1>10. f \in [0 .. n -> Seq(V)]
  <2>1. f = g
    <3> HIDE DEF f, n, step
    <3> QED BY <1>3, <1>6, <1>9
  <2> HIDE DEF f
  <2> QED BY <1>3, <2>1
<1>11. Keeps(f, s, S)
  <2> HIDE DEF f, step, rec
  <2> QED BY <1>7, <1>8 DEF Keeps
<1> HIDE DEF f
<1> QED BY <1>10, <1>11

LEMMA KeptEmpty ==
  ASSUME NEW S
  PROVE  Kept(<<>>, S) = <<>>
<1>1. <<>> \in Seq({}) /\ Len(<<>>) = 0
  BY EmptySeq
<1>2. PICK f \in [0 .. Len(<<>>) -> Seq({})] : Keeps(f, <<>>, S)
  BY <1>1, KeptRecursion, Zenon
<1> QED BY <1>1, <1>2 DEF Keeps

LEMMA KeptAppend ==
  ASSUME NEW V, NEW s \in Seq(V), NEW x \in V, NEW S
  PROVE  Kept(Append(s, x), S) = IF x \in S THEN Append(Kept(s, S), x) ELSE Kept(s, S)
<1> DEFINE n == Len(s)
           t == Append(s, x)
<1>1. /\ n \in Nat /\ t \in Seq(V) /\ Len(t) = n + 1 /\ t[n + 1] = x
      /\ \A i \in 1 .. n : t[i] = s[i]
  BY AppendProperties, LenProperties
<1>2. PICK f \in [0 .. n -> Seq(V)] : Keeps(f, s, S)
  BY KeptRecursion, Zenon
<1>3. PICK h \in [0 .. Len(t) -> Seq(V)] : Keeps(h, t, S)
  BY <1>1, KeptRecursion, Zenon
<1> HIDE DEF t
<1>4. \A i \in 0 .. n : f[i] = h[i]
  <2> DEFINE T == {k \in Nat : k <= n => f[k] = h[k]}
  <2>1. 0 \in T
    BY <1>2, <1>3 DEF Keeps
  <2>2. ASSUME NEW k \in T PROVE k + 1 \in T
    <3> SUFFICES ASSUME k + 1 <= n PROVE f[k + 1] = h[k + 1]
      OBVIOUS
    <3>1. /\ f[k] = h[k] /\ k + 1 \in 1 .. n /\ (k + 1) - 1 = k
          /\ k + 1 \in 1 .. Len(t) /\ t[k + 1] = s[k + 1]
      BY <1>1
    <3> QED BY <1>2, <1>3, <3>1 DEF Keeps
  <2>3. \A k \in Nat : k \in T
    <3> HIDE DEF T
    <3>1. T \in SUBSET Nat
      BY DEF T
    <3> QED BY <2>1, <2>2, <3>1, NatCases
  <2> QED BY <1>1, <2>3
<1>5. f[n] = h[n]
  BY <1>1, <1>4
<1>6. h[n + 1] = IF x \in S THEN Append(h[n], x) ELSE h[n]
  <2>1. n + 1 \in 1 .. Len(t) /\ (n + 1) - 1 = n
    BY <1>1
  <2> QED BY <1>1, <1>3, <2>1 DEF Keeps
<1>7. Kept(s, S) = f[n] /\ Kept(t, S) = h[n + 1]
  BY <1>1, <1>2, <1>3 DEF Keeps
<1> QED BY <1>5, <1>6, <1>7 DEF t

-----------------------------------------------------------------------------
(* The members of a sequence, whether they are distinct, and which comes       *)
(* before which.                                                              *)
Distinct(s) == \A i, j \in DOMAIN s : s[i] = s[j] => i = j
Before(s, v, u) == \E i, j \in DOMAIN s : i < j /\ s[i] = v /\ s[j] = u

LEMMA ElemsEmpty ==
  Elems(<<>>) = {} /\ Distinct(<<>>) /\ \A v, u : ~ Before(<<>>, v, u)
BY DEF Elems, Distinct, Before

LEMMA AppendMembers ==
  ASSUME NEW V, NEW s \in Seq(V), NEW x \in V
  PROVE  /\ Elems(Append(s, x)) = Elems(s) \cup {x}
         /\ Distinct(Append(s, x)) <=> Distinct(s) /\ x \notin Elems(s)
         /\ \A v, u : Before(Append(s, x), v, u) <=>
                        Before(s, v, u) \/ (u = x /\ v \in Elems(s))
<1> DEFINE n == Len(s)
           t == Append(s, x)
<1>1. /\ n \in Nat /\ DOMAIN s = 1 .. n /\ DOMAIN t = 1 .. n + 1 /\ t[n + 1] = x
      /\ \A i \in 1 .. n : t[i] = s[i]
  <2>1. t \in Seq(V) /\ Len(t) = n + 1 /\ t[n + 1] = x /\ \A i \in 1 .. n : t[i] = s[i]
    BY AppendProperties
  <2> HIDE DEF t
  <2> QED BY <2>1, LenProperties
<1> HIDE DEF n, t
<1>2. Elems(t) = Elems(s) \cup {x}
  <2>1. ASSUME NEW y \in Elems(t) PROVE y \in Elems(s) \cup {x}
    BY <1>1 DEF Elems
  <2>2. ASSUME NEW y \in Elems(s) PROVE y \in Elems(t)
    <3>1. PICK i \in 1 .. n : y = s[i]
      BY <1>1 DEF Elems
    <3>2. i \in 1 .. n + 1 /\ y = t[i]
      BY <1>1, <3>1
    <3> QED BY <1>1, <3>2 DEF Elems
  <2>3. x \in Elems(t)
    BY <1>1 DEF Elems
  <2> QED BY <2>1, <2>2, <2>3
<1>3. Distinct(t) <=> Distinct(s) /\ x \notin Elems(s)
  <2>1. ASSUME Distinct(t) PROVE Distinct(s)
    BY <1>1, <2>1 DEF Distinct
  <2>2. ASSUME Distinct(t), x \in Elems(s) PROVE FALSE
    <3>1. PICK i \in 1 .. n : s[i] = x
      BY <1>1, <2>2 DEF Elems
    <3> QED BY <1>1, <2>2, <3>1 DEF Distinct
  <2>3. ASSUME Distinct(s), x \notin Elems(s) PROVE Distinct(t)
    <3> SUFFICES ASSUME NEW i \in 1 .. n + 1, NEW j \in 1 .. n + 1, t[i] = t[j]
                 PROVE  i = j
      BY <1>1 DEF Distinct
    <3>1. \A k \in 1 .. n : s[k] # x
      BY <1>1, <2>3 DEF Elems
    <3> QED BY <1>1, <2>3, <3>1 DEF Distinct
  <2> QED BY <2>1, <2>2, <2>3
<1>4. ASSUME NEW v, NEW u
      PROVE  Before(t, v, u) <=> Before(s, v, u) \/ (u = x /\ v \in Elems(s))
  <2>1. ASSUME Before(t, v, u) PROVE Before(s, v, u) \/ (u = x /\ v \in Elems(s))
    <3>1. PICK i \in 1 .. n + 1, j \in 1 .. n + 1 : i < j /\ t[i] = v /\ t[j] = u
      BY <1>1, <2>1 DEF Before
    <3>2. i \in 1 .. n /\ s[i] = v
      BY <1>1, <3>1
    <3>3. CASE j = n + 1
      BY <1>1, <3>1, <3>2, <3>3 DEF Elems
    <3>4. CASE j \in 1 .. n
      BY <1>1, <3>1, <3>2, <3>4 DEF Before
    <3> QED BY <1>1, <3>1, <3>3, <3>4
  <2>2. ASSUME Before(s, v, u) PROVE Before(t, v, u)
    <3>1. PICK i \in 1 .. n, j \in 1 .. n : i < j /\ s[i] = v /\ s[j] = u
      BY <1>1, <2>2 DEF Before
    <3>2. i \in 1 .. n + 1 /\ j \in 1 .. n + 1 /\ t[i] = v /\ t[j] = u
      BY <1>1, <3>1
    <3> QED BY <1>1, <3>1, <3>2 DEF Before
  <2>3. ASSUME u = x, v \in Elems(s) PROVE Before(t, v, u)
    <3>1. PICK i \in 1 .. n : v = s[i]
      BY <1>1, <2>3 DEF Elems
    <3>2. i \in 1 .. n + 1 /\ n + 1 \in 1 .. n + 1 /\ i < n + 1 /\ t[i] = v /\ t[n + 1] = u
      BY <1>1, <2>3, <3>1
    <3> QED BY <1>1, <3>2 DEF Before
  <2> QED BY <2>1, <2>2, <2>3
<1> QED BY <1>2, <1>3, <1>4 DEF t

(* Kept keeps exactly the members in S, distinct if they were, in their order. *)
LEMMA KeptMembers ==
  ASSUME NEW V, NEW S, NEW r \in Seq(V)
  PROVE  /\ Kept(r, S) \in Seq(V)
         /\ Elems(Kept(r, S)) = Elems(r) \cap S
         /\ Distinct(r) => Distinct(Kept(r, S))
<1> DEFINE P(s) == /\ Kept(s, S) \in Seq(V)
                   /\ Elems(Kept(s, S)) = Elems(s) \cap S
                   /\ Distinct(s) => Distinct(Kept(s, S))
           T == {s \in Seq(V) : P(s)}
<1>1. <<>> \in T
  BY KeptEmpty, ElemsEmpty, EmptySeq
<1>2. ASSUME NEW s \in Seq(V), NEW x \in V, s \in T PROVE Append(s, x) \in T
  <2> DEFINE t == Append(s, x)
             k == Kept(s, S)
  <2>1. P(s)
    BY <1>2
  <2>2. t \in Seq(V)
    BY AppendProperties
  <2>3. Kept(t, S) = IF x \in S THEN Append(k, x) ELSE k
    BY KeptAppend
  <2>4. Elems(t) = Elems(s) \cup {x} /\ (Distinct(t) <=> Distinct(s) /\ x \notin Elems(s))
    BY AppendMembers
  <2>5. CASE x \in S
    <3>1. /\ Append(k, x) \in Seq(V)
          /\ Elems(Append(k, x)) = Elems(k) \cup {x}
          /\ Distinct(Append(k, x)) <=> Distinct(k) /\ x \notin Elems(k)
      BY <2>1, AppendProperties, AppendMembers
    <3> HIDE DEF t, k
    <3>2. k = Kept(s, S)
      BY DEF k
    <3>3. P(t)
      BY <2>1, <2>3, <2>4, <2>5, <3>1, <3>2
    <3> QED BY <2>2, <3>3 DEF t
  <2>6. CASE x \notin S
    <3> HIDE DEF t, k
    <3>1. k = Kept(s, S)
      BY DEF k
    <3>2. P(t)
      BY <2>1, <2>3, <2>4, <2>6, <3>1
    <3> QED BY <2>2, <3>2 DEF t
  <2> QED BY <2>5, <2>6
<1>3. \A s \in Seq(V) : s \in T
  <2> HIDE DEF T
  <2> QED BY <1>1, <1>2, SeqCases
<1> QED BY <1>3

LEMMA BeforeMembers ==
  ASSUME NEW s, NEW v, NEW u, Before(s, v, u)
  PROVE  v \in Elems(s) /\ u \in Elems(s)
BY DEF Before, Elems

LEMMA KeptBefore ==
  ASSUME NEW V, NEW S, NEW r \in Seq(V), NEW v \in S, NEW u \in S, Before(r, v, u)
  PROVE  Before(Kept(r, S), v, u)
<1> DEFINE T == {s \in Seq(V) : Before(s, v, u) => Before(Kept(s, S), v, u)}
<1>1. <<>> \in T
  BY ElemsEmpty, EmptySeq
<1>2. ASSUME NEW s \in Seq(V), NEW x \in V, s \in T PROVE Append(s, x) \in T
  <2> DEFINE t == Append(s, x)
             k == Kept(s, S)
  <2>1. t \in Seq(V) /\ k \in Seq(V) /\ Elems(k) = Elems(s) \cap S
    BY AppendProperties, KeptMembers
  <2>2. Kept(t, S) = IF x \in S THEN Append(k, x) ELSE k
    BY KeptAppend
  <2>3. Before(t, v, u) <=> Before(s, v, u) \/ (u = x /\ v \in Elems(s))
    BY AppendMembers
  <2>4. Before(Append(k, x), v, u) <=> Before(k, v, u) \/ (u = x /\ v \in Elems(k))
    <3> HIDE DEF k
    <3> QED BY <2>1, AppendMembers
  <2>5. Before(s, v, u) => Before(k, v, u)
    BY <1>2
  <2> HIDE DEF t, k
  <2>6. Before(t, v, u) => Before(Kept(t, S), v, u)
    BY <2>1, <2>2, <2>3, <2>4, <2>5
  <2> QED BY <2>1, <2>6 DEF t
<1>3. \A s \in Seq(V) : s \in T
  <2> HIDE DEF T
  <2> QED BY <1>1, <1>2, SeqCases
<1> QED BY <1>3

(* Only the members that occur decide, and keeping twice keeps what is in both. *)
LEMMA KeptSame ==
  ASSUME NEW V, NEW A, NEW B, NEW r \in Seq(V), Elems(r) \cap A = Elems(r) \cap B
  PROVE  Kept(r, A) = Kept(r, B)
<1> DEFINE T == {s \in Seq(V) : Elems(s) \cap A = Elems(s) \cap B => Kept(s, A) = Kept(s, B)}
<1>1. <<>> \in T
  BY KeptEmpty, EmptySeq
<1>2. ASSUME NEW s \in Seq(V), NEW x \in V, s \in T PROVE Append(s, x) \in T
  <2> DEFINE t == Append(s, x)
  <2>1. t \in Seq(V) /\ Elems(t) = Elems(s) \cup {x}
    BY AppendProperties, AppendMembers
  <2>2. /\ Kept(t, A) = IF x \in A THEN Append(Kept(s, A), x) ELSE Kept(s, A)
        /\ Kept(t, B) = IF x \in B THEN Append(Kept(s, B), x) ELSE Kept(s, B)
    BY KeptAppend
  <2> HIDE DEF t
  <2>3. ASSUME Elems(t) \cap A = Elems(t) \cap B PROVE Kept(t, A) = Kept(t, B)
    <3>1. Elems(s) \cap A = Elems(s) \cap B /\ (x \in A <=> x \in B)
      BY <2>1, <2>3
    <3>2. Kept(s, A) = Kept(s, B)
      BY <1>2, <3>1
    <3> QED BY <2>2, <3>1, <3>2
  <2> QED BY <2>1, <2>3 DEF t
<1>3. \A s \in Seq(V) : s \in T
  <2> HIDE DEF T
  <2> QED BY <1>1, <1>2, SeqCases
<1> QED BY <1>3

LEMMA KeptTwice ==
  ASSUME NEW V, NEW A, NEW B, NEW r \in Seq(V)
  PROVE  Kept(Kept(r, A), B) = Kept(r, A \cap B)
<1> DEFINE T == {s \in Seq(V) : Kept(Kept(s, A), B) = Kept(s, A \cap B)}
<1>1. <<>> \in T
  BY KeptEmpty, EmptySeq
<1>2. ASSUME NEW s \in Seq(V), NEW x \in V, s \in T PROVE Append(s, x) \in T
  <2> DEFINE t == Append(s, x)
             k == Kept(s, A)
  <2>1. t \in Seq(V) /\ k \in Seq(V) /\ Kept(k, B) = Kept(s, A \cap B)
    BY <1>2, AppendProperties, KeptMembers
  <2>2. /\ Kept(t, A) = IF x \in A THEN Append(k, x) ELSE k
        /\ Kept(t, A \cap B) =
             IF x \in A \cap B THEN Append(Kept(s, A \cap B), x) ELSE Kept(s, A \cap B)
    BY KeptAppend
  <2>3. Kept(Append(k, x), B) = IF x \in B THEN Append(Kept(k, B), x) ELSE Kept(k, B)
    <3> HIDE DEF k
    <3> QED BY <2>1, KeptAppend
  <2> HIDE DEF t, k
  <2>4. Kept(Kept(t, A), B) = Kept(t, A \cap B)
    <3>1. CASE x \in A
      <4>1. Kept(t, A) = Append(k, x)
        BY <2>2, <3>1
      <4>2. CASE x \in B
        BY <2>1, <2>2, <2>3, <3>1, <4>1, <4>2
      <4>3. CASE x \notin B
        BY <2>1, <2>2, <2>3, <4>1, <4>3
      <4> QED BY <4>2, <4>3
    <3>2. CASE x \notin A
      BY <2>1, <2>2, <3>2
    <3> QED BY <3>1, <3>2
  <2> QED BY <2>1, <2>4 DEF t
<1>3. \A s \in Seq(V) : s \in T
  <2> HIDE DEF T
  <2> QED BY <1>1, <1>2, SeqCases
<1> QED BY <1>3

(* Distinct members are as many as the sequence is long.                      *)
LEMMA DistinctCount ==
  ASSUME NEW V, NEW s \in Seq(V)
  PROVE  /\ IsFiniteSet(Elems(s))
         /\ Distinct(s) => Cardinality(Elems(s)) = Len(s)
         /\ Elems(s) \subseteq V
<1> DEFINE T == {r \in Seq(V) :
                   /\ IsFiniteSet(Elems(r)) /\ Elems(r) \subseteq V
                   /\ Distinct(r) => Cardinality(Elems(r)) = Len(r)}
<1>1. <<>> \in T
  BY ElemsEmpty, EmptySeq, FS_EmptySet
<1>2. ASSUME NEW r \in Seq(V), NEW x \in V, r \in T PROVE Append(r, x) \in T
  <2> DEFINE t == Append(r, x)
  <2>1. /\ t \in Seq(V) /\ Len(t) = Len(r) + 1 /\ Elems(t) = Elems(r) \cup {x}
        /\ Distinct(t) <=> Distinct(r) /\ x \notin Elems(r)
    BY AppendProperties, AppendMembers
  <2>2. /\ IsFiniteSet(Elems(r) \cup {x})
        /\ x \notin Elems(r) => Cardinality(Elems(r) \cup {x}) = Cardinality(Elems(r)) + 1
    BY <1>2, FS_AddElement
  <2> HIDE DEF t
  <2>3. t \in T
    BY <1>2, <2>1, <2>2
  <2> QED BY <2>3 DEF t
<1>3. \A r \in Seq(V) : r \in T
  <2> HIDE DEF T
  <2> QED BY <1>1, <1>2, SeqCases
<1> QED BY <1>3

-----------------------------------------------------------------------------
(* The inductive invariant.                                                  *)
Typed ==
  /\ order \in Seq(Id) /\ todo \in Seq(Id) /\ queue \in Seq(Id)
  /\ body \in [Id -> Insn]
  /\ declared \in SUBSET Id
  /\ users \in [Id -> SUBSET Id]
  /\ pc \in {"idle", "inline", "sweep"}
  /\ rejected \in BOOLEAN
  /\ value \in [Id -> SUBSET Id]

All == order \o todo

(* An instruction to process is left only while inlining, one to remove only  *)
(* while sweeping.                                                            *)
Phases == (pc # "inline" => todo = <<>>) /\ (pc # "sweep" => queue = <<>>)

(* Each instruction is in the program once, and users has its key, rejected    *)
(* pushes or not.                                                             *)
Placed == Distinct(All) /\ declared = Elems(All)

(* An assignment mentions only instructions that come before it, ...          *)
DefsFirst ==
  \A u \in Assigns : \A v \in body[u].vars : Before(All, v, u)

(* ... and no assignment, once it has been inlined.                           *)
InlinedDone ==
  pc # "idle" => \A u \in Elems(order) : Is("assign", u) =>
                   \A v \in body[u].vars : ~ Is("assign", v)

(* What waits for removal is an assignment of the program nobody uses.        *)
QueueDead ==
  /\ Distinct(queue)
  /\ \A v \in Elems(queue) : v \in Elems(order) /\ Is("assign", v) /\ users[v] = {}

(* The def-use map, and the arguments of unknown instructions.                *)
MapExact ==
  ~rejected => /\ \A v \in declared : users[v] = {u \in Elems(All) : v \in body[u].vars}
               /\ \A u \in Elems(All) : body[u].vars \subseteq declared

ProgramInv ==
  /\ Typed /\ Phases /\ Placed /\ DefsFirst /\ InlinedDone /\ QueueDead /\ MapExact

(* Taking the head of t from one sequence to the end of the other.            *)
LEMMA HeadMembers ==
  ASSUME NEW V, NEW t \in Seq(V), t # <<>>
  PROVE  /\ Head(t) \in V /\ Tail(t) \in Seq(V)
         /\ Elems(t) = {Head(t)} \cup Elems(Tail(t))
         /\ Distinct(t) => Distinct(Tail(t)) /\ Head(t) \notin Elems(Tail(t))
<1> DEFINE n == Len(t)
           r == Tail(t)
<1>1. /\ n \in Nat \ {0} /\ DOMAIN t = 1 .. n /\ Head(t) = t[1] /\ Head(t) \in V
      /\ r \in Seq(V) /\ DOMAIN r = 1 .. n - 1 /\ \A i \in 1 .. n - 1 : r[i] = t[i + 1]
  <2>1. n \in Nat \ {0} /\ DOMAIN t = 1 .. n /\ Head(t) = t[1]
    BY EmptySeq, LenProperties
  <2>2. Head(t) \in V /\ r \in Seq(V) /\ Len(r) = n - 1 /\ \A i \in 1 .. Len(r) : r[i] = t[i + 1]
    BY HeadTailProperties
  <2> HIDE DEF r, n
  <2> QED BY <2>1, <2>2, LenProperties
<1> HIDE DEF n, r
<1>2. Elems(t) = {Head(t)} \cup Elems(r)
  <2>1. ASSUME NEW y \in Elems(t) PROVE y = Head(t) \/ y \in Elems(r)
    <3>1. PICK i \in 1 .. n : y = t[i]
      BY <1>1 DEF Elems
    <3>2. CASE i = 1
      BY <1>1, <3>1, <3>2
    <3>3. CASE i # 1
      <4>1. i - 1 \in 1 .. n - 1 /\ r[i - 1] = t[i]
        BY <1>1, <3>3
      <4> QED BY <1>1, <3>1, <4>1 DEF Elems
    <3> QED BY <3>2, <3>3
  <2>2. ASSUME NEW y \in Elems(r) PROVE y \in Elems(t)
    <3>1. PICK i \in 1 .. n - 1 : y = r[i]
      BY <1>1 DEF Elems
    <3>2. i + 1 \in 1 .. n /\ y = t[i + 1]
      BY <1>1, <3>1
    <3> QED BY <1>1, <3>2 DEF Elems
  <2>3. Head(t) \in Elems(t)
    <3>1. 1 \in 1 .. n
      BY <1>1
    <3> QED BY <1>1, <3>1 DEF Elems
  <2> QED BY <2>1, <2>2, <2>3
<1>3. ASSUME Distinct(t) PROVE Distinct(r) /\ Head(t) \notin Elems(r)
  <2>1. \A i \in 1 .. n - 1 : i + 1 \in 1 .. n /\ 1 \in 1 .. n /\ i + 1 # 1
    BY <1>1
  <2>2. Distinct(r)
    <3> SUFFICES ASSUME NEW i \in 1 .. n - 1, NEW j \in 1 .. n - 1, r[i] = r[j]
                 PROVE  i = j
      BY <1>1 DEF Distinct
    <3>1. t[i + 1] = t[j + 1] /\ i + 1 \in 1 .. n /\ j + 1 \in 1 .. n
      BY <1>1
    <3>2. i + 1 = j + 1
      BY <1>1, <1>3, <3>1 DEF Distinct
    <3> QED BY <3>2
  <2>3. ASSUME NEW i \in 1 .. n - 1, r[i] = Head(t) PROVE FALSE
    BY <1>1, <1>3, <2>1, <2>3 DEF Distinct
  <2> QED BY <1>1, <2>2, <2>3 DEF Elems
<1> QED BY <1>1, <1>2, <1>3 DEF r

LEMMA MoveHead ==
  ASSUME NEW V, NEW s \in Seq(V), NEW t \in Seq(V), t # <<>>
  PROVE  Append(s, Head(t)) \o Tail(t) = s \o t
<1> DEFINE n == Len(s)
           m == Len(t)
           a == Append(s, Head(t))
           r == Tail(t)
<1>1. /\ n \in Nat /\ m \in Nat \ {0} /\ Head(t) = t[1] /\ Head(t) \in V
      /\ r \in Seq(V) /\ Len(r) = m - 1 /\ \A i \in 1 .. m - 1 : r[i] = t[i + 1]
  BY EmptySeq, LenProperties, HeadTailProperties
<1>2. /\ a \in Seq(V) /\ Len(a) = n + 1 /\ a[n + 1] = t[1]
      /\ \A i \in 1 .. n : a[i] = s[i]
  <2>1. Head(t) \in V /\ Head(t) = t[1]
    BY <1>1
  <2> QED BY <2>1, AppendProperties
<1>3. /\ s \o t \in Seq(V) /\ Len(s \o t) = n + m
      /\ \A i \in 1 .. n + m : (s \o t)[i] = IF i <= n THEN s[i] ELSE t[i - n]
  BY ConcatProperties
<1> HIDE DEF n, m, a, r
<1>4. /\ a \o r \in Seq(V) /\ Len(a \o r) = (n + 1) + (m - 1)
      /\ \A i \in 1 .. (n + 1) + (m - 1) :
           (a \o r)[i] = IF i <= n + 1 THEN a[i] ELSE r[i - (n + 1)]
  <2>1. /\ a \o r \in Seq(V) /\ Len(a \o r) = Len(a) + Len(r)
        /\ \A i \in 1 .. Len(a) + Len(r) :
             (a \o r)[i] = IF i <= Len(a) THEN a[i] ELSE r[i - Len(a)]
    BY <1>1, <1>2, ConcatProperties
  <2> QED BY <1>1, <1>2, <2>1
<1>5. ASSUME NEW i \in 1 .. n + m PROVE (a \o r)[i] = (s \o t)[i]
  <2>0. i \in Nat /\ n + m = (n + 1) + (m - 1) /\ (i <= n \/ i = n + 1 \/ i > n + 1)
    BY <1>1
  <2>1. CASE i <= n
    BY <1>1, <1>2, <1>3, <1>4, <2>1
  <2>2. CASE i = n + 1
    BY <1>1, <1>2, <1>3, <1>4, <2>2
  <2>3. CASE i > n + 1
    <3>1. ~ (i <= n + 1) /\ ~ (i <= n) /\ i \in 1 .. (n + 1) + (m - 1)
      BY <1>1, <2>0, <2>3
    <3>2. (a \o r)[i] = r[i - (n + 1)]
      BY <1>4, <3>1
    <3>3. (s \o t)[i] = t[i - n]
      BY <1>3, <3>1
    <3>4. i - (n + 1) \in 1 .. m - 1 /\ (i - (n + 1)) + 1 = i - n
      BY <1>1, <2>0, <2>3
    <3> QED BY <1>1, <3>2, <3>3, <3>4
  <2> QED BY <2>0, <2>1, <2>2, <2>3
<1>6. Len(a \o r) = Len(s \o t) /\ Len(s \o t) = n + m
  BY <1>1, <1>3, <1>4
<1>7. a \o r = s \o t
  BY <1>3, <1>4, <1>5, <1>6, SeqEqual
<1> QED BY <1>7 DEF a, r

LEMMA ConcatMembers ==
  ASSUME NEW V, NEW s \in Seq(V), NEW t \in Seq(V)
  PROVE  /\ Elems(s \o t) = Elems(s) \cup Elems(t)
         /\ Distinct(s \o t) => \A v \in Elems(s) : v \notin Elems(t)
         /\ \A u : t # <<>> /\ u = Head(t) /\ Distinct(s \o t) =>
              \A v : Before(s \o t, v, u) => v \in Elems(s)
<1> DEFINE n == Len(s)
           m == Len(t)
           c == s \o t
<1>1. /\ n \in Nat /\ m \in Nat /\ DOMAIN s = 1 .. n /\ DOMAIN t = 1 .. m
      /\ DOMAIN c = 1 .. n + m
      /\ \A i \in 1 .. n : i \in 1 .. n + m /\ c[i] = s[i]
      /\ \A i \in 1 .. m : i + n \in 1 .. n + m /\ c[i + n] = t[i]
      /\ \A i \in 1 .. n + m : i \in 1 .. n \/ i - n \in 1 .. m
      /\ \A i \in 1 .. n + m : i \notin 1 .. n => c[i] = t[i - n]
  <2>1. /\ c \in Seq(V) /\ Len(c) = n + m
        /\ \A i \in 1 .. n + m : c[i] = IF i <= n THEN s[i] ELSE t[i - n]
    BY ConcatProperties
  <2>2. n \in Nat /\ m \in Nat /\ DOMAIN s = 1 .. n /\ DOMAIN t = 1 .. m
    BY LenProperties
  <2> HIDE DEF c, n, m
  <2>3. DOMAIN c = 1 .. n + m
    BY <2>1, LenProperties
  <2> QED BY <2>1, <2>2, <2>3
<1> HIDE DEF n, m, c
<1>2. Elems(c) = Elems(s) \cup Elems(t)
  <2>1. ASSUME NEW y \in Elems(c) PROVE y \in Elems(s) \/ y \in Elems(t)
    <3>1. PICK i \in 1 .. n + m : y = c[i]
      BY <1>1 DEF Elems
    <3>2. CASE i \in 1 .. n
      BY <1>1, <3>1, <3>2 DEF Elems
    <3>3. CASE i \notin 1 .. n
      BY <1>1, <3>1, <3>3 DEF Elems
    <3> QED BY <3>2, <3>3
  <2>2. ASSUME NEW y \in Elems(s) PROVE y \in Elems(c)
    <3>1. PICK i \in 1 .. n : y = s[i]
      BY <1>1 DEF Elems
    <3> QED BY <1>1, <3>1 DEF Elems
  <2>3. ASSUME NEW y \in Elems(t) PROVE y \in Elems(c)
    <3>1. PICK i \in 1 .. m : y = t[i]
      BY <1>1 DEF Elems
    <3> QED BY <1>1, <3>1 DEF Elems
  <2> QED BY <2>1, <2>2, <2>3
<1>3. ASSUME Distinct(c), NEW v \in Elems(s) PROVE v \notin Elems(t)
  <2> SUFFICES ASSUME v \in Elems(t) PROVE FALSE
    OBVIOUS
  <2>1. PICK i \in 1 .. n : v = s[i]
    BY <1>1 DEF Elems
  <2>2. PICK j \in 1 .. m : v = t[j]
    BY <1>1 DEF Elems
  <2>3. i \in 1 .. n + m /\ j + n \in 1 .. n + m /\ c[i] = c[j + n]
    BY <1>1, <2>1, <2>2
  <2>4. i = j + n
    BY <1>1, <1>3, <2>3 DEF Distinct
  <2> QED BY <1>1, <2>4
<1>4. ASSUME t # <<>>, Distinct(c), NEW v, Before(c, v, Head(t)) PROVE v \in Elems(s)
  <2>1. PICK i \in 1 .. n + m, j \in 1 .. n + m : i < j /\ c[i] = v /\ c[j] = Head(t)
    BY <1>1, <1>4 DEF Before
  <2>2. m # 0 /\ Head(t) = t[1]
    BY <1>4, EmptySeq DEF m
  <2>3. 1 + n \in 1 .. n + m /\ c[1 + n] = t[1]
    BY <1>1, <2>2
  <2>4. j = 1 + n
    BY <1>1, <1>4, <2>1, <2>2, <2>3 DEF Distinct
  <2>5. i \in 1 .. n
    BY <1>1, <2>1, <2>4
  <2> QED BY <1>1, <2>1, <2>5 DEF Elems
<1> QED BY <1>2, <1>3, <1>4 DEF c

LEMMA BeforeTransitive ==
  ASSUME NEW V, NEW s \in Seq(V), Distinct(s), NEW w, NEW v, NEW u,
         Before(s, w, v), Before(s, v, u)
  PROVE  Before(s, w, u)
<1>1. DOMAIN s \in SUBSET Nat
  BY LenProperties
<1>2. PICK i \in DOMAIN s, j \in DOMAIN s : i < j /\ s[i] = w /\ s[j] = v
  BY DEF Before
<1>3. PICK k \in DOMAIN s, l \in DOMAIN s : k < l /\ s[k] = v /\ s[l] = u
  BY DEF Before
<1>4. j = k
  BY <1>2, <1>3 DEF Distinct
<1>5. i < l
  BY <1>1, <1>2, <1>3, <1>4
<1> QED BY <1>2, <1>3, <1>5 DEF Before

-----------------------------------------------------------------------------
(* Each action preserves the invariant.                                      *)
LEMMA InsnsAll ==
  ASSUME Typed
  PROVE  /\ All \in Seq(Id) /\ Insns = Elems(All)
         /\ Elems(order) \subseteq Insns /\ Insns \subseteq Id
         /\ todo = <<>> => All = order
<1>1. All \in Seq(Id) /\ (todo = <<>> => All = order)
  BY ConcatProperties, ConcatEmptySeq DEF Typed, All
<1>2. Elems(All) = Elems(order) \cup Elems(todo)
  BY ConcatMembers DEF Typed, All
<1>3. Elems(All) \subseteq Id
  BY <1>1, DistinctCount
<1> QED BY <1>1, <1>2, <1>3 DEF Insns

LEMMA InsnsAllNext ==
  ASSUME Typed'
  PROVE  /\ All' \in Seq(Id) /\ Insns' = Elems(All)'
         /\ Elems(order)' \subseteq Insns' /\ Insns' \subseteq Id
         /\ todo' = <<>> => All' = order'
<1>1. All' \in Seq(Id) /\ (todo' = <<>> => All' = order')
  BY ConcatProperties, ConcatEmptySeq DEF Typed, All
<1>2. Elems(All') = Elems(order') \cup Elems(todo')
  BY ConcatMembers DEF Typed, All
<1>3. Elems(All') \subseteq Id
  BY <1>1, DistinctCount
<1> QED BY <1>1, <1>2, <1>3 DEF Insns, Elems

LEMMA ProgramInit == Init => ProgramInv
<1> SUFFICES ASSUME Init PROVE ProgramInv
  OBVIOUS
<1>1. Typed
  <2>1. NoInsn \in Insn
    BY DEF NoInsn, Insn, Kinds
  <2> QED BY <2>1, EmptySeq DEF Init, Typed
<1>2. order = <<>> /\ todo = <<>> /\ queue = <<>> /\ pc = "idle"
      /\ Elems(order) = {} /\ Distinct(queue) /\ Elems(queue) = {} /\ declared = {}
  BY ElemsEmpty DEF Init
<1>3. All = order /\ Insns = {} /\ Elems(All) = {} /\ Distinct(All)
  BY <1>1, <1>2, InsnsAll
<1>4. Phases /\ Placed /\ DefsFirst /\ InlinedDone /\ QueueDead /\ MapExact
  BY <1>2, <1>3 DEF Phases, Placed, DefsFirst, InlinedDone, QueueDead, MapExact, Assigns
<1> QED BY <1>1, <1>4 DEF ProgramInv

LEMMA PushInv ==
  ASSUME ProgramInv, NEW id \in Id, NEW b \in Insn, pc = "idle", Push(id, b)
  PROVE  ProgramInv'
<1>1. /\ Typed /\ todo = <<>> /\ queue = <<>> /\ pc' = pc /\ todo' = todo /\ queue' = queue
      /\ rejected' = rejected /\ order' = Append(order, id)
      /\ declared' = declared \cup {id} /\ id \notin declared /\ b.vars \subseteq declared
      /\ body' = [body EXCEPT ![id] = b]
      /\ users' = [AddUses(id, b.vars) EXCEPT ![id] = {}]
  BY DEF ProgramInv, Phases, Push
<1>2. /\ All \in Seq(Id) /\ All = order /\ Insns = Elems(All) /\ Distinct(All)
      /\ declared = Elems(All) /\ Elems(All) \subseteq Id
  BY <1>1, InsnsAll DEF ProgramInv, Placed
<1>3. Typed'
  <2>1. order' \in Seq(Id)
    BY <1>1, AppendProperties DEF Typed
  <2>2. value' \in [Id -> SUBSET Id]
    BY DEF Typed, ProgramInv, Push, XorOf
  <2>3. AddUses(id, b.vars) \in [Id -> SUBSET Id]
    BY <1>1 DEF Typed, AddUses
  <2>4. users' \in [Id -> SUBSET Id]
    BY <1>1, <2>3
  <2>5. body' \in [Id -> Insn] /\ declared' \in SUBSET Id
    BY <1>1 DEF Typed
  <2> QED BY <1>1, <2>1, <2>2, <2>4, <2>5 DEF Typed
<1>4. /\ All' = Append(All, id) /\ Insns' = Elems(All)'
      /\ Elems(All)' = Elems(All) \cup {id} /\ Distinct(All)'
      /\ \A v, u : Before(All, v, u)' <=>
                     Before(All, v, u) \/ (u = id /\ v \in Elems(All))
  <2>1. All' = Append(All, id) /\ Insns' = Elems(All)'
    <3>1. All' = order' /\ Insns' = Elems(All)'
      BY <1>1, <1>3, InsnsAllNext
    <3> QED BY <1>1, <1>2, <3>1
  <2>2. /\ Elems(Append(All, id)) = Elems(All) \cup {id}
        /\ Distinct(Append(All, id)) <=> Distinct(All) /\ id \notin Elems(All)
        /\ \A v, u : Before(Append(All, id), v, u) <=>
                       Before(All, v, u) \/ (u = id /\ v \in Elems(All))
    BY <1>2, AppendMembers
  <2> QED BY <1>1, <1>2, <2>1, <2>2
<1>5. body'[id] = b /\ \A u \in Id : u # id => body'[u] = body[u]
  BY <1>1 DEF Typed
<1>6. Placed'
  BY <1>1, <1>2, <1>4 DEF Placed
<1>7. \A u \in Elems(All) : u # id /\ body'[u] = body[u]
  BY <1>1, <1>2, <1>5
<1>8. DefsFirst'
  <2> SUFFICES ASSUME NEW u \in Assigns', NEW v \in body'[u].vars PROVE Before(All, v, u)'
    BY DEF DefsFirst
  <2>1. CASE u = id
    BY <1>1, <1>2, <1>4, <1>5, <2>1
  <2>2. CASE u # id
    <3>1. u \in Elems(All) /\ body'[u] = body[u] /\ u \in Assigns
      BY <1>2, <1>4, <1>7, <2>2 DEF Assigns, Is
    <3>2. Before(All, v, u)
      BY <3>1 DEF ProgramInv, DefsFirst
    <3> QED BY <1>4, <3>2
  <2> QED BY <2>1, <2>2
<1>9. MapExact'
  <2> SUFFICES ASSUME ~ rejected
               PROVE  /\ \A v \in declared' :
                           users'[v] = {u \in Elems(All)' : v \in body'[u].vars}
                      /\ \A u \in Elems(All)' : body'[u].vars \subseteq declared'
    BY <1>1 DEF MapExact
  <2>1. /\ \A v \in declared : users[v] = {u \in Elems(All) : v \in body[u].vars}
        /\ \A u \in Elems(All) : body[u].vars \subseteq declared
    BY DEF ProgramInv, MapExact
  <2>2. ASSUME NEW v \in declared'
        PROVE  users'[v] = {u \in Elems(All)' : v \in body'[u].vars}
    <3>1. CASE v = id
      <4>1. users'[v] = {}
        BY <1>1, <3>1 DEF Typed, AddUses
      <4>2. \A u \in Elems(All)' : v \notin body'[u].vars
        BY <1>1, <1>4, <1>5, <1>7, <2>1, <3>1
      <4> QED BY <4>1, <4>2
    <3>2. CASE v # id
      <4>1. v \in declared /\ v \in Id
        BY <1>1, <3>2 DEF Typed
      <4>2. users'[v] = IF v \in b.vars THEN users[v] \cup {id} ELSE users[v]
        BY <1>1, <3>2, <4>1 DEF Typed, AddUses
      <4>3. users[v] = {u \in Elems(All) : v \in body[u].vars}
        BY <2>1, <4>1
      <4> QED BY <1>4, <1>5, <1>7, <4>2, <4>3
    <3> QED BY <3>1, <3>2
  <2>3. \A u \in Elems(All)' : body'[u].vars \subseteq declared'
    BY <1>1, <1>4, <1>5, <1>7, <2>1
  <2> QED BY <2>2, <2>3
<1>10. Phases' /\ InlinedDone' /\ QueueDead'
  BY <1>1, ElemsEmpty DEF ProgramInv, Phases, InlinedDone, QueueDead
<1> QED BY <1>3, <1>6, <1>8, <1>9, <1>10 DEF ProgramInv

(* A rejected push changes users alone.                                      *)
LEMMA RejectedInv ==
  ASSUME ProgramInv, NEW id \in Id, NEW b \in Insn, pc = "idle",
         PushUndefined(id, b) \/ PushRedeclared(id, b)
  PROVE  ProgramInv'
<1>1. /\ UNCHANGED <<order, body, declared, pc, todo, queue, value>> /\ rejected' = TRUE
      /\ queue = <<>>
  BY DEF ProgramInv, Phases, PushUndefined, PushRedeclared
<1>2. users' \in [Id -> SUBSET Id]
  <2>1. CASE PushUndefined(id, b)
    BY <2>1 DEF ProgramInv, Typed, PushUndefined, AddUses
  <2>2. CASE PushRedeclared(id, b)
    <3>1. AddUses(id, b.vars) \in [Id -> SUBSET Id]
      BY DEF ProgramInv, Typed, AddUses
    <3> QED BY <2>2, <3>1 DEF PushRedeclared
  <2> QED BY <2>1, <2>2
<1>3. Typed'
  BY <1>1, <1>2 DEF ProgramInv, Typed
<1>4. Phases' /\ Placed' /\ DefsFirst' /\ InlinedDone'
  BY <1>1 DEF ProgramInv, Phases, Placed, DefsFirst, InlinedDone, All, Assigns, Insns, Is
<1>5. QueueDead' /\ MapExact'
  BY <1>1, ElemsEmpty DEF QueueDead, MapExact
<1> QED BY <1>3, <1>4, <1>5 DEF ProgramInv

LEMMA SimplifyBeginInv ==
  ASSUME ProgramInv, SimplifyBegin
  PROVE  ProgramInv'
<1>1. /\ Typed /\ todo = <<>> /\ queue = <<>> /\ todo' = order /\ order' = <<>>
      /\ pc' = "inline" /\ UNCHANGED <<body, declared, users, queue, value, rejected>>
  BY DEF ProgramInv, Phases, SimplifyBegin
<1>2. Typed'
  BY <1>1, EmptySeq DEF Typed
<1>3. All' = All
  BY <1>1, ConcatEmptySeq DEF Typed, All
<1>4. Insns' = Insns
  BY <1>1, <1>2, <1>3, InsnsAll, InsnsAllNext
<1>5. Phases' /\ Placed' /\ DefsFirst' /\ MapExact'
  BY <1>1, <1>3, <1>4 DEF ProgramInv, Phases, Placed, DefsFirst, MapExact, Assigns, Is
<1>6. InlinedDone' /\ QueueDead'
  BY <1>1, ElemsEmpty DEF InlinedDone, QueueDead
<1> QED BY <1>2, <1>5, <1>6 DEF ProgramInv

(* What the next instruction to process mentions is processed, and so is what  *)
(* its inlined expression mentions, which holds no assignment.                *)
LEMMA InlinedMentions ==
  ASSUME ProgramInv, pc = "inline", todo # <<>>, Is("assign", Head(todo))
  PROVE  /\ Head(todo) \in Insns /\ Head(todo) \in Id
         /\ body[Head(todo)].vars \subseteq Elems(order)
         /\ \A w \in Inlined(Head(todo)).vars :
              w \in Elems(order) /\ ~ Is("assign", w) /\ Before(All, w, Head(todo))
<1> DEFINE id == Head(todo)
<1>1. /\ All \in Seq(Id) /\ Insns = Elems(All) /\ Elems(order) \subseteq Insns
      /\ Distinct(All)
  BY InsnsAll DEF ProgramInv, Placed
<1>2. id \in Elems(todo) /\ id \in Id /\ id \in Insns
  BY HeadMembers DEF ProgramInv, Typed, Insns
<1>3. \A v : Before(All, v, id) => v \in Elems(order)
  BY <1>1, ConcatMembers DEF ProgramInv, Typed, All
<1>4. \A v \in body[id].vars : Before(All, v, id) /\ v \in Elems(order)
  BY <1>2, <1>3 DEF ProgramInv, DefsFirst, Assigns
<1>5. ASSUME NEW v \in body[id].vars, Is("assign", v), NEW w \in body[v].vars
      PROVE  ~ Is("assign", w) /\ Before(All, w, id)
  <2>1. v \in Elems(order) /\ v \in Assigns /\ Before(All, v, id)
    BY <1>1, <1>4, <1>5 DEF Assigns
  <2>2. Before(All, w, v) /\ ~ Is("assign", w)
    BY <1>5, <2>1 DEF ProgramInv, DefsFirst, InlinedDone
  <2>3. Before(All, w, id)
    BY <1>1, <2>1, <2>2, BeforeTransitive
  <2> QED BY <2>2, <2>3
<1>6. ASSUME NEW w \in Inlined(id).vars PROVE ~ Is("assign", w) /\ Before(All, w, id)
  <2>1. \/ w \in body[id].vars /\ ~ Is("assign", w)
        \/ \E v \in body[id].vars : Is("assign", v) /\ w \in body[v].vars
    BY <1>6 DEF Inlined
  <2> QED BY <1>4, <1>5, <2>1
<1> HIDE DEF id
<1>7. \A w \in Inlined(id).vars : w \in Elems(order)
  BY <1>3, <1>6
<1> QED BY <1>2, <1>4, <1>6, <1>7 DEF id

LEMMA InlineMoves ==
  ASSUME ProgramInv, pc = "inline", todo # <<>>,
         order' = Append(order, Head(todo)), todo' = Tail(todo)
  PROVE  /\ order' \in Seq(Id) /\ todo' \in Seq(Id) /\ All' = All /\ Insns' = Insns
         /\ Elems(order)' = Elems(order) \cup {Head(todo)}
<1>1. Head(todo) \in Id /\ Tail(todo) \in Seq(Id) /\ Elems(todo) = {Head(todo)} \cup Elems(todo')
  BY HeadMembers DEF ProgramInv, Typed
<1>2. order' \in Seq(Id) /\ Elems(order') = Elems(order) \cup {Head(todo)}
  BY <1>1, AppendProperties, AppendMembers DEF ProgramInv, Typed
<1>3. All' = All
  BY MoveHead DEF ProgramInv, Typed, All
<1>4. Insns' = Elems(order') \cup Elems(todo')
  BY DEF Insns, Elems
<1>5. Insns' = Insns
  BY <1>1, <1>2, <1>4 DEF Insns
<1> QED BY <1>1, <1>2, <1>3, <1>5 DEF Elems

LEMMA InlineUnknownInv ==
  ASSUME ProgramInv, InlineUnknown
  PROVE  ProgramInv'
<1>1. /\ Typed /\ queue = <<>> /\ pc = "inline" /\ todo # <<>> /\ Is("unknown", Head(todo))
      /\ order' = Append(order, Head(todo)) /\ todo' = Tail(todo)
      /\ UNCHANGED <<body, declared, users, pc, queue, value, rejected>>
  BY DEF ProgramInv, Phases, InlineUnknown
<1>2. /\ order' \in Seq(Id) /\ todo' \in Seq(Id) /\ All' = All /\ Insns' = Insns
      /\ Elems(order)' = Elems(order) \cup {Head(todo)}
  BY <1>1, InlineMoves
<1>3. Typed'
  BY <1>1, <1>2 DEF Typed
<1>4. Phases' /\ Placed' /\ DefsFirst' /\ MapExact'
  BY <1>1, <1>2 DEF ProgramInv, Phases, Placed, DefsFirst, MapExact, Assigns, Is
<1>5. InlinedDone'
  BY <1>1, <1>2 DEF ProgramInv, InlinedDone, Is
<1>6. QueueDead'
  BY <1>1, ElemsEmpty DEF QueueDead
<1> QED BY <1>3, <1>4, <1>5, <1>6 DEF ProgramInv

LEMMA InlineAssignInv ==
  ASSUME ProgramInv, InlineAssign
  PROVE  ProgramInv'
<1> DEFINE id == Head(todo)
<1>1. /\ Typed /\ queue = <<>> /\ pc = "inline" /\ todo # <<>> /\ Is("assign", id)
      /\ order' = Append(order, id) /\ todo' = Tail(todo)
      /\ UNCHANGED <<declared, pc, queue, value, rejected>>
  BY DEF ProgramInv, Phases, InlineAssign
<1>2. PICK f \in Simplified(Inlined(id)) :
        /\ body' = [body EXCEPT ![id] = [kind |-> "assign", vars |-> f.vars, val |-> f.val]]
        /\ users' = [v \in Id |-> IF v \in f.vars THEN users[v] \cup {id}
                                  ELSE DropUses(id, body[id].vars)[v]]
  BY DEF InlineAssign
<1>3. /\ order' \in Seq(Id) /\ todo' \in Seq(Id) /\ All' = All /\ Insns' = Insns
      /\ Elems(order)' = Elems(order) \cup {id}
  BY <1>1, InlineMoves
<1>4. /\ id \in Insns /\ id \in Id /\ body[id].vars \subseteq Elems(order)
      /\ \A w \in Inlined(id).vars :
           w \in Elems(order) /\ ~ Is("assign", w) /\ Before(All, w, id)
  BY <1>1, InlinedMentions
<1>5. Insns = Elems(All) /\ Elems(order) \subseteq Insns /\ Insns \subseteq Id
      /\ declared = Elems(All)
  BY InsnsAll DEF ProgramInv, Placed
<1>6. f \in Expr /\ f.vars \subseteq Inlined(id).vars /\ f.vars \in SUBSET Id
      /\ f.val \in SUBSET Id /\ f.val \subseteq f.vars
  BY <1>2 DEF Simplified, Expr
<1> HIDE DEF id
<1>7. /\ [kind |-> "assign", vars |-> f.vars, val |-> f.val] \in Insn
      /\ body'[id].vars = f.vars /\ body'[id].kind = "assign"
      /\ \A u \in Id : u # id => body'[u] = body[u]
  BY <1>2, <1>4, <1>6 DEF Typed, ProgramInv, Insn, Kinds
<1>8. Typed'
  <2>1. users' \in [Id -> SUBSET Id]
    BY <1>1, <1>2, <1>4 DEF Typed, DropUses
  <2>2. body' \in [Id -> Insn]
    BY <1>1, <1>2, <1>7 DEF Typed
  <2> QED BY <1>1, <1>3, <2>1, <2>2 DEF Typed
<1>9. \A u \in Id : Is("assign", u)' <=> Is("assign", u)
  BY <1>1, <1>7 DEF Is
<1>10. Placed' /\ Phases'
  BY <1>1, <1>3 DEF ProgramInv, Placed, Phases
<1>11. DefsFirst'
  <2> SUFFICES ASSUME NEW u \in Assigns', NEW v \in body'[u].vars PROVE Before(All, v, u)
    BY <1>3 DEF DefsFirst
  <2>1. u \in Assigns /\ u \in Id
    BY <1>3, <1>5, <1>9 DEF Assigns
  <2>2. CASE u = id
    BY <1>4, <1>6, <1>7, <2>2
  <2>3. CASE u # id
    BY <1>7, <2>1, <2>3 DEF ProgramInv, DefsFirst
  <2> QED BY <2>2, <2>3
<1>12. InlinedDone'
  <2> SUFFICES ASSUME NEW u \in Elems(order)', Is("assign", u)', NEW v \in body'[u].vars
               PROVE  ~ Is("assign", v)'
    BY DEF InlinedDone
  <2>1. u \in Id /\ Is("assign", u)
    BY <1>3, <1>4, <1>5, <1>9
  <2>2. v \in Id
    BY <1>8, <2>1 DEF Typed, Insn
  <2>3. CASE u = id
    BY <1>4, <1>6, <1>7, <1>9, <2>2, <2>3
  <2>4. CASE u # id
    <3>1. u \in Elems(order) /\ v \in body[u].vars
      BY <1>3, <1>7, <2>1, <2>4
    <3>2. ~ Is("assign", v)
      BY <1>1, <2>1, <3>1 DEF ProgramInv, InlinedDone
    <3> QED BY <1>9, <2>2, <3>2
  <2> QED BY <2>3, <2>4
<1>13. QueueDead'
  BY <1>1, ElemsEmpty DEF QueueDead
<1>14. MapExact'
  <2> SUFFICES ASSUME ~ rejected
               PROVE  /\ \A v \in declared :
                           users'[v] = {u \in Elems(All) : v \in body'[u].vars}
                      /\ \A u \in Elems(All) : body'[u].vars \subseteq declared
    BY <1>1, <1>3 DEF MapExact
  <2>1. /\ \A v \in declared : users[v] = {u \in Elems(All) : v \in body[u].vars}
        /\ \A u \in Elems(All) : body[u].vars \subseteq declared
    BY DEF ProgramInv, MapExact
  <2>2. ASSUME NEW v \in declared
        PROVE  users'[v] = {u \in Elems(All) : v \in body'[u].vars}
    <3>1. users[v] = {u \in Elems(All) : v \in body[u].vars} /\ v \in Id
      BY <1>5, <2>1
    <3>2. CASE v \in f.vars
      <4>1. users'[v] = users[v] \cup {id}
        BY <1>2, <3>1, <3>2
      <4> QED BY <1>4, <1>5, <1>7, <3>1, <3>2, <4>1
    <3>3. CASE v \notin f.vars
      <4>1. users'[v] = IF v \in body[id].vars THEN users[v] \ {id} ELSE users[v]
        BY <1>2, <3>1, <3>3 DEF DropUses
      <4> QED BY <1>4, <1>5, <1>7, <3>1, <3>3, <4>1
    <3> QED BY <3>2, <3>3
  <2>3. \A u \in Elems(All) : body'[u].vars \subseteq declared
    BY <1>4, <1>5, <1>6, <1>7, <2>1
  <2> QED BY <2>2, <2>3
<1> QED BY <1>8, <1>10, <1>11, <1>12, <1>13, <1>14 DEF ProgramInv

LEMMA SweepScanInv ==
  ASSUME ProgramInv, SweepScan
  PROVE  ProgramInv'
<1> DEFINE D == {v \in Elems(order) : Dead(v)}
<1>1. /\ Typed /\ todo = <<>> /\ pc # "idle" /\ queue' = Kept(order, D)
      /\ pc' = IF queue' = <<>> THEN "idle" ELSE "sweep"
      /\ UNCHANGED <<order, body, declared, users, todo, value, rejected>>
  BY DEF ProgramInv, Phases, SweepScan
<1>2. /\ queue' \in Seq(Id) /\ Elems(queue') = D
      /\ Distinct(order) => Distinct(queue')
  BY <1>1, KeptMembers DEF Typed
<1>3. Distinct(order)
  BY <1>1, InsnsAll DEF ProgramInv, Placed
<1>4. Typed' /\ Phases'
  BY <1>1, <1>2 DEF Typed, Phases
<1>5. All' = All /\ Insns' = Insns
  BY <1>1 DEF All, Insns
<1>6. Placed' /\ DefsFirst' /\ InlinedDone' /\ MapExact'
  BY <1>1, <1>5 DEF ProgramInv, Placed, DefsFirst, InlinedDone, MapExact, Assigns, Is
<1>7. QueueDead'
  <2>1. Elems(queue') = Elems(queue)' /\ Elems(order)' = Elems(order)
    BY <1>1 DEF Elems
  <2> QED BY <1>1, <1>2, <1>3, <2>1 DEF QueueDead, Dead, Is
<1> QED BY <1>4, <1>6, <1>7 DEF ProgramInv

(* The instruction a sweep removes: nothing that stays mentions it.            *)
LEMMA SweepRemoves ==
  ASSUME ProgramInv, SweepRemove
  PROVE  /\ All = order /\ todo = <<>> /\ todo' = <<>>
         /\ Head(queue) \in Elems(order) /\ Head(queue) \in Id
         /\ Is("assign", Head(queue)) /\ users[Head(queue)] = {}
         /\ order' \in Seq(Id) /\ All' = order' /\ Insns' = Elems(All)'
         /\ Elems(All)' = Elems(All) \ {Head(queue)}
         /\ Elems(order)' = Elems(order) \ {Head(queue)}
         /\ Distinct(order')
         /\ \A u \in Id : u # Head(queue) => body'[u] = body[u]
<1> DEFINE id == Head(queue)
<1>1. /\ Typed /\ todo = <<>> /\ pc = "sweep" /\ queue # <<>> /\ todo' = todo
      /\ order' = Kept(order, Elems(order) \ {id})
      /\ body' = [body EXCEPT ![id] = NoInsn]
  BY DEF ProgramInv, Phases, SweepRemove, Without
<1>2. All = order /\ Distinct(order)
  BY <1>1, InsnsAll DEF ProgramInv, Placed
<1>3. id \in Id /\ id \in Elems(queue)
  BY <1>1, HeadMembers DEF Typed
<1>4. id \in Elems(order) /\ Is("assign", id) /\ users[id] = {}
  BY <1>3 DEF ProgramInv, QueueDead
<1> HIDE DEF id
<1>5. /\ order' \in Seq(Id) /\ Elems(order') = Elems(order) \ {id} /\ Distinct(order')
  BY <1>1, <1>2, KeptMembers DEF Typed
<1>6. All' = order'
  BY <1>1, <1>5, ConcatEmptySeq DEF All
<1>7. Insns' = Elems(order') /\ Elems(All)' = Elems(order') /\ Elems(order)' = Elems(order')
  BY <1>1, <1>6, ElemsEmpty DEF Insns, Elems
<1>8. \A u \in Id : u # id => body'[u] = body[u]
  BY <1>1 DEF Typed
<1> QED BY <1>1, <1>2, <1>3, <1>4, <1>5, <1>6, <1>7, <1>8 DEF id

LEMMA SweepRemoveInv ==
  ASSUME ProgramInv, SweepRemove
  PROVE  ProgramInv'
<1> DEFINE id == Head(queue)
<1>1. /\ Typed /\ pc = "sweep" /\ queue # <<>> /\ queue' = Tail(queue)
      /\ declared' = declared \ {id}
      /\ users' = [DropUses(id, body[id].vars) EXCEPT ![id] = {}]
      /\ body' = [body EXCEPT ![id] = NoInsn]
      /\ value' = [value EXCEPT ![id] = {}]
      /\ UNCHANGED <<pc, todo, rejected>>
  BY DEF ProgramInv, SweepRemove
<1>2. /\ All = order /\ todo = <<>> /\ todo' = <<>>
      /\ id \in Elems(order) /\ id \in Id /\ Is("assign", id) /\ users[id] = {}
      /\ order' \in Seq(Id) /\ All' = order' /\ Insns' = Elems(All)'
      /\ Elems(All)' = Elems(All) \ {id} /\ Elems(order)' = Elems(order) \ {id}
      /\ Distinct(order') /\ \A u \in Id : u # id => body'[u] = body[u]
  BY SweepRemoves
<1>3. order' = Kept(order, Elems(order) \ {id})
  BY DEF SweepRemove, Without
<1>4. /\ Tail(queue) \in Seq(Id) /\ Elems(queue) = {id} \cup Elems(Tail(queue))
      /\ Distinct(Tail(queue)) /\ id \notin Elems(Tail(queue))
  BY <1>1, HeadMembers DEF Typed, ProgramInv, QueueDead
<1>5. Insns = Elems(All) /\ Insns \subseteq Id /\ declared = Elems(All)
  BY <1>1, InsnsAll DEF ProgramInv, Placed
<1> HIDE DEF id
<1>6. DropUses(id, body[id].vars) \in [Id -> SUBSET Id]
  BY <1>1 DEF Typed, DropUses
<1>7. /\ users'[id] = {}
      /\ \A v \in Id : v # id =>
           users'[v] = IF v \in body[id].vars THEN users[v] \ {id} ELSE users[v]
  BY <1>1, <1>2, <1>6 DEF Typed, DropUses
<1>8. Typed'
  <2>1. NoInsn \in Insn
    BY DEF NoInsn, Insn, Kinds
  <2>2. body' \in [Id -> Insn] /\ users' \in [Id -> SUBSET Id] /\ value' \in [Id -> SUBSET Id]
    BY <1>1, <1>6, <2>1 DEF Typed
  <2>3. queue' \in Seq(Id) /\ todo' \in Seq(Id) /\ declared' \in SUBSET Id
    BY <1>1, <1>4 DEF Typed
  <2>4. pc' \in {"idle", "inline", "sweep"} /\ rejected' \in BOOLEAN
    BY <1>1 DEF Typed
  <2> QED BY <1>2, <2>2, <2>3, <2>4 DEF Typed
<1>9. Phases' /\ Placed'
  BY <1>1, <1>2, <1>5 DEF Phases, Placed
<1>10. \A u \in Insns' : u \in Elems(order) /\ u \in Insns /\ u \in Id /\ u # id
  BY <1>2, <1>5
<1>11. ASSUME NEW u \in Insns', Is("assign", u)'
       PROVE  /\ Is("assign", u) /\ body'[u] = body[u]
              /\ \A v \in body[u].vars : Before(All, v, u) /\ ~ Is("assign", v) /\ v \in Insns'
  <2>1. Is("assign", u) /\ body'[u] = body[u] /\ u \in Assigns
    BY <1>2, <1>10, <1>11 DEF Is, Assigns
  <2>2. ASSUME NEW v \in body[u].vars
        PROVE  Before(All, v, u) /\ ~ Is("assign", v) /\ v \in Insns'
    <3>1. Before(All, v, u)
      BY <2>1 DEF ProgramInv, DefsFirst
    <3>2. ~ Is("assign", v)
      BY <1>1, <1>10, <2>1 DEF ProgramInv, InlinedDone
    <3>3. v \in Elems(All)
      BY <3>1, BeforeMembers
    <3> QED BY <1>2, <3>1, <3>2, <3>3
  <2> QED BY <2>1, <2>2
<1>12. DefsFirst'
  <2> SUFFICES ASSUME NEW u \in Assigns', NEW v \in body'[u].vars PROVE Before(order', v, u)
    BY <1>2 DEF DefsFirst, Before
  <2>1. u \in Insns' /\ Is("assign", u)'
    BY DEF Assigns
  <2>2. Before(order, v, u) /\ v \in Insns'
    BY <1>2, <1>11, <2>1
  <2>3. v \in Elems(order) \ {id} /\ u \in Elems(order) \ {id}
    BY <1>10, <2>1, <2>2
  <2> QED BY <1>1, <1>3, <2>2, <2>3, KeptBefore DEF Typed
<1>13. InlinedDone'
  <2> SUFFICES ASSUME NEW u \in Elems(order)', Is("assign", u)', NEW v \in body'[u].vars
               PROVE  ~ Is("assign", v)'
    BY DEF InlinedDone
  <2>1. u \in Insns'
    BY <1>2
  <2>2. ~ Is("assign", v) /\ v \in Insns'
    BY <1>11, <2>1
  <2>3. body'[v] = body[v]
    BY <1>2, <1>10, <2>2
  <2> QED BY <2>2, <2>3 DEF Is
<1>14. QueueDead'
  <2> SUFFICES ASSUME NEW v \in Elems(Tail(queue))
               PROVE  v \in Elems(order)' /\ Is("assign", v)' /\ users'[v] = {}
    BY <1>1, <1>4 DEF QueueDead, Elems
  <2>1. v \in Elems(order) /\ Is("assign", v) /\ users[v] = {} /\ v # id
    BY <1>4 DEF ProgramInv, QueueDead
  <2>2. v \in Id /\ body'[v] = body[v]
    BY <1>2, <1>5, <2>1
  <2> QED BY <1>2, <1>7, <2>1, <2>2 DEF Is
<1>15. MapExact'
  <2> SUFFICES ASSUME ~ rejected
               PROVE  /\ \A v \in declared' :
                           users'[v] = {u \in Elems(All)' : v \in body'[u].vars}
                      /\ \A u \in Elems(All)' : body'[u].vars \subseteq declared'
    BY <1>1 DEF MapExact
  <2>1. /\ \A v \in declared : users[v] = {u \in Elems(All) : v \in body[u].vars}
        /\ \A u \in Elems(All) : body[u].vars \subseteq declared
    BY DEF ProgramInv, MapExact
  <2>2. \A u \in Elems(All)' : u \in Elems(All) /\ u # id /\ body'[u] = body[u]
    BY <1>2, <1>10
  <2>3. ASSUME NEW v \in declared'
        PROVE  users'[v] = {u \in Elems(All)' : v \in body'[u].vars}
    <3>1. v \in declared /\ v # id /\ v \in Id
      BY <1>1, <1>5
    <3>2. users[v] = {u \in Elems(All) : v \in body[u].vars}
      BY <2>1, <3>1
    <3>3. users'[v] = IF v \in body[id].vars THEN users[v] \ {id} ELSE users[v]
      BY <1>7, <3>1
    <3> QED BY <1>2, <2>2, <3>2, <3>3
  <2>4. ASSUME NEW u \in Elems(All)' PROVE body'[u].vars \subseteq declared'
    <3>1. u \in Elems(All) /\ body'[u] = body[u] /\ body[u].vars \subseteq declared
      BY <2>1, <2>2
    <3>2. id \notin body[u].vars
      BY <1>2, <1>5, <2>1, <3>1
    <3> QED BY <1>1, <3>1, <3>2
  <2> QED BY <2>3, <2>4
<1> QED BY <1>8, <1>9, <1>12, <1>13, <1>14, <1>15 DEF ProgramInv

LEMMA ProgramStep == ProgramInv /\ [Next]_vars => ProgramInv'
<1> SUFFICES ASSUME ProgramInv, [Next]_vars PROVE ProgramInv'
  OBVIOUS
<1>1. ASSUME pc = "idle", NEW id \in Id, NEW b \in Insn,
             Push(id, b) \/ PushUndefined(id, b) \/ PushRedeclared(id, b)
      PROVE  ProgramInv'
  BY <1>1, PushInv, RejectedInv
<1>2. CASE SimplifyBegin
  BY <1>2, SimplifyBeginInv
<1>3. CASE InlineAssign
  BY <1>3, InlineAssignInv
<1>4. CASE InlineUnknown
  BY <1>4, InlineUnknownInv
<1>5. CASE SweepScan
  BY <1>5, SweepScanInv
<1>6. CASE SweepRemove
  BY <1>6, SweepRemoveInv
<1>7. CASE UNCHANGED vars
  <2>1. /\ UNCHANGED <<order, body, declared, users, pc, todo, queue, rejected, value>>
        /\ All' = All /\ Insns' = Insns
    BY <1>7 DEF vars, All, Insns
  <2>2. Typed' /\ Phases' /\ Placed' /\ InlinedDone' /\ QueueDead' /\ MapExact'
    BY <2>1 DEF ProgramInv, Typed, Phases, Placed, InlinedDone, QueueDead, MapExact, Is
  <2>3. DefsFirst'
    BY <2>1 DEF ProgramInv, DefsFirst, Assigns, Is
  <2> QED BY <2>2, <2>3 DEF ProgramInv
<1> QED BY <1>1, <1>2, <1>3, <1>4, <1>5, <1>6, <1>7 DEF Next, SimplifyStep

LEMMA ProgramInvariant == Spec => []ProgramInv
BY ProgramInit, ProgramStep, PTL DEF Spec

-----------------------------------------------------------------------------
(* The theorems.                                                             *)

(* Type correctness: the IndexMap never holds an identifier twice, not even    *)
(* while simplify moves instructions from one map to the other.               *)
THEOREM ProgramTypeCorrect == Spec => []TypeOK
<1>1. ProgramInv => TypeOK
  <2> SUFFICES ASSUME ProgramInv PROVE TypeOK
    OBVIOUS
  <2>1. Typed /\ All \in Seq(Id) /\ Insns = Elems(All) /\ Distinct(All)
    BY InsnsAll DEF ProgramInv, Placed
  <2>2. Cardinality(Insns) = Len(order \o todo)
    BY <2>1, DistinctCount DEF All
  <2> QED BY <2>1, <2>2 DEF Typed, TypeOK
<1> QED BY <1>1, ProgramInvariant, PTL

(* The def-use map is exact in every state of a program no push to which was   *)
(* rejected: inlining strikes the uses of the old expression and records       *)
(* those of the new one, a removal strikes the uses of what it removes.        *)
THEOREM DefUseMapExact == Spec => []UsesExact
<1>1. ProgramInv => UsesExact
  <2> SUFFICES ASSUME ProgramInv PROVE UsesExact
    OBVIOUS
  <2>1. Insns = Elems(All)
    BY InsnsAll DEF ProgramInv
  <2> QED BY <2>1 DEF ProgramInv, UsesExact, MapExact, Placed
<1> QED BY <1>1, ProgramInvariant, PTL

(* No sweep removes an assignment an unknown instruction still names.          *)
THEOREM ArgumentsDefined == Spec => []ArgsDefined
<1>1. ProgramInv => ArgsDefined
  <2> SUFFICES ASSUME ProgramInv PROVE ArgsDefined
    OBVIOUS
  <2>1. Insns = Elems(All) /\ declared = Elems(All)
    BY InsnsAll DEF ProgramInv, Placed
  <2> QED BY <2>1 DEF ProgramInv, ArgsDefined, MapExact, Unknowns
<1> QED BY <1>1, ProgramInvariant, PTL

(* simplify finds every definition it looks up, and the sweep every           *)
(* instruction it removes, whatever pushes were rejected before: the error     *)
(* paths of get_insn, get_mut_uses and remove are never taken from simplify.   *)
THEOREM SimplifyNeverFails == Spec => []SimplifyFinds
<1>1. ProgramInv => SimplifyFinds
  <2> SUFFICES ASSUME ProgramInv PROVE SimplifyFinds
    OBVIOUS
  <2>1. Insns = Elems(All) /\ declared = Elems(All) /\ Elems(order) \subseteq Insns
    BY InsnsAll DEF ProgramInv, Placed
  <2>2. ASSUME pc = "inline", todo # <<>>, Is("assign", Head(todo))
        PROVE  /\ body[Head(todo)].vars \subseteq Elems(order)
               /\ Inlined(Head(todo)).vars \subseteq declared
    BY <2>1, <2>2, InlinedMentions
  <2>3. ASSUME pc = "sweep", NEW v \in Elems(queue)
        PROVE  /\ v \in Elems(order) /\ Is("assign", v) /\ users[v] = {}
               /\ body[v].vars \subseteq declared \ Elems(queue)
    <3>1. v \in Elems(order) /\ Is("assign", v) /\ users[v] = {} /\ v \in Assigns
      BY <2>1 DEF ProgramInv, QueueDead, Assigns
    <3>2. ASSUME NEW w \in body[v].vars PROVE w \in declared /\ w \notin Elems(queue)
      <4>1. Before(All, w, v) /\ ~ Is("assign", w)
        BY <2>3, <3>1 DEF ProgramInv, DefsFirst, InlinedDone
      <4>2. w \in Elems(All)
        BY <4>1, BeforeMembers
      <4> QED BY <2>1, <4>1, <4>2 DEF ProgramInv, QueueDead
    <3> QED BY <3>1, <3>2
  <2> QED BY <2>2, <2>3 DEF SimplifyFinds
<1> QED BY <1>1, ProgramInvariant, PTL

(* simplify keeps the unknown instructions, their arguments and their order.   *)
THEOREM UnknownsSurvive == Spec => UnknownsKept
<1>1. ASSUME ProgramInv, SimplifyStep
      PROVE  /\ UnknownSeq' = UnknownSeq
             /\ \A u \in Unknowns : body'[u] = body[u]
  <2>0. /\ Insns = Elems(All) /\ All \in Seq(Id) /\ Insns \subseteq Id
        /\ todo = <<>> => All = order
    BY <1>1, InsnsAll DEF ProgramInv
  <2>1. ProgramInv' /\ Typed'
    BY <1>1, ProgramStep DEF Next, ProgramInv
  <2>2. UnknownSeq = Kept(All, Unknowns) /\ UnknownSeq' = Kept(All', Unknowns')
    BY DEF UnknownSeq, All
  <2>3. CASE SimplifyBegin
    <3>1. All' = All /\ body' = body
      BY <1>1, <2>3, ConcatEmptySeq DEF ProgramInv, Typed, Phases, SimplifyBegin, All
    <3>2. Insns' = Insns
      BY <2>0, <2>1, <3>1, InsnsAllNext
    <3> QED BY <2>2, <3>1, <3>2 DEF Unknowns, Is
  <2>4. CASE InlineUnknown
    <3>1. All' = All /\ Insns' = Insns /\ body' = body
      BY <1>1, <2>4, InlineMoves DEF InlineUnknown
    <3> QED BY <2>2, <3>1 DEF Unknowns, Is
  <2>5. CASE InlineAssign
    <3> DEFINE id == Head(todo)
    <3>1. /\ pc = "inline" /\ todo # <<>> /\ Is("assign", id)
          /\ order' = Append(order, id) /\ todo' = Tail(todo)
      BY <2>5 DEF InlineAssign
    <3>2. All' = All /\ Insns' = Insns /\ id \in Id
      BY <1>1, <3>1, InlineMoves, InlinedMentions
    <3>3. PICK f : body' = [body EXCEPT ![id] =
                                [kind |-> "assign", vars |-> f.vars, val |-> f.val]]
      BY <2>5 DEF InlineAssign
    <3> HIDE DEF id
    <3>4. /\ body'[id].kind = "assign" /\ \A u \in Id : u # id => body'[u] = body[u]
      BY <1>1, <3>2, <3>3 DEF ProgramInv, Typed
    <3>5. \A u \in Id : Is("unknown", u)' <=> Is("unknown", u)
      BY <3>1, <3>4 DEF Is
    <3>6. Unknowns' = Unknowns
      BY <2>0, <3>2, <3>5 DEF Unknowns
    <3>7. \A u \in Unknowns : u # id /\ u \in Id
      BY <2>0, <3>1 DEF Unknowns, Is
    <3> QED BY <2>2, <3>2, <3>4, <3>6, <3>7
  <2>6. CASE SweepScan
    <3>1. UNCHANGED <<order, todo, body>>
      BY <2>6 DEF SweepScan
    <3> QED BY <3>1 DEF UnknownSeq, Unknowns, Insns, Is
  <2>7. CASE SweepRemove
    <3> DEFINE id == Head(queue)
    <3>1. /\ All = order /\ id \in Id /\ Is("assign", id) /\ All' = order'
          /\ Insns' = Elems(All)' /\ Elems(All)' = Elems(All) \ {id}
          /\ \A u \in Id : u # id => body'[u] = body[u]
      BY <1>1, <2>7, SweepRemoves
    <3>2. order' = Kept(order, Elems(order) \ {id})
      BY <2>7 DEF SweepRemove, Without
    <3> HIDE DEF id
    <3>3. id \notin Unknowns
      BY <3>1 DEF Unknowns, Is
    <3>4. Unknowns' = Unknowns
      <4>1. \A u \in Id : u # id => (Is("unknown", u)' <=> Is("unknown", u))
        BY <3>1 DEF Is
      <4> QED BY <2>0, <3>1, <3>3, <4>1 DEF Unknowns
    <3>5. Kept(order', Unknowns) = Kept(order, (Elems(order) \ {id}) \cap Unknowns)
      BY <2>0, <3>1, <3>2, KeptTwice
    <3>6. Elems(order) \cap ((Elems(order) \ {id}) \cap Unknowns) = Elems(order) \cap Unknowns
      BY <3>3
    <3>7. Kept(order, (Elems(order) \ {id}) \cap Unknowns) = Kept(order, Unknowns)
      BY <2>0, <3>1, <3>6, KeptSame
    <3>8. \A u \in Unknowns : body'[u] = body[u]
      BY <2>0, <3>1, <3>3 DEF Unknowns
    <3> QED BY <2>2, <3>1, <3>4, <3>5, <3>7, <3>8
  <2> QED BY <1>1, <2>3, <2>4, <2>5, <2>6, <2>7 DEF SimplifyStep
<1>2. ProgramInv /\ [Next]_vars =>
        [SimplifyStep => /\ UnknownSeq' = UnknownSeq
                         /\ \A u \in Unknowns : body'[u] = body[u]]_vars
  BY <1>1
<1> QED BY <1>2, ProgramInvariant, PTL DEF Spec, UnknownsKept

(* When simplify returns on a program no push to which was rejected, every     *)
(* assignment left is an argument of an unknown instruction.                  *)
THEOREM SweepLeavesNothingDead == Spec => NothingDeadLeft
<1>1. ASSUME ProgramInv, [Next]_vars, pc # "idle", pc' = "idle", ~ rejected,
             NEW a \in Assigns'
      PROVE  \E u \in Unknowns' : a \in body'[u].vars
  <2>1. /\ SweepScan /\ queue' = <<>>
        /\ UNCHANGED <<order, body, declared, users, todo>>
    BY <1>1 DEF Next, SimplifyStep, vars, SimplifyBegin, InlineAssign, InlineUnknown,
                SweepScan, SweepRemove
  <2>2. todo = <<>>
    BY <1>1, <2>1 DEF ProgramInv, Phases, SweepScan
  <2>3. Insns' = Insns /\ Insns = Elems(All) /\ All = order /\ order \in Seq(Id)
        /\ declared = Elems(All)
    BY <1>1, <2>1, <2>2, InsnsAll DEF ProgramInv, Typed, Placed, Insns
  <2>4. a \in Elems(order) /\ Is("assign", a)
    BY <2>1, <2>3 DEF Assigns, Is
  <2>5. a \notin {v \in Elems(order) : Dead(v)}
    <3>1. Elems(queue') = Elems(order) \cap {v \in Elems(order) : Dead(v)}
      BY <2>1, <2>3, KeptMembers DEF SweepScan
    <3> QED BY <2>1, <2>4, <3>1, ElemsEmpty
  <2>6. users[a] # {} /\ users[a] = {u \in Elems(All) : a \in body[u].vars}
    BY <1>1, <2>3, <2>4, <2>5 DEF Dead, ProgramInv, MapExact
  <2>7. PICK u \in Elems(All) : a \in body[u].vars
    BY <2>6
  <2>8. ~ Is("assign", u) /\ u \in Id
    BY <1>1, <2>3, <2>4, <2>7, DistinctCount DEF ProgramInv, InlinedDone
  <2>9. Is("unknown", u)
    BY <1>1, <2>8 DEF Is, ProgramInv, Typed, Insn, Kinds
  <2> QED BY <2>1, <2>3, <2>7, <2>9 DEF Unknowns, Is
<1>2. ProgramInv /\ [Next]_vars =>
        [pc # "idle" /\ pc' = "idle" /\ ~ rejected =>
           \A a \in Assigns' : \E u \in Unknowns' : a \in body'[u].vars]_vars
  BY <1>1
<1> QED BY <1>2, ProgramInvariant, PTL DEF Spec, NothingDeadLeft

(* simplify returns: each of its steps takes from the finite work that is left.*)
THEOREM SimplifyReturns == Spec => SimplifyEnds
<1>1. ASSUME ProgramInv, [Next]_vars, pc # "idle", ~ UNCHANGED vars
      PROVE  Work' < Work
  <2>1. /\ order \in Seq(Id) /\ todo \in Seq(Id) /\ queue \in Seq(Id)
        /\ Len(order) \in Nat /\ Len(todo) \in Nat /\ Len(<<>>) = 0
    BY <1>1, LenProperties, EmptySeq DEF ProgramInv, Typed
  <2>2. CASE InlineAssign \/ InlineUnknown
    <3>1. /\ pc = "inline" /\ pc' = pc /\ todo # <<>> /\ todo' = Tail(todo)
          /\ order' = Append(order, Head(todo))
      BY <2>2 DEF InlineAssign, InlineUnknown
    <3>2. Len(todo') = Len(todo) - 1 /\ Len(order') = Len(order) + 1
      BY <2>1, <3>1, HeadTailProperties, AppendProperties
    <3>3. Len(todo) \in Nat \ {0}
      BY <2>1, <3>1, EmptySeq
    <3> QED BY <2>1, <3>1, <3>2, <3>3 DEF Work
  <2>3. CASE SweepScan
    <3>1. /\ todo = <<>> /\ todo' = todo /\ order' = order
          /\ pc' = IF queue' = <<>> THEN "idle" ELSE "sweep"
          /\ pc = "inline" \/ (pc = "sweep" /\ queue = <<>>)
      BY <1>1, <2>3 DEF ProgramInv, Phases, SweepScan
    <3>2. Work >= 2 * Len(order) + 2
      BY <2>1, <3>1 DEF Work
    <3>3. Work' <= 2 * Len(order) + 1
      BY <2>1, <3>1 DEF Work
    <3>4. Work \in Nat /\ Work' \in Nat
      BY <2>1, <3>1 DEF Work
    <3> QED BY <2>1, <3>2, <3>3, <3>4
  <2>4. CASE SweepRemove
    <3>1. /\ All = order /\ todo = <<>> /\ todo' = <<>> /\ Head(queue) \in Elems(order)
          /\ order' \in Seq(Id) /\ Elems(order)' = Elems(order) \ {Head(queue)}
          /\ Distinct(order')
      BY <1>1, <2>4, SweepRemoves
    <3>2. pc = "sweep" /\ pc' = "sweep" /\ queue # <<>>
      BY <2>4 DEF SweepRemove
    <3>3. /\ IsFiniteSet(Elems(order)) /\ Cardinality(Elems(order)) = Len(order)
          /\ Cardinality(Elems(order')) = Len(order')
      BY <1>1, <2>1, <3>1, DistinctCount DEF ProgramInv, Placed
    <3>4. Len(order') = Len(order) - 1
      <4>1. Elems(order') = Elems(order) \ {Head(queue)}
        BY <3>1 DEF Elems
      <4> QED BY <3>1, <3>3, <4>1, FS_RemoveElement
    <3>5. Work = 2 * Len(order) + 1
      BY <2>1, <3>1, <3>2 DEF Work
    <3>6. Work' <= 2 * (Len(order) - 1) + 2 /\ Work' \in Int
      BY <2>1, <3>1, <3>2, <3>4 DEF Work
    <3> QED BY <2>1, <3>5, <3>6
  <2> QED BY <1>1, <2>2, <2>3, <2>4 DEF Next, SimplifyStep, SimplifyBegin
<1>2. ProgramInv /\ [Next]_vars => [pc # "idle" => Work' < Work]_vars
  BY <1>1
<1> QED BY <1>2, ProgramInvariant, PTL DEF Spec, SimplifyEnds

-----------------------------------------------------------------------------
(* XorOf is linear: what inlining rests on.                                   *)
Odd(S) == Cardinality(S) % 2 = 1

LEMMA SymDiffParity ==
  ASSUME NEW S, NEW T, IsFiniteSet(S), IsFiniteSet(T)
  PROVE  /\ IsFiniteSet(SymDiff(S, T))
         /\ Odd(SymDiff(S, T)) <=> ~ (Odd(S) <=> Odd(T))
<1>1. /\ IsFiniteSet(S \ T) /\ Cardinality(S \ T) = Cardinality(S) - Cardinality(S \cap T)
      /\ IsFiniteSet(T \ S) /\ Cardinality(T \ S) = Cardinality(T) - Cardinality(S \cap T)
  <2>1. T \cap S = S \cap T
    OBVIOUS
  <2> QED BY <2>1, FS_Difference
<1>2. (S \ T) \cap (T \ S) = {}
  OBVIOUS
<1>3. /\ IsFiniteSet(SymDiff(S, T))
      /\ Cardinality(SymDiff(S, T)) = Cardinality(S \ T) + Cardinality(T \ S)
  <2>1. /\ IsFiniteSet((S \ T) \cup (T \ S))
        /\ Cardinality((S \ T) \cup (T \ S)) =
             Cardinality(S \ T) + Cardinality(T \ S) - Cardinality((S \ T) \cap (T \ S))
    BY <1>1, FS_Union
  <2>2. Cardinality(S \ T) \in Nat /\ Cardinality(T \ S) \in Nat
    BY <1>1, FS_CardinalityType
  <2> QED BY <1>2, <2>1, <2>2, FS_EmptySet DEF SymDiff
<1>4. /\ Cardinality(S) \in Nat /\ Cardinality(T) \in Nat /\ Cardinality(S \cap T) \in Nat
  BY FS_CardinalityType, FS_Intersection
<1>5. \A a, b, c \in Nat :
        ((a - c) + (b - c)) % 2 = 1 <=> ~ (a % 2 = 1 <=> b % 2 = 1)
  OBVIOUS
<1> QED BY <1>1, <1>3, <1>4, <1>5 DEF Odd

LEMMA XorSymDiff ==
  ASSUME NEW f, NEW S, NEW T, IsFiniteSet(S), IsFiniteSet(T)
  PROVE  XorOf(f, SymDiff(S, T)) = SymDiff(XorOf(f, S), XorOf(f, T))
<1>1. ASSUME NEW w \in Id
      PROVE  w \in XorOf(f, SymDiff(S, T)) <=> w \in SymDiff(XorOf(f, S), XorOf(f, T))
  <2> DEFINE In(R) == {v \in R : w \in f[v]}
  <2>1. In(SymDiff(S, T)) = SymDiff(In(S), In(T))
    BY DEF SymDiff
  <2>2. IsFiniteSet(In(S)) /\ IsFiniteSet(In(T))
    BY FS_Subset
  <2>3. \A R : w \in XorOf(f, R) <=> Odd(In(R))
    BY DEF XorOf, Odd
  <2> HIDE DEF In
  <2>4. Odd(SymDiff(In(S), In(T))) <=> ~ (Odd(In(S)) <=> Odd(In(T)))
    BY <2>2, SymDiffParity
  <2>5. w \in SymDiff(XorOf(f, S), XorOf(f, T)) <=> ~ (w \in XorOf(f, S) <=> w \in XorOf(f, T))
    BY DEF SymDiff
  <2> QED BY <2>1, <2>3, <2>4, <2>5
<1>2. \A R : XorOf(f, R) \subseteq Id
  BY DEF XorOf
<1> QED BY <1>1, <1>2 DEF SymDiff

LEMMA XorSimple ==
  ASSUME NEW f
  PROVE  /\ XorOf(f, {}) = {}
         /\ \A v : f[v] \subseteq Id => XorOf(f, {v}) = f[v]
<1>1. XorOf(f, {}) = {}
  <2>1. \A w \in Id : {v \in {} : w \in f[v]} = {}
    OBVIOUS
  <2> QED BY <2>1, FS_EmptySet DEF XorOf
<1>2. ASSUME NEW v, f[v] \subseteq Id PROVE XorOf(f, {v}) = f[v]
  <2>1. ASSUME NEW w \in Id PROVE w \in XorOf(f, {v}) <=> w \in f[v]
    <3>1. CASE w \in f[v]
      <4>1. {u \in {v} : w \in f[u]} = {v}
        BY <3>1
      <4> QED BY <3>1, <4>1, FS_Singleton DEF XorOf
    <3>2. CASE w \notin f[v]
      <4>1. {u \in {v} : w \in f[u]} = {}
        BY <3>2
      <4> QED BY <3>2, <4>1, FS_EmptySet DEF XorOf
    <3> QED BY <3>1, <3>2
  <2> QED BY <1>2, <2>1 DEF XorOf
<1> QED BY <1>1, <1>2

LEMMA XorAgree ==
  ASSUME NEW f, NEW g, NEW S, \A v \in S : f[v] = g[v]
  PROVE  XorOf(f, S) = XorOf(g, S)
<1>1. \A w \in Id : {v \in S : w \in f[v]} = {v \in S : w \in g[v]}
  OBVIOUS
<1> QED BY <1>1 DEF XorOf

LEMMA XorWithin ==
  ASSUME NEW g, NEW S, NEW F, \A v \in S : g[v] \subseteq F
  PROVE  XorOf(g, S) \subseteq F
<1> SUFFICES ASSUME NEW w \in XorOf(g, S) PROVE w \in F
  OBVIOUS
<1>1. Cardinality({v \in S : w \in g[v]}) % 2 = 1
  BY DEF XorOf
<1>2. {v \in S : w \in g[v]} # {}
  BY <1>1, FS_EmptySet
<1> QED BY <1>2

(* Replacing each v of T by the variables g[v] it is the XOR of.               *)
LEMMA XorReplace ==
  ASSUME NEW f, NEW g, NEW h, NEW F, IsFiniteSet(F), NEW T, IsFiniteSet(T),
         \A v \in T : /\ g[v] \subseteq F /\ g[v] \subseteq Id /\ h[v] \subseteq Id
                      /\ XorOf(f, g[v]) = h[v]
  PROVE  XorOf(f, XorOf(g, T)) = XorOf(h, T)
<1> DEFINE P == {S \in SUBSET T : XorOf(f, XorOf(g, S)) = XorOf(h, S)}
<1>1. {} \in P
  BY XorSimple
<1>2. ASSUME NEW S \in SUBSET T, NEW x \in T, S \in P PROVE S \cup {x} \in P
  <2>1. CASE x \in S
    <3>1. S \cup {x} = S
      BY <2>1
    <3> QED BY <1>2, <3>1
  <2>2. CASE x \notin S
    <3>1. SymDiff(S, {x}) = S \cup {x}
      BY <2>2 DEF SymDiff
    <3>2. IsFiniteSet(S) /\ IsFiniteSet({x})
      BY FS_Subset, FS_Singleton
    <3>3. /\ XorOf(g, S \cup {x}) = SymDiff(XorOf(g, S), XorOf(g, {x}))
          /\ XorOf(h, S \cup {x}) = SymDiff(XorOf(h, S), XorOf(h, {x}))
      <4>1. /\ XorOf(g, SymDiff(S, {x})) = SymDiff(XorOf(g, S), XorOf(g, {x}))
            /\ XorOf(h, SymDiff(S, {x})) = SymDiff(XorOf(h, S), XorOf(h, {x}))
        BY <3>2, XorSymDiff
      <4> QED BY <3>1, <4>1
    <3>4. XorOf(g, {x}) = g[x] /\ XorOf(h, {x}) = h[x]
      BY XorSimple
    <3>5. XorOf(g, S) \subseteq F
      BY XorWithin
    <3>6. IsFiniteSet(XorOf(g, S)) /\ IsFiniteSet(g[x])
      BY <3>5, FS_Subset
    <3>7. XorOf(f, SymDiff(XorOf(g, S), g[x])) = SymDiff(XorOf(f, XorOf(g, S)), XorOf(f, g[x]))
      BY <3>6, XorSymDiff
    <3>8. XorOf(f, XorOf(g, S)) = XorOf(h, S) /\ XorOf(f, g[x]) = h[x]
      BY <1>2
    <3>9. XorOf(f, XorOf(g, S \cup {x})) = XorOf(h, S \cup {x})
      BY <3>3, <3>4, <3>7, <3>8
    <3> QED BY <3>9
  <2> QED BY <2>1, <2>2
<1>3. T \in P
  <2> HIDE DEF P
  <2> QED BY <1>1, <1>2, FiniteCases
<1> QED BY <1>3

(* Inlining keeps the value of an expression whose assignments compute theirs. *)
LEMMA InlinedValue ==
  ASSUME ProgramInv, ValueKept, pc = "inline", todo # <<>>, Is("assign", Head(todo))
  PROVE  XorOf(value, Inlined(Head(todo)).val) = value[Head(todo)]
<1> DEFINE id == Head(todo)
           e == body[id]
           A == {v \in e.vars : Is("assign", v)}
           g == [v \in Id |-> body[v].val]
<1>1. /\ id \in Insns /\ id \in Id /\ e.vars \subseteq Elems(order)
      /\ Insns = Elems(All) /\ Elems(order) \subseteq Insns /\ Insns \subseteq Id
      /\ All \in Seq(Id)
  BY InlinedMentions, InsnsAll DEF ProgramInv
<1>2. IsFiniteSet(Insns) /\ e.val \subseteq e.vars /\ value \in [Id -> SUBSET Id]
  BY <1>1, DistinctCount DEF ProgramInv, Typed, Insn
<1>3. XorOf(value, e.val) = value[id]
  BY <1>1 DEF ValueKept, Assigns
<1>4. ASSUME NEW v \in e.val \cap A
      PROVE  /\ g[v] \subseteq Insns /\ g[v] \subseteq Id /\ value[v] \subseteq Id
             /\ XorOf(value, g[v]) = value[v]
  <2>1. v \in Assigns /\ v \in Id /\ g[v] = body[v].val
    BY <1>1 DEF Assigns
  <2>2. body[v].val \subseteq body[v].vars
    BY <2>1 DEF ProgramInv, Typed, Insn
  <2>3. body[v].vars \subseteq Insns
    BY <1>1, <2>1, BeforeMembers DEF ProgramInv, DefsFirst
  <2>4. XorOf(value, body[v].val) = value[v]
    BY <2>1 DEF ValueKept
  <2> QED BY <1>1, <1>2, <2>1, <2>2, <2>3, <2>4
<1>5. /\ IsFiniteSet(e.val \ A) /\ IsFiniteSet(e.val \cap A)
      /\ XorOf(g, e.val \cap A) \subseteq Insns /\ IsFiniteSet(XorOf(g, e.val \cap A))
  <2>1. e.val \ A \in SUBSET Insns /\ e.val \cap A \in SUBSET Insns
    BY <1>1, <1>2
  <2>2. XorOf(g, e.val \cap A) \subseteq Insns
    <3> HIDE DEF g, A, e
    <3> QED BY <1>4, XorWithin
  <2> HIDE DEF g, A, e
  <2> QED BY <1>2, <2>1, <2>2, FS_Subset
<1>6. XorOf(value, XorOf(g, e.val \cap A)) = XorOf(value, e.val \cap A)
  <2> HIDE DEF g, A, e
  <2> QED BY <1>2, <1>4, <1>5, XorReplace
<1>7. Inlined(id).val = SymDiff(e.val \ A, XorOf(g, e.val \cap A))
  BY DEF Inlined
<1> HIDE DEF g, A, e
<1>8. XorOf(value, Inlined(id).val) =
        SymDiff(XorOf(value, e.val \ A), XorOf(value, XorOf(g, e.val \cap A)))
  BY <1>5, <1>7, XorSymDiff
<1>9. XorOf(value, SymDiff(e.val \ A, e.val \cap A)) =
        SymDiff(XorOf(value, e.val \ A), XorOf(value, e.val \cap A))
  BY <1>5, XorSymDiff
<1>10. SymDiff(e.val \ A, e.val \cap A) = e.val
  BY DEF SymDiff
<1> QED BY <1>3, <1>6, <1>8, <1>9, <1>10 DEF id

LEMMA ValueStep == ProgramInv /\ ValueKept /\ [Next]_vars => ValueKept'
<1> SUFFICES ASSUME ProgramInv, ValueKept, [Next]_vars PROVE ValueKept'
  OBVIOUS
<1>1. /\ Typed /\ Insns = Elems(All) /\ Insns \subseteq Id /\ All \in Seq(Id)
      /\ declared = Insns
      /\ todo = <<>> => All = order
  BY InsnsAll DEF ProgramInv, Placed
<1>2. ASSUME NEW a \in Assigns
      PROVE  /\ a \in Insns /\ a \in Id /\ body[a].val \subseteq body[a].vars
             /\ body[a].vars \subseteq Insns /\ XorOf(value, body[a].val) = value[a]
  <2>1. a \in Insns /\ a \in Id
    BY <1>1 DEF Assigns
  <2>2. body[a].vars \subseteq Insns
    BY <1>1, BeforeMembers DEF ProgramInv, DefsFirst
  <2> QED BY <1>1, <2>1, <2>2 DEF ValueKept, Typed, Insn
<1>3. ASSUME pc = "idle", NEW id \in Id, NEW b \in Insn, Push(id, b) PROVE ValueKept'
  <2>0. /\ order' = Append(order, id) /\ todo = <<>> /\ todo' = <<>> /\ id \notin Insns
        /\ b.vars \subseteq Insns /\ b.val \subseteq b.vars
        /\ body' = [body EXCEPT ![id] = b]
        /\ value' = [value EXCEPT ![id] =
                        IF b.kind = "unknown" THEN {id} ELSE XorOf(value, b.val)]
    <3>1. todo = <<>>
      BY <1>3 DEF ProgramInv, Phases
    <3>2. b.val \subseteq b.vars
      BY DEF Insn
    <3>3. value' = [value EXCEPT ![id] =
                      IF b.kind = "unknown" THEN {id} ELSE XorOf(value, b.val)]
      BY <1>3, Zenon DEF Push
    <3>4. /\ order' = Append(order, id) /\ id \notin declared /\ b.vars \subseteq declared
          /\ body' = [body EXCEPT ![id] = b] /\ todo' = todo
      BY <1>3, Zenon DEF Push
    <3>5. id \notin Insns /\ b.vars \subseteq Insns /\ todo' = <<>>
      BY <1>1, <3>1, <3>4
    <3> QED BY <3>1, <3>2, <3>3, <3>4, <3>5, Zenon
  <2>1. /\ body'[id] = b /\ \A u \in Id : u # id => body'[u] = body[u] /\ value'[u] = value[u]
        /\ b.kind # "unknown" => value'[id] = XorOf(value, b.val)
    <3> DEFINE new == IF b.kind = "unknown" THEN {id} ELSE XorOf(value, b.val)
    <3>1. value' = [value EXCEPT ![id] = new] /\ body' = [body EXCEPT ![id] = b]
      BY <2>0
    <3>2. b.kind # "unknown" => new = XorOf(value, b.val)
      BY Zenon
    <3> HIDE DEF new
    <3> QED BY <1>1, <3>1, <3>2 DEF Typed
  <2>2. Insns' = Insns \cup {id}
    <3>1. Elems(order') = Elems(order) \cup {id}
      BY <1>1, <2>0, AppendMembers DEF Typed
    <3> QED BY <2>0, <3>1, ElemsEmpty DEF Insns, Elems
  <2>3. ASSUME NEW S \in SUBSET Insns PROVE XorOf(value', S) = XorOf(value, S)
    <3>1. \A v \in S : value'[v] = value[v]
      BY <1>1, <2>0, <2>1
    <3> QED BY <3>1, XorAgree
  <2> SUFFICES ASSUME NEW a \in Assigns' PROVE XorOf(value', body'[a].val) = value'[a]
    BY DEF ValueKept, XorOf
  <2>4. CASE a = id
    <3>1. b.kind # "unknown"
      BY <2>1, <2>4 DEF Assigns, Is
    <3> QED BY <2>0, <2>1, <2>3, <2>4, <3>1
  <2>5. CASE a # id
    <3>1. a \in Insns /\ a \in Id
      BY <1>1, <2>2, <2>5 DEF Assigns
    <3>2. a \in Assigns /\ body'[a] = body[a] /\ value'[a] = value[a]
      BY <2>1, <2>5, <3>1 DEF Assigns, Is
    <3> QED BY <1>2, <2>3, <3>2
  <2> QED BY <2>4, <2>5
<1>4. ASSUME Insns' = Insns, body' = body, value' = value PROVE ValueKept'
  BY <1>4 DEF ValueKept, Assigns, Is, XorOf
<1>5. ASSUME NEW id \in Id, NEW b \in Insn, PushUndefined(id, b) \/ PushRedeclared(id, b)
      PROVE  ValueKept'
  BY <1>4, <1>5 DEF PushUndefined, PushRedeclared, Insns
<1>6. CASE SimplifyBegin
  <2>1. Insns' = Insns
    BY <1>6, ElemsEmpty DEF SimplifyBegin, ProgramInv, Phases, Insns, Elems
  <2> QED BY <1>4, <1>6, <2>1 DEF SimplifyBegin
<1>7. CASE InlineUnknown
  BY <1>4, <1>7, InlineMoves DEF InlineUnknown
<1>8. CASE SweepScan
  BY <1>4, <1>8 DEF SweepScan, Insns
<1>9. CASE InlineAssign
  <2> DEFINE id == Head(todo)
  <2>1. /\ pc = "inline" /\ todo # <<>> /\ Is("assign", id) /\ value' = value
        /\ order' = Append(order, id) /\ todo' = Tail(todo)
    BY <1>9 DEF InlineAssign
  <2>2. PICK f \in Simplified(Inlined(id)) :
          body' = [body EXCEPT ![id] = [kind |-> "assign", vars |-> f.vars, val |-> f.val]]
    BY <1>9 DEF InlineAssign
  <2>3. Insns' = Insns /\ id \in Id /\ id \in Insns
    BY <2>1, InlineMoves, InlinedMentions
  <2>4. XorOf(value, Inlined(id).val) = value[id] /\ f.val = Inlined(id).val
    BY <2>1, <2>2, InlinedValue DEF Simplified
  <2> HIDE DEF id
  <2>5. /\ body'[id].val = f.val /\ \A u \in Id : u # id => body'[u] = body[u]
    BY <1>1, <2>2, <2>3 DEF Typed
  <2> SUFFICES ASSUME NEW a \in Assigns' PROVE XorOf(value, body'[a].val) = value[a]
    BY <2>1 DEF ValueKept, XorOf
  <2>6. CASE a = id
    BY <2>4, <2>5, <2>6
  <2>7. CASE a # id
    <3>1. a \in Assigns /\ body'[a] = body[a]
      BY <1>1, <2>3, <2>5, <2>7 DEF Assigns, Is
    <3> QED BY <1>2, <3>1
  <2> QED BY <2>6, <2>7
<1>10. CASE SweepRemove
  <2> DEFINE id == Head(queue)
  <2>1. /\ id \in Elems(order) /\ id \in Id /\ Is("assign", id) /\ pc = "sweep"
        /\ All = order /\ Insns' = Elems(All)' /\ Elems(All)' = Elems(All) \ {id}
        /\ \A u \in Id : u # id => body'[u] = body[u]
    BY <1>10, SweepRemoves DEF SweepRemove
  <2>2. value' = [value EXCEPT ![id] = {}]
    BY <1>10 DEF SweepRemove
  <2> HIDE DEF id
  <2> SUFFICES ASSUME NEW a \in Assigns' PROVE XorOf(value', body'[a].val) = value'[a]
    BY DEF ValueKept, XorOf
  <2>3. a \in Insns /\ a \in Id /\ a # id /\ body'[a] = body[a] /\ a \in Assigns
    BY <1>1, <2>1 DEF Assigns, Is
  <2>4. id \notin body[a].vars
    BY <1>1, <2>1, <2>3 DEF ProgramInv, InlinedDone, Assigns
  <2>5. \A v \in body[a].val : value'[v] = value[v]
    BY <1>1, <1>2, <2>2, <2>3, <2>4 DEF Typed
  <2>6. XorOf(value', body[a].val) = XorOf(value, body[a].val)
    BY <2>5, XorAgree
  <2>7. value'[a] = value[a]
    BY <1>1, <2>2, <2>3 DEF Typed
  <2> QED BY <1>2, <2>3, <2>6, <2>7
<1>11. CASE UNCHANGED vars
  BY <1>4, <1>11 DEF vars, Insns
<1> QED BY <1>3, <1>5, <1>6, <1>7, <1>8, <1>9, <1>10, <1>11 DEF Next, SimplifyStep

(* Each assignment computes, through any number of pushes and calls of         *)
(* simplify, what it computed when it was pushed, whatever simplify_mba makes  *)
(* of the inlined expressions as long as it keeps their value.                *)
THEOREM ValuesSurvive == Spec => []ValueKept
<1>1. Init => ValueKept
  <2> SUFFICES ASSUME Init PROVE ValueKept
    OBVIOUS
  <2>1. Insns = {}
    BY ElemsEmpty DEF Init, Insns
  <2> QED BY <2>1 DEF ValueKept, Assigns
<1> QED BY <1>1, ValueStep, ProgramInvariant, PTL DEF Spec

(* remove takes out only what no instruction mentions, as its comment says, as *)
(* long as no push was rejected: the run that refutes the comment needs one.   *)
THEOREM RemovesUnusedUnlessRejected ==
  Spec => [][~ rejected =>
               \A a \in Insns \ Insns' : \A u \in Insns : a \notin body[u].vars]_vars
<1>1. ASSUME ProgramInv, [Next]_vars, ~ rejected,
             NEW a \in Insns \ Insns', NEW u \in Insns
      PROVE  a \notin body[u].vars
  <2>1. CASE SweepRemove
    <3>1. /\ users[Head(queue)] = {} /\ Head(queue) \in Elems(order) /\ All = order
          /\ Insns' = Elems(All) \ {Head(queue)}
      BY <1>1, <2>1, SweepRemoves
    <3>2. Insns = Elems(All) /\ declared = Elems(All)
      BY <1>1, InsnsAll DEF ProgramInv, Placed
    <3>3. a = Head(queue)
      BY <3>1, <3>2
    <3>4. users[a] = {w \in Elems(All) : a \in body[w].vars}
      BY <1>1, <3>1, <3>2, <3>3 DEF ProgramInv, MapExact
    <3> QED BY <3>1, <3>2, <3>3, <3>4
  <2>2. CASE ~ SweepRemove
    <3>1. Insns \subseteq Insns'
      <4>1. ASSUME NEW id \in Id, NEW b \in Insn, pc = "idle",
                   Push(id, b) \/ PushUndefined(id, b) \/ PushRedeclared(id, b)
            PROVE  Insns \subseteq Insns'
        <5>1. CASE Push(id, b)
          <6>1. Elems(order') = Elems(order) \cup {id} /\ todo' = todo
            BY <1>1, <5>1, AppendMembers DEF Push, ProgramInv, Typed
          <6> QED BY <6>1 DEF Insns, Elems
        <5>2. CASE ~ Push(id, b)
          BY <4>1, <5>2 DEF PushUndefined, PushRedeclared, Insns
        <5> QED BY <5>1, <5>2
      <4>2. CASE SimplifyBegin
        BY <1>1, <4>2, ElemsEmpty DEF SimplifyBegin, ProgramInv, Phases, Insns, Elems
      <4>3. CASE InlineAssign \/ InlineUnknown
        BY <1>1, <4>3, InlineMoves DEF InlineAssign, InlineUnknown
      <4>4. CASE SweepScan \/ UNCHANGED vars
        BY <4>4 DEF SweepScan, vars, Insns
      <4> QED BY <1>1, <2>2, <4>1, <4>2, <4>3, <4>4 DEF Next, SimplifyStep
    <3> QED BY <3>1
  <2> QED BY <2>1, <2>2
<1>2. ProgramInv /\ [Next]_vars =>
        [~ rejected => \A a \in Insns \ Insns' : \A u \in Insns : a \notin body[u].vars]_vars
  BY <1>1
<1> QED BY <1>2, ProgramInvariant, PTL DEF Spec
=============================================================================
