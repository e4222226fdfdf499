----------------------------- MODULE Inductions -----------------------------
(***************************************************************************)
(* Induction and recursion over data, for the proofs that need them.       *)
(***************************************************************************)
EXTENDS Integers, Functions, FiniteSetTheorems, SequenceTheorems, WellFoundedInduction, TLAPS

-----------------------------------------------------------------------------
(* Induction over naturals and sequences, stated for sets: the library's      *)
(* theorems take the predicate as an operator, these take the set of what     *)
(* satisfies it.  Both rest on the least counterexample.                      *)
LEMMA LeastNat ==
  ASSUME NEW T \in SUBSET Nat, T # {}
  PROVE  \E m \in T : \A k \in T : m <= k
<1> DEFINE R == {p \in Nat \X Nat : p[1] < p[2]}
<1>1. IsWellFoundedOn(R, Nat)
  BY NatLessThanWellFounded DEF OpToRel
<1>2. PICK m \in T : \A k \in T : ~ (<<k, m>> \in R)
  <2> HIDE DEF R
  <2> QED BY <1>1, WFMin
<1>3. \A k \in T : ~ (k < m)
  <2> TAKE k \in T
  <2>1. <<k, m>> \in Nat \X Nat /\ <<k, m>>[1] = k /\ <<k, m>>[2] = m
    OBVIOUS
  <2>2. ~ (<<k, m>>[1] < <<k, m>>[2])
    BY <1>2, <2>1
  <2> QED BY <2>1, <2>2
<1>4. \A k \in T : m <= k
  <2> TAKE k \in T
  <2> QED BY <1>3
<1> QED BY <1>4

(* What holds at zero and is passed on holds of every natural. *)
LEMMA NatCases ==
  ASSUME NEW T \in SUBSET Nat, 0 \in T, \A n \in T : n + 1 \in T
  PROVE  \A n \in Nat : n \in T
<1>1. SUFFICES ASSUME Nat \ T # {} PROVE FALSE
  OBVIOUS
<1>2. PICK m \in Nat \ T : \A k \in Nat \ T : m <= k
  BY <1>1, LeastNat
<1>3. m # 0 /\ m - 1 \in T
  BY <1>2
<1> QED BY <1>2, <1>3

(* What holds of the empty sequence and is kept by Append holds of all. *)
LEMMA SeqCases ==
  ASSUME NEW V, NEW T, <<>> \in T,
         \A s \in Seq(V), x \in V : s \in T => Append(s, x) \in T
  PROVE  \A s \in Seq(V) : s \in T
<1> DEFINE N == {n \in Nat : \A s \in Seq(V) : Len(s) = n => s \in T}
<1>1. 0 \in N
  <2> SUFFICES ASSUME NEW s \in Seq(V), Len(s) = 0 PROVE s \in T
    OBVIOUS
  <2>1. s = <<>>
    BY EmptySeq
  <2> QED BY <2>1
<1>2. ASSUME NEW n \in N PROVE n + 1 \in N
  <2> SUFFICES ASSUME NEW s \in Seq(V), Len(s) = n + 1 PROVE s \in T
    OBVIOUS
  <2>1. s # <<>>
    BY EmptySeq
  <2>2. PICK r \in Seq(V), x \in V : s = Append(r, x)
    BY <2>1, SequenceEmptyOrAppend
  <2>3. Len(r) \in Nat /\ Len(s) = Len(r) + 1
    BY <2>2, AppendProperties, LenProperties
  <2>4. r \in T
    BY <2>3
  <2> QED BY <2>2, <2>4
<1>3. \A n \in Nat : n \in N
  <2> HIDE DEF N
  <2>1. N \in SUBSET Nat
    BY DEF N
  <2> QED BY <1>1, <1>2, <2>1, NatCases
<1> QED
  <2> TAKE s \in Seq(V)
  <2>1. Len(s) \in N
    BY <1>3, LenProperties
  <2> QED BY <2>1

(* Recursion along an interval of naturals, with a step that is a function.    *)
LEMMA RecursionExists ==
  ASSUME NEW V, NEW b \in V, NEW n \in Nat, NEW step \in [1 .. n -> [V -> V]]
  PROVE  \E g \in [0 .. n -> V] :
           g[0] = b /\ \A i \in 1 .. n : g[i] = step[i][g[i - 1]]
<1> DEFINE P(k) == \E g \in [0 .. k -> V] :
                      g[0] = b /\ \A i \in 1 .. k : g[i] = step[i][g[i - 1]]
           T == {k \in Nat : k <= n => P(k)}
<1>1. 0 \in T
  <2> DEFINE g == [i \in 0 .. 0 |-> b]
  <2>1. g \in [0 .. 0 -> V] /\ g[0] = b /\ \A i \in 1 .. 0 : g[i] = step[i][g[i - 1]]
    OBVIOUS
  <2>2. P(0)
    <3> HIDE DEF g
    <3> QED BY <2>1
  <2> QED BY <2>2
<1>2. ASSUME NEW k \in T PROVE k + 1 \in T
  <2> SUFFICES ASSUME k + 1 <= n PROVE P(k + 1)
    <3> HIDE DEF P
    <3> QED OBVIOUS
  <2>0. P(k)
    <3> HIDE DEF P
    <3> QED OBVIOUS
  <2>1. PICK g \in [0 .. k -> V] :
          g[0] = b /\ \A i \in 1 .. k : g[i] = step[i][g[i - 1]]
    BY <2>0
  <2> DEFINE h == [i \in 0 .. k + 1 |-> IF i = k + 1 THEN step[k + 1][g[k]] ELSE g[i]]
  <2>2. step[k + 1][g[k]] \in V
    OBVIOUS
  <2>3. h \in [0 .. k + 1 -> V]
    BY <2>2
  <2>4. h[0] = b
    BY <2>1
  <2>5. ASSUME NEW i \in 1 .. k + 1 PROVE h[i] = step[i][h[i - 1]]
    <3>1. CASE i = k + 1
      <4>1. h[i - 1] = g[k]
        BY <3>1
      <4> QED BY <3>1, <4>1
    <3>2. CASE i # k + 1
      <4>1. i \in 1 .. k /\ h[i] = g[i] /\ h[i - 1] = g[i - 1]
        BY <3>2
      <4> QED BY <2>1, <4>1
    <3> QED BY <3>1, <3>2
  <2> HIDE DEF h
  <2> QED BY <2>3, <2>4, <2>5
<1>3. n \in T
  <2> HIDE DEF T
  <2>1. T \in SUBSET Nat
    BY DEF T
  <2> QED BY <1>1, <1>2, <2>1, NatCases
<1> QED BY <1>3

(* A recursion fixes the values it gives. *)
LEMMA RecursionUnique ==
  ASSUME NEW step, NEW n \in Nat, NEW g, NEW h, g[0] = h[0],
         \A i \in 1 .. n : g[i] = step[i][g[i - 1]],
         \A i \in 1 .. n : h[i] = step[i][h[i - 1]]
  PROVE  \A i \in 0 .. n : g[i] = h[i]
<1> DEFINE T == {k \in Nat : k <= n => g[k] = h[k]}
<1>1. 0 \in T
  OBVIOUS
<1>2. ASSUME NEW k \in T PROVE k + 1 \in T
  <2> SUFFICES ASSUME k + 1 <= n PROVE g[k + 1] = h[k + 1]
    OBVIOUS
  <2>1. g[k] = h[k] /\ k + 1 \in 1 .. n /\ (k + 1) - 1 = k
    OBVIOUS
  <2> QED BY <2>1
<1>3. \A k \in Nat : k \in T
  <2> HIDE DEF T
  <2>1. T \in SUBSET Nat
    BY DEF T
  <2> QED BY <1>1, <1>2, <2>1, NatCases
<1> QED BY <1>3

(* A finite set is reached from the empty one a member at a time.             *)
LEMMA FiniteCases ==
  ASSUME NEW F, IsFiniteSet(F), NEW T, {} \in T,
         \A S \in SUBSET F, x \in F : S \in T => S \cup {x} \in T
  PROVE  F \in T
<1> DEFINE N == {n \in Nat : \A S \in SUBSET F : Cardinality(S) = n => S \in T}
<1>1. \A S \in SUBSET F : IsFiniteSet(S) /\ Cardinality(S) \in Nat
  BY FS_Subset, FS_CardinalityType
<1>2. 0 \in N
  BY <1>1, FS_EmptySet
<1>3. ASSUME NEW n \in N PROVE n + 1 \in N
  <2> SUFFICES ASSUME NEW S \in SUBSET F, Cardinality(S) = n + 1 PROVE S \in T
    OBVIOUS
  <2>1. S # {}
    BY FS_EmptySet
  <2>2. PICK x \in S : TRUE
    BY <2>1
  <2>3. S \ {x} \in SUBSET F /\ Cardinality(S \ {x}) = n
    BY <1>1, FS_RemoveElement
  <2>4. S \ {x} \in T
    BY <2>3
  <2>5. (S \ {x}) \cup {x} \in T
    BY <2>3, <2>4
  <2>6. (S \ {x}) \cup {x} = S
    OBVIOUS
  <2> QED BY <2>5, <2>6
<1>4. \A n \in Nat : n \in N
  <2> HIDE DEF N
  <2>1. N \in SUBSET Nat
    BY DEF N
  <2> QED BY <1>2, <1>3, <2>1, NatCases
<1> QED BY <1>1, <1>4

(* What holds whenever it holds below holds of every natural. *)
LEMMA StrongCases ==
  ASSUME NEW T \in SUBSET Nat,
         \A n \in Nat : (\A k \in 0 .. n - 1 : k \in T) => n \in T
  PROVE  \A n \in Nat : n \in T
<1>1. SUFFICES ASSUME Nat \ T # {} PROVE FALSE
  OBVIOUS
<1>2. PICK m \in Nat \ T : \A k \in Nat \ T : m <= k
  BY <1>1, LeastNat
<1>3. \A k \in 0 .. m - 1 : k \in T
  BY <1>2
<1> QED BY <1>2, <1>3

(* Recursion by rank: the value at d is a function of those at low[d].         *)
RankedSteps(D, n, rank, V, step, low) ==
  /\ n \in Nat /\ rank \in [D -> 0 .. n]
  /\ \A d \in D : \A e \in low[d] : e \in D /\ rank[e] < rank[d]
  /\ \A d \in D : step[d] \in [[low[d] -> V] -> V]

(* Such a recursion is defined at every member. *)
LEMMA RankRecursion ==
  ASSUME NEW D, NEW n, NEW rank, NEW V, NEW step, NEW low,
         RankedSteps(D, n, rank, V, step, low)
  PROVE  \E g \in [D -> V] : \A d \in D : g[d] = step[d][Restrict(g, low[d])]
<1> USE DEF RankedSteps
<1> DEFINE Low(k) == {e \in D : rank[e] < k}
           Good(g, k) == /\ g \in [Low(k) -> V]
                         /\ \A d \in Low(k) : g[d] = step[d][[e \in low[d] |-> g[e]]]
           T == {k \in Nat : \E g : Good(g, k)}
<1>1. 0 \in T
  <2>1. Low(0) = {}
    OBVIOUS
  <2> DEFINE g == [e \in {} |-> e]
  <2>2. g \in [{} -> V]
    OBVIOUS
  <2> HIDE DEF g
  <2>3. Good(g, 0)
    BY <2>1, <2>2
  <2> HIDE DEF Good
  <2> QED BY <2>3
<1>2. ASSUME NEW k \in T PROVE k + 1 \in T
  <2>1. PICK g : Good(g, k)
    OBVIOUS
  <2> DEFINE h == [d \in Low(k + 1) |-> IF rank[d] < k THEN g[d]
                                        ELSE step[d][[e \in low[d] |-> g[e]]]]
  <2>2. ASSUME NEW d \in Low(k + 1)
        PROVE  /\ low[d] \subseteq Low(k)
               /\ [e \in low[d] |-> h[e]] = [e \in low[d] |-> g[e]]
               /\ [e \in low[d] |-> g[e]] \in [low[d] -> V]
    <3>1. d \in D /\ rank[d] \in Nat /\ rank[d] <= k
      OBVIOUS
    <3>2. low[d] \subseteq Low(k) /\ Low(k) \subseteq Low(k + 1)
      BY <3>1
    <3>3. \A e \in low[d] : h[e] = g[e] /\ g[e] \in V
      BY <2>1, <3>2
    <3> HIDE DEF h, Low
    <3> QED BY <3>2, <3>3
  <2>3. ASSUME NEW d \in Low(k + 1)
        PROVE  h[d] = step[d][[e \in low[d] |-> h[e]]] /\ h[d] \in V
    <3>1. h[d] = IF rank[d] < k THEN g[d] ELSE step[d][[e \in low[d] |-> g[e]]]
      OBVIOUS
    <3>2. step[d][[e \in low[d] |-> g[e]]] \in V
      <4>1. d \in D
        OBVIOUS
      <4>2. step[d] \in [[low[d] -> V] -> V]
        BY <4>1
      <4> HIDE DEF Low
      <4> QED BY <2>2, <4>2
    <3>3. rank[d] < k => d \in Low(k)
      OBVIOUS
    <3>4. rank[d] < k => g[d] = step[d][[e \in low[d] |-> g[e]]]
      BY <2>1, <3>3
    <3> HIDE DEF h, Low
    <3> QED BY <2>2, <3>1, <3>2, <3>4
  <2>4. h \in [Low(k + 1) -> V]
    <3> HIDE DEF Low
    <3> QED BY <2>3
  <2> HIDE DEF h
  <2>5. Good(h, k + 1)
    BY <2>3, <2>4
  <2> HIDE DEF Good
  <2> QED BY <2>5
<1>3. n + 1 \in T
  <2> HIDE DEF T
  <2>1. T \in SUBSET Nat
    BY DEF T
  <2> QED BY <1>1, <1>2, <2>1, NatCases
<1>4. Low(n + 1) = D
  OBVIOUS
<1>5. PICK g : Good(g, n + 1)
  BY <1>3
<1>6. g \in [D -> V] /\ \A d \in D : g[d] = step[d][[e \in low[d] |-> g[e]]]
  BY <1>4, <1>5
<1>7. \A d \in D : g[d] = step[d][Restrict(g, low[d])]
  BY <1>6 DEF Restrict
<1> QED BY <1>6, <1>7

(* The same for the subsets of a finite set: what holds of a set once it holds *)
(* of those below it holds of all; and a value may be given to each set from   *)
(* the values of those below it.                                              *)
Below(S) == (SUBSET S) \ {S}

(* A proper subset of a finite set has fewer members. *)
LEMMA BelowSmaller ==
  ASSUME NEW F, IsFiniteSet(F), NEW S \in SUBSET F
  PROVE  /\ Cardinality(S) \in 0 .. Cardinality(F)
         /\ \A U \in Below(S) : U \in SUBSET F /\ Cardinality(U) < Cardinality(S)
<1>1. /\ IsFiniteSet(S) /\ Cardinality(S) \in Nat /\ Cardinality(F) \in Nat
      /\ Cardinality(S) <= Cardinality(F)
  BY FS_Subset, FS_CardinalityType
<1>2. ASSUME NEW U \in Below(S) PROVE U \in SUBSET F /\ Cardinality(U) < Cardinality(S)
  <2>1. U \in SUBSET S /\ U # S
    BY DEF Below
  <2>2. IsFiniteSet(U) /\ Cardinality(U) <= Cardinality(S) /\ Cardinality(U) # Cardinality(S)
    BY <1>1, <2>1, FS_Subset
  <2>3. Cardinality(U) \in Nat
    BY <2>2, FS_CardinalityType
  <2> QED BY <1>1, <2>1, <2>2, <2>3
<1> QED BY <1>1, <1>2

Hereditary(F, T) ==
  IsFiniteSet(F) /\ \A S \in SUBSET F : (\A U \in Below(S) : U \in T) => S \in T

(* What is hereditary holds of every subset. *)
LEMMA SubsetCases ==
  ASSUME NEW F, NEW T, Hereditary(F, T)
  PROVE  \A S \in SUBSET F : S \in T
<1> USE DEF Hereditary
<1> DEFINE N == {n \in Nat : \A S \in SUBSET F : Cardinality(S) = n => S \in T}
<1>1. ASSUME NEW n \in Nat, \A k \in 0 .. n - 1 : k \in N PROVE n \in N
  <2> SUFFICES ASSUME NEW S \in SUBSET F, Cardinality(S) = n PROVE S \in T
    OBVIOUS
  <2>1. ASSUME NEW U \in Below(S) PROVE U \in T
    <3>1. U \in SUBSET F /\ Cardinality(U) < n
      BY BelowSmaller
    <3>2. Cardinality(U) \in Nat
      BY <3>1, BelowSmaller
    <3>3. Cardinality(U) \in N
      BY <1>1, <3>1, <3>2
    <3> QED BY <3>1, <3>3
  <2> QED BY <2>1
<1>2. \A n \in Nat : n \in N
  <2> HIDE DEF N
  <2>1. N \in SUBSET Nat
    BY DEF N
  <2> QED BY <1>1, <2>1, StrongCases
<1> QED
  <2> TAKE S \in SUBSET F
  <2>1. Cardinality(S) \in Nat
    BY BelowSmaller
  <2> QED BY <1>2, <2>1

SubsetSteps(F, V, step) ==
  IsFiniteSet(F) /\ \A S \in SUBSET F : step[S] \in [[Below(S) -> V] -> V]
SubsetFollows(g, F, V, step) ==
  g \in [SUBSET F -> V] /\ \A S \in SUBSET F : g[S] = step[S][Restrict(g, Below(S))]

(* A recursion over the subsets of a finite set is defined. *)
LEMMA SubsetRecursion ==
  ASSUME NEW F, NEW V, NEW step, SubsetSteps(F, V, step)
  PROVE  \E g : SubsetFollows(g, F, V, step)
<1> DEFINE D == SUBSET F
           n == Cardinality(F)
           rank == [S \in D |-> Cardinality(S)]
           low == [S \in D |-> Below(S)]
<1> USE DEF SubsetSteps
<1>1. n \in Nat
  BY FS_CardinalityType
<1>2. rank \in [D -> 0 .. n]
  BY BelowSmaller
<1>3. \A S \in D : \A U \in low[S] : U \in D /\ rank[U] < rank[S]
  BY BelowSmaller
<1>4. \A S \in D : low[S] = Below(S)
  OBVIOUS
<1>5. \A S \in D : step[S] \in [[low[S] -> V] -> V]
  BY <1>4
<1> HIDE DEF D, n, rank, low
<1>6. PICK g \in [D -> V] : \A S \in D : g[S] = step[S][Restrict(g, low[S])]
  <2>1. RankedSteps(D, n, rank, V, step, low)
    BY <1>1, <1>2, <1>3, <1>5 DEF RankedSteps
  <2> QED BY <2>1, RankRecursion
<1>7. \A S \in D : g[S] = step[S][Restrict(g, Below(S))]
  BY <1>4, <1>6
<1>8. SubsetFollows(g, F, V, step)
  BY <1>6, <1>7 DEF D, SubsetFollows
<1> QED BY <1>8

-----------------------------------------------------------------------------
(* Sums of finitely many integers: the recursion that defines SumFunction,     *)
(* then that any member may be taken first.                                   *)
Pick(S) == CHOOSE x \in S : TRUE
SumsUp(it, g) ==
  /\ it[{}] = 0
  /\ \A S \in SUBSET DOMAIN g : S # {} => it[S] = g[Pick(S)] + it[S \ {Pick(S)}]
IntFunction(g, D) == IsFiniteSet(D) /\ g \in [D -> Int]

(* Without its picked member a set is smaller. *)
LEMMA PickBelow ==
  ASSUME NEW S, S # {}
  PROVE  Pick(S) \in S /\ S \ {Pick(S)} \in Below(S)
<1>1. Pick(S) \in S
  BY DEF Pick
<1> QED BY <1>1 DEF Below

(* SumFunction is what the recursion over subsets gives. *)
LEMMA SumRecursion ==
  ASSUME NEW D, NEW g, IntFunction(g, D)
  PROVE  \E it \in [SUBSET D -> Int] : SumsUp(it, g) /\ SumFunction(g) = it[D]
<1> DEFINE P == SUBSET D
           step == [S \in P |-> [w \in [Below(S) -> Int] |->
                      IF S = {} THEN 0 ELSE g[Pick(S)] + w[S \ {Pick(S)}]]]
           rec(h) == [S \in P |-> IF S = {} THEN 0 ELSE g[Pick(S)] + h[S \ {Pick(S)}]]
<1>1. IsFiniteSet(D) /\ DOMAIN g = D /\ \A x \in D : g[x] \in Int
  BY DEF IntFunction
<1>2. \A S \in P : S # {} => Pick(S) \in S /\ g[Pick(S)] \in Int /\ S \ {Pick(S)} \in Below(S)
  BY <1>1, PickBelow
<1>3. ASSUME NEW S \in P PROVE step[S] \in [[Below(S) -> Int] -> Int]
  <2>1. ASSUME NEW w \in [Below(S) -> Int]
        PROVE  (IF S = {} THEN 0 ELSE g[Pick(S)] + w[S \ {Pick(S)}]) \in Int
    BY <1>2
  <2> QED BY <2>1
<1>4. PICK a \in [P -> Int] : \A S \in P : a[S] = step[S][Restrict(a, Below(S))]
  <2> HIDE DEF step
  <2>1. SubsetSteps(D, Int, step)
    BY <1>1, <1>3 DEF SubsetSteps
  <2>2. PICK a : SubsetFollows(a, D, Int, step)
    BY <2>1, SubsetRecursion
  <2> QED BY <2>2 DEF SubsetFollows
<1>5. a = rec(a)
  <2>1. ASSUME NEW S \in P PROVE a[S] = IF S = {} THEN 0 ELSE g[Pick(S)] + a[S \ {Pick(S)}]
    <3> DEFINE w == Restrict(a, Below(S))
    <3>1. w \in [Below(S) -> Int] /\ \A U \in Below(S) : w[U] = a[U]
      BY DEF Below, Restrict
    <3> HIDE DEF w
    <3>2. step[S][w] = IF S = {} THEN 0 ELSE g[Pick(S)] + w[S \ {Pick(S)}]
      BY <3>1
    <3>3. a[S] = step[S][w]
      BY <1>4 DEF w
    <3> HIDE DEF step
    <3> QED BY <1>2, <3>1, <3>2, <3>3
  <2> HIDE DEF step, P
  <2> QED BY <1>4, <2>1
<1> DEFINE f == CHOOSE h : h = rec(h)
<1>6. f = rec(f)
  <2> HIDE DEF rec
  <2> QED BY <1>5
<1>7. SumFunction(g) = f[D]
  BY <1>1 DEF SumFunction, SumFunctionOnSet, FoldFunctionOnSet, MapThenFoldSet, Pick
<1> HIDE DEF f
<1>8. f[{}] = 0 /\ \A S \in P : S # {} => f[S] = g[Pick(S)] + f[S \ {Pick(S)}]
  <2>1. {} \in P /\ rec(f)[{}] = 0 /\ \A S \in P : S # {} => rec(f)[S] = g[Pick(S)] + f[S \ {Pick(S)}]
    OBVIOUS
  <2> QED BY <1>6, <2>1, Zenon
<1>9. \A S \in P : f[S] \in Int
  <2> DEFINE T == {S \in P : f[S] \in Int}
  <2>1. ASSUME NEW S \in P, \A U \in Below(S) : U \in T PROVE S \in T
    <3> HIDE DEF step, rec
    <3>1. CASE S = {}
      BY <1>8, <3>1
    <3>2. CASE S # {}
      <4>1. g[Pick(S)] \in Int /\ f[S \ {Pick(S)}] \in Int
        BY <1>2, <2>1, <3>2
      <4>2. f[S] = g[Pick(S)] + f[S \ {Pick(S)}]
        BY <1>8, <3>2
      <4> QED BY <4>1, <4>2
    <3> QED BY <3>1, <3>2
  <2> HIDE DEF T
  <2>2. \A S \in P : S \in T
    <3>1. Hereditary(D, T)
      BY <1>1, <2>1 DEF Hereditary
    <3> QED BY <3>1, SubsetCases
  <2> QED BY <2>2 DEF T
<1>10. f \in [P -> Int]
  <2>1. f = [S \in P |-> f[S]]
    BY <1>6
  <2> QED BY <1>9, <2>1
<1>11. SumsUp(f, g)
  BY <1>1, <1>8 DEF SumsUp
<1> QED BY <1>7, <1>10, <1>11

(* Whatever satisfies the recursion gives the sum. *)
LEMMA SumUnique ==
  ASSUME NEW D, NEW g, IntFunction(g, D), NEW it, SumsUp(it, g)
  PROVE  SumFunction(g) = it[D]
<1>1. IsFiniteSet(D) /\ DOMAIN g = D
  BY DEF IntFunction
<1>2. PICK a \in [SUBSET D -> Int] : SumsUp(a, g) /\ SumFunction(g) = a[D]
  BY SumRecursion
<1> DEFINE T == {S \in SUBSET D : a[S] = it[S]}
<1>3. ASSUME NEW S \in SUBSET D, \A U \in Below(S) : U \in T PROVE S \in T
  <2>1. CASE S = {}
    BY <1>2, <2>1 DEF SumsUp
  <2>2. CASE S # {}
    <3>1. a[S] = g[Pick(S)] + a[S \ {Pick(S)}] /\ it[S] = g[Pick(S)] + it[S \ {Pick(S)}]
      BY <1>1, <1>2, <2>2 DEF SumsUp
    <3>2. S \ {Pick(S)} \in T
      BY <1>3, <2>2, PickBelow
    <3> QED BY <3>1, <3>2
  <2> QED BY <2>1, <2>2
<1>4. \A S \in SUBSET D : S \in T
  <2> HIDE DEF T
  <2>1. Hereditary(D, T)
    BY <1>1, <1>3 DEF Hereditary
  <2> QED BY <2>1, SubsetCases
<1> QED BY <1>2, <1>4

(* A finite sum of integers is an integer. *)
LEMMA SumType ==
  ASSUME NEW D, NEW g, IntFunction(g, D)
  PROVE  SumFunction(g) \in Int
<1>1. PICK it \in [SUBSET D -> Int] : SumFunction(g) = it[D]
  BY SumRecursion
<1> QED BY <1>1

(* The sum over nothing is zero. *)
LEMMA SumEmpty ==
  ASSUME NEW g, IntFunction(g, {})
  PROVE  SumFunction(g) = 0
BY SumRecursion DEF SumsUp

(* Integers over a finite set stay so over a subset. *)
LEMMA RestrictInt ==
  ASSUME NEW D, NEW g, IntFunction(g, D), NEW S \in SUBSET D
  PROVE  IntFunction(Restrict(g, S), S)
BY FS_Subset DEF IntFunction, Restrict

(* Any member may be taken first. *)
LEMMA SumTake ==
  ASSUME NEW D, NEW g, IntFunction(g, D), NEW x \in D
  PROVE  SumFunction(g) = g[x] + SumFunction(Restrict(g, D \ {x}))
<1>1. IsFiniteSet(D) /\ DOMAIN g = D /\ \A y \in D : g[y] \in Int
  BY DEF IntFunction
<1>2. PICK a \in [SUBSET D -> Int] : SumsUp(a, g) /\ SumFunction(g) = a[D]
  BY SumRecursion
<1>3. a[{}] = 0 /\ \A S \in SUBSET D : S # {} => a[S] = g[Pick(S)] + a[S \ {Pick(S)}]
  BY <1>1, <1>2 DEF SumsUp
<1> DEFINE T == {S \in SUBSET D : \A y \in S : a[S] = g[y] + a[S \ {y}]}
<1>4. ASSUME NEW S \in SUBSET D, \A U \in Below(S) : U \in T PROVE S \in T
  <2> SUFFICES ASSUME NEW y \in S PROVE a[S] = g[y] + a[S \ {y}]
    OBVIOUS
  <2> DEFINE c == Pick(S)
  <2>1. c \in S /\ S \ {c} \in T /\ S \ {y} \in T /\ a[S] = g[c] + a[S \ {c}]
    <3>1. S \ {y} \in Below(S)
      BY DEF Below
    <3> QED BY <1>3, <1>4, <3>1, PickBelow
  <2> HIDE DEF c
  <2>2. CASE c = y
    BY <2>1, <2>2
  <2>3. CASE c # y
    <3>1. a[S \ {c}] = g[y] + a[(S \ {c}) \ {y}] /\ a[S \ {y}] = g[c] + a[(S \ {y}) \ {c}]
      BY <2>1, <2>3
    <3> DEFINE r == a[(S \ {y}) \ {c}]
    <3>2. (S \ {c}) \ {y} = (S \ {y}) \ {c}
      OBVIOUS
    <3>3. g[c] \in Int /\ g[y] \in Int /\ r \in Int
      BY <1>1, <1>2, <2>1
    <3>4. a[S] = g[c] + (g[y] + r) /\ a[S \ {y}] = g[c] + r
      BY <2>1, <3>1, <3>2
    <3> HIDE DEF T, r
    <3> QED BY <3>3, <3>4
  <2> QED BY <2>2, <2>3
<1>5. \A S \in SUBSET D : S \in T
  <2> HIDE DEF T
  <2>1. Hereditary(D, T)
    BY <1>1, <1>4 DEF Hereditary
  <2> QED BY <2>1, SubsetCases
<1>6. a[D] = g[x] + a[D \ {x}]
  BY <1>5
<1>7. SumFunction(Restrict(g, D \ {x})) = a[D \ {x}]
  <2> DEFINE h == Restrict(g, D \ {x})
  <2>1. IntFunction(h, D \ {x})
    BY RestrictInt
  <2>2. DOMAIN h = D \ {x} /\ \A y \in D \ {x} : h[y] = g[y]
    BY DEF Restrict
  <2> HIDE DEF h
  <2>3. SumsUp(a, h)
    <3>1. ASSUME NEW S \in SUBSET (D \ {x}), S # {} PROVE a[S] = h[Pick(S)] + a[S \ {Pick(S)}]
      BY <1>3, <2>2, <3>1, PickBelow
    <3> QED BY <1>3, <2>2, <3>1 DEF SumsUp
  <2> QED BY <2>1, <2>3, SumUnique DEF h
<1> QED BY <1>2, <1>6, <1>7

(* A sum is linear. *)
LEMMA SumLinear ==
  ASSUME NEW D, NEW f, NEW g, NEW h, NEW d \in Int,
         IntFunction(f, D), IntFunction(g, D), IntFunction(h, D),
         \A x \in D : h[x] = f[x] + d * g[x]
  PROVE  SumFunction(h) = SumFunction(f) + d * SumFunction(g)
<1>1. DOMAIN f = D /\ DOMAIN g = D /\ DOMAIN h = D /\ \A x \in D : f[x] \in Int /\ g[x] \in Int
  BY DEF IntFunction
<1>2. PICK a \in [SUBSET D -> Int] : SumsUp(a, f) /\ SumFunction(f) = a[D]
  BY SumRecursion
<1>3. PICK b \in [SUBSET D -> Int] : SumsUp(b, g) /\ SumFunction(g) = b[D]
  BY SumRecursion
<1> DEFINE it == [S \in SUBSET D |-> a[S] + d * b[S]]
<1>4. it[{}] = 0 /\ it[D] = a[D] + d * b[D]
  BY <1>1, <1>2, <1>3 DEF SumsUp
<1>5. ASSUME NEW S \in SUBSET D, S # {} PROVE it[S] = h[Pick(S)] + it[S \ {Pick(S)}]
  <2> DEFINE c == Pick(S)  R == S \ {Pick(S)}
  <2>1. c \in D /\ R \in SUBSET D
    BY <1>5, PickBelow
  <2>2. a[S] = f[c] + a[R] /\ b[S] = g[c] + b[R]
    BY <1>1, <1>2, <1>3, <1>5 DEF SumsUp
  <2>3. f[c] \in Int /\ g[c] \in Int /\ a[R] \in Int /\ b[R] \in Int /\ h[c] = f[c] + d * g[c]
    BY <1>1, <2>1
  <2>4. it[S] = a[S] + d * b[S] /\ it[R] = a[R] + d * b[R]
    BY <2>1
  <2> HIDE DEF it, c, R
  <2>5. d * (g[c] + b[R]) = d * g[c] + d * b[R]
    BY <2>3
  <2>6. it[S] = h[c] + it[R]
    BY <2>2, <2>3, <2>4, <2>5
  <2> QED BY <2>6 DEF c, R
<1> HIDE DEF it
<1>6. SumsUp(it, h)
  BY <1>1, <1>4, <1>5 DEF SumsUp
<1> QED BY <1>2, <1>3, <1>4, <1>6, SumUnique

(* A sum of zeros is zero. *)
LEMMA SumZeros ==
  ASSUME NEW D, NEW g, IntFunction(g, D), \A x \in D : g[x] = 0
  PROVE  SumFunction(g) = 0
<1>1. \A x \in D : g[x] = g[x] + 1 * g[x]
  OBVIOUS
<1>2. SumFunction(g) = SumFunction(g) + 1 * SumFunction(g)
  BY <1>1, SumLinear
<1> DEFINE s == SumFunction(g)
<1>3. s \in Int /\ s = s + 1 * s
  BY <1>2, SumType
<1> HIDE DEF s
<1>4. s = 0
  BY <1>3
<1> QED BY <1>4 DEF s

(* What is summed may be renamed, and zeros left out. *)
Renames(p, D, E) == p \in [D -> E] /\ \A x, y \in D : p[x] = p[y] => x = y
SameTerms(g, D, h, E, p) ==
  /\ \A x \in D : g[x] = h[p[x]]
  /\ \A e \in E : (\A x \in D : p[x] # e) => h[e] = 0

(* A sum is that of its renamed terms. *)
LEMMA SumRenamed ==
  ASSUME NEW D, NEW g, IntFunction(g, D), NEW E, NEW h, IntFunction(h, E),
         NEW p, Renames(p, D, E), SameTerms(g, D, h, E, p)
  PROVE  SumFunction(g) = SumFunction(h)
<1> DEFINE Of(S) == [e \in E |-> IF \E x \in S : p[x] = e THEN h[e] ELSE 0]
           it == [S \in SUBSET D |-> SumFunction(Of(S))]
<1>1. /\ IsFiniteSet(E) /\ DOMAIN g = D /\ h \in [E -> Int] /\ \A x \in D : p[x] \in E
      /\ \A x, y \in D : p[x] = p[y] => x = y
  BY DEF IntFunction, Renames
<1>2. ASSUME NEW S \in SUBSET D PROVE IntFunction(Of(S), E)
  BY <1>1 DEF IntFunction
<1>3. it[{}] = 0
  <2>1. {} \in SUBSET D /\ \A e \in E : Of({})[e] = 0
    OBVIOUS
  <2>2. it[{}] = SumFunction(Of({}))
    OBVIOUS
  <2> HIDE DEF Of, it
  <2> QED BY <1>2, <2>1, <2>2, SumZeros
<1>4. ASSUME NEW S \in SUBSET D, S # {} PROVE it[S] = g[Pick(S)] + it[S \ {Pick(S)}]
  <2> DEFINE c == Pick(S)  R == S \ {Pick(S)}  e == p[c]
  <2>1. c \in S /\ R \in SUBSET D /\ e \in E /\ g[c] = h[e]
    BY <1>1, <1>4, PickBelow DEF SameTerms
  <2>2. Of(S)[e] = h[e] /\ Of(R)[e] = 0
    BY <1>1, <2>1
  <2>3. Restrict(Of(S), E \ {e}) = Restrict(Of(R), E \ {e})
    <3>1. ASSUME NEW d \in E \ {e} PROVE (\E x \in S : p[x] = d) <=> (\E x \in R : p[x] = d)
      BY <2>1
    <3>2. \A d \in E \ {e} : Of(S)[d] = Of(R)[d]
      BY <3>1
    <3> HIDE DEF Of
    <3> QED BY <3>2 DEF Restrict
  <2>4. it[S] = SumFunction(Of(S)) /\ it[R] = SumFunction(Of(R))
    BY <2>1
  <2> HIDE DEF it, c, R, e, Of
  <2>5. /\ SumFunction(Of(S)) = Of(S)[e] + SumFunction(Restrict(Of(S), E \ {e}))
        /\ SumFunction(Of(R)) = Of(R)[e] + SumFunction(Restrict(Of(R), E \ {e}))
    BY <1>2, <2>1, SumTake
  <2>6. SumFunction(Restrict(Of(R), E \ {e})) \in Int
    <3>1. IntFunction(Restrict(Of(R), E \ {e}), E \ {e})
      BY <1>2, <2>1, RestrictInt
    <3> QED BY <3>1, SumType
  <2>7. it[S] = g[c] + it[R]
    BY <2>1, <2>2, <2>3, <2>4, <2>5, <2>6
  <2> QED BY <2>7 DEF c, R
<1>5. it[D] = SumFunction(Of(D))
  OBVIOUS
<1>6. Of(D) = h
  <2>1. \A e \in E : Of(D)[e] = h[e]
    BY DEF SameTerms
  <2> HIDE DEF Of
  <2>2. Of(D) \in [E -> Int]
    BY <1>2 DEF IntFunction
  <2> QED BY <1>1, <2>1, <2>2
<1> HIDE DEF it
<1>7. SumsUp(it, g)
  BY <1>1, <1>3, <1>4 DEF SumsUp
<1>8. SumFunction(g) = it[D]
  BY <1>7, SumUnique
<1> HIDE DEF Of
<1> QED BY <1>5, <1>6, <1>8

(* A sum of multiples is the multiple of the sum. *)
LEMMA SumTimes ==
  ASSUME NEW D, NEW f, NEW g, NEW d \in Int, IntFunction(f, D), IntFunction(g, D),
         \A x \in D : f[x] = d * g[x]
  PROVE  SumFunction(f) = d * SumFunction(g)
<1> DEFINE z == [x \in D |-> 0]
<1>1. IntFunction(z, D) /\ \A x \in D : z[x] = 0
  BY DEF IntFunction
<1>2. SumFunction(z) = 0
  BY <1>1, SumZeros
<1> HIDE DEF z
<1>3. \A x \in D : f[x] = z[x] + d * g[x]
  <2> TAKE x \in D
  <2>1. g[x] \in Int
    BY DEF IntFunction
  <2> DEFINE p == d * g[x]
  <2>2. p \in Int /\ f[x] = p /\ z[x] = 0
    BY <1>1, <2>1
  <2> HIDE DEF p
  <2> QED BY <2>2 DEF p
<1>4. SumFunction(f) = SumFunction(z) + d * SumFunction(g)
  BY <1>1, <1>3, SumLinear
<1> DEFINE s == SumFunction(g)  p == d * s
<1>5. s \in Int
  BY SumType
<1>6. p \in Int /\ SumFunction(f) = 0 + p
  BY <1>2, <1>4, <1>5
<1> HIDE DEF p
<1> QED BY <1>6 DEF p

(* A sum of zeros and ones counts the ones. *)
LEMMA SumOnes ==
  ASSUME NEW D, NEW g, IntFunction(g, D), \A x \in D : g[x] \in {0, 1}
  PROVE  SumFunction(g) = Cardinality({x \in D : g[x] = 1})
<1>1. IsFiniteSet(D) /\ DOMAIN g = D
  BY DEF IntFunction
<1> DEFINE Ones(S) == {x \in S : g[x] = 1}
           it == [S \in SUBSET D |-> Cardinality(Ones(S))]
<1>2. it[{}] = 0
  <2>1. Ones({}) = {}
    OBVIOUS
  <2> QED BY <2>1, FS_EmptySet
<1>3. ASSUME NEW S \in SUBSET D, S # {} PROVE it[S] = g[Pick(S)] + it[S \ {Pick(S)}]
  <2> DEFINE c == Pick(S)  R == S \ {Pick(S)}
  <2>1. c \in S /\ R \in SUBSET D /\ c \notin R /\ g[c] \in {0, 1}
    BY <1>3, PickBelow
  <2>2. IsFiniteSet(Ones(R)) /\ Cardinality(Ones(R)) \in Nat
    <3>1. Ones(R) \in SUBSET D
      OBVIOUS
    <3> QED BY <1>1, <3>1, FS_Subset, FS_CardinalityType
  <2>3. c \notin Ones(R) /\ Ones(S) = IF g[c] = 1 THEN Ones(R) \cup {c} ELSE Ones(R)
    <3>1. S = R \cup {c}
      BY <2>1
    <3> HIDE DEF c, R
    <3> QED BY <2>1, <3>1
  <2>4. it[S] = Cardinality(Ones(S)) /\ it[R] = Cardinality(Ones(R))
    BY <2>1
  <2> HIDE DEF it, c, R, Ones
  <2>5. Cardinality(Ones(R) \cup {c}) = Cardinality(Ones(R)) + 1
    BY <2>2, <2>3, FS_AddElement
  <2>6. it[S] = g[c] + it[R]
    BY <2>1, <2>2, <2>3, <2>4, <2>5
  <2> QED BY <2>6 DEF c, R
<1>4. it[D] = Cardinality(Ones(D))
  OBVIOUS
<1> HIDE DEF it
<1>5. SumsUp(it, g)
  BY <1>1, <1>2, <1>3 DEF SumsUp
<1> QED BY <1>4, <1>5, SumUnique

-----------------------------------------------------------------------------
(* Quotients, remainders, and powers of two, which are the numbers of subsets. *)
LEMMA DivMod ==
  ASSUME NEW n \in Int, NEW d \in Nat \ {0}
  PROVE  n = d * (n \div d) + (n % d) /\ n % d \in 0 .. d - 1 /\ n \div d \in Int
OBVIOUS

(* Quotient and remainder are the only ones. *)
LEMMA DivUnique ==
  ASSUME NEW q \in Int, NEW d \in Nat \ {0}, NEW r \in 0 .. d - 1
  PROVE  (d * q + r) \div d = q /\ (d * q + r) % d = r
OBVIOUS

(* Adding a multiple of the divisor adds to the quotient. *)
LEMMA DivAdd ==
  ASSUME NEW n \in Int, NEW q \in Int, NEW d \in Nat \ {0}
  PROVE  (n + d * q) \div d = (n \div d) + q /\ (n + d * q) % d = n % d
<1> DEFINE a == n \div d  r == n % d
<1>1. n = d * a + r /\ r \in 0 .. d - 1 /\ a \in Int
  BY DivMod
<1> HIDE DEF a, r
<1>2. n + d * q = d * (a + q) + r
  BY <1>1
<1>3. (n + d * q) \div d = a + q /\ (n + d * q) % d = r
  BY <1>1, <1>2, DivUnique
<1> QED BY <1>3 DEF a, r

(* Halving a quotient is dividing by twice as much. *)
LEMMA DivDiv ==
  ASSUME NEW n \in Int, NEW d \in Nat \ {0}
  PROVE  n \div (2 * d) = (n \div d) \div 2
<1> DEFINE a == n \div d  r == n % d  b == a \div 2  s == a % 2
<1>1. n = d * a + r /\ r \in 0 .. d - 1 /\ a \in Int
  BY DivMod
<1>2. a = 2 * b + s /\ s \in 0 .. 1 /\ b \in Int
  BY <1>1, DivMod
<1> HIDE DEF a, r, b, s
<1>3. d * s \in 0 .. d /\ (s = 0 => d * s = 0) /\ (s = 1 => d * s = d)
  BY <1>2
<1>4. (d * s) + r \in 0 .. (2 * d) - 1
  BY <1>1, <1>2, <1>3
<1>5. n = (2 * d) * b + ((d * s) + r)
  <2>1. d * (2 * b + s) = (2 * d) * b + (d * s)
    BY <1>2
  <2> QED BY <1>1, <1>2, <2>1, <1>3
<1>6. n \div (2 * d) = b
  <2> DEFINE e == 2 * d  t == (d * s) + r
  <2>1. e \in Nat \ {0} /\ t \in 0 .. e - 1 /\ n = e * b + t
    BY <1>4, <1>5
  <2> HIDE DEF e, t
  <2>2. (e * b + t) \div e = b
    BY <1>2, <2>1, DivUnique
  <2>3. n \div e = b
    BY <2>1, <2>2
  <2> QED BY <2>3 DEF e
<1> QED BY <1>6 DEF a, b

(* The subsets of n numbers are two to the n. *)
LEMMA SubsetsOfInterval ==
  ASSUME NEW n \in Nat
  PROVE  IsFiniteSet(SUBSET (1 .. n)) /\ Cardinality(SUBSET (1 .. n)) = 2 ^ n
<1>1. IsFiniteSet(1 .. n) /\ Cardinality(1 .. n) = n
  BY FS_Interval
<1> QED BY <1>1, FS_SUBSET

(* One more number doubles the subsets. *)
LEMMA PowNext ==
  ASSUME NEW n \in Nat
  PROVE  2 ^ n \in Nat /\ 2 ^ (n + 1) = 2 * 2 ^ n
<1> DEFINE S == SUBSET (1 .. n)
           T == {s \cup {n + 1} : s \in S}
           f == [s \in S |-> s \cup {n + 1}]
<1>1. IsFiniteSet(S) /\ Cardinality(S) = 2 ^ n /\ Cardinality(S) \in Nat
  BY SubsetsOfInterval, FS_CardinalityType
<1>2. n + 1 \notin 1 .. n /\ 1 .. n + 1 = (1 .. n) \cup {n + 1}
  OBVIOUS
<1>3. SUBSET (1 .. n + 1) = S \cup T
  <2>1. ASSUME NEW s \in SUBSET (1 .. n + 1) PROVE s \in S \cup T
    <3>1. CASE n + 1 \in s
      <4>1. s \ {n + 1} \in S /\ s = (s \ {n + 1}) \cup {n + 1}
        BY <1>2, <3>1
      <4> QED BY <4>1
    <3>2. CASE n + 1 \notin s
      BY <1>2, <3>2
    <3> QED BY <3>1, <3>2
  <2>2. S \cup T \subseteq SUBSET (1 .. n + 1)
    BY <1>2
  <2> QED BY <2>1, <2>2
<1>4. S \cap T = {}
  BY <1>2
<1>5. ExistsBijection(S, T)
  <2>1. f \in [S -> T] /\ \A t \in T : \E s \in S : f[s] = t
    OBVIOUS
  <2>2. \A s, u \in S : f[s] = f[u] => s = u
    <3> TAKE s, u \in S
    <3> HAVE f[s] = f[u]
    <3>1. s = (s \cup {n + 1}) \ {n + 1} /\ u = (u \cup {n + 1}) \ {n + 1}
      BY <1>2
    <3> QED BY <3>1
  <2> HIDE DEF f, S, T
  <2>3. f \in Bijection(S, T)
    BY <2>1, <2>2 DEF Bijection, Injection, Surjection, IsInjective
  <2> QED BY <2>3 DEF ExistsBijection
<1>11. Cardinality(SUBSET (1 .. n + 1)) = 2 ^ (n + 1)
  <2>1. n + 1 \in Nat
    OBVIOUS
  <2> QED BY <2>1, SubsetsOfInterval
<1> HIDE DEF S, T, f
<1>6. IsFiniteSet(T) /\ Cardinality(T) = Cardinality(S)
  BY <1>1, <1>5, FS_Bijection
<1>7. Cardinality(S \cup T) = Cardinality(S) + Cardinality(T) - 0
  BY <1>1, <1>4, <1>6, FS_Union, FS_EmptySet
<1>8. Cardinality(S \cup T) = 2 ^ (n + 1)
  BY <1>3, <1>11
<1> QED BY <1>1, <1>6, <1>7, <1>8

(* Powers of two are positive. *)
LEMMA PowPositive == \A n \in Nat : 2 ^ n \in Nat \ {0}
<1> DEFINE T == {n \in Nat : 2 ^ n \in Nat \ {0}}
<1>1. 0 \in T
  OBVIOUS
<1>2. ASSUME NEW n \in T PROVE n + 1 \in T
  BY PowNext
<1>3. \A n \in Nat : n \in T
  <2> HIDE DEF T
  <2>1. T \in SUBSET Nat
    BY DEF T
  <2> QED BY <1>1, <1>2, <2>1, NatCases
<1> QED BY <1>3

(* A power of two is a multiple of the lower ones.                             *)
LEMMA PowMultiple ==
  ASSUME NEW k \in Nat
  PROVE  \A m \in Nat : k <= m => \E q \in Nat : 2 ^ m = 2 ^ k * q
<1> DEFINE T == {m \in Nat : k <= m => \E q \in Nat : 2 ^ m = 2 ^ k * q}
<1>1. ASSUME NEW m \in Nat, m \in T PROVE m + 1 \in T
  <2> SUFFICES ASSUME k <= m + 1 PROVE \E q \in Nat : 2 ^ (m + 1) = 2 ^ k * q
    OBVIOUS
  <2>1. CASE k = m + 1
    <3>1. 2 ^ (m + 1) = 2 ^ k * 1
      BY <2>1, PowPositive
    <3> QED BY <3>1
  <2>2. CASE k <= m
    <3>1. PICK q \in Nat : 2 ^ m = 2 ^ k * q
      BY <1>1, <2>2
    <3>2. 2 ^ (m + 1) = 2 ^ k * (2 * q)
      <4> DEFINE a == 2 ^ k  b == 2 ^ m  c == 2 ^ (m + 1)
      <4>1. a \in Nat /\ b \in Nat /\ c = 2 * b /\ b = a * q
        BY <3>1, PowNext, PowPositive
      <4> HIDE DEF a, b, c
      <4>2. c = a * (2 * q)
        BY <4>1
      <4> QED BY <4>2 DEF a, c
    <3>3. 2 * q \in Nat
      OBVIOUS
    <3> QED BY <3>2, <3>3
  <2> QED BY <2>1, <2>2
<1>2. 0 \in T
  <2> SUFFICES ASSUME k <= 0 PROVE \E q \in Nat : 2 ^ 0 = 2 ^ k * q
    OBVIOUS
  <2>1. k = 0 /\ 2 ^ 0 = 2 ^ 0 * 1
    OBVIOUS
  <2> QED BY <2>1
<1>3. \A m \in Nat : m \in T
  <2> HIDE DEF T
  <2>1. T \in SUBSET Nat
    BY DEF T
  <2>2. \A m \in T : m + 1 \in T
    BY <1>1, <2>1
  <2> QED BY <1>2, <2>1, <2>2, NatCases
<1> QED BY <1>3

(* Powers of two multiply by adding exponents. *)
LEMMA PowAdd == \A j, k \in Nat : 2 ^ (j + k) = 2 ^ j * 2 ^ k
<1> TAKE j \in Nat
<1> DEFINE T == {k \in Nat : 2 ^ (j + k) = 2 ^ j * 2 ^ k}
<1>1. 0 \in T
  <2> DEFINE d == 2 ^ j
  <2>1. d \in Nat /\ j + 0 = j /\ 2 ^ 0 = 1
    BY PowPositive
  <2> HIDE DEF d
  <2>2. d = d * 1
    BY <2>1
  <2> QED BY <2>1, <2>2 DEF d
<1>2. ASSUME NEW k \in T PROVE k + 1 \in T
  <2> DEFINE d == 2 ^ j  e == 2 ^ k
  <2>1. d \in Nat /\ e \in Nat /\ 2 ^ (j + k) = d * e /\ (j + k) + 1 = j + (k + 1) /\ j + k \in Nat
    BY PowPositive
  <2>2. 2 ^ (k + 1) = 2 * e /\ 2 ^ ((j + k) + 1) = 2 * 2 ^ (j + k)
    BY <2>1, PowNext
  <2> HIDE DEF d, e
  <2>3. 2 * (d * e) = d * (2 * e)
    BY <2>1
  <2>4. 2 ^ (j + (k + 1)) = d * 2 ^ (k + 1)
    BY <2>1, <2>2, <2>3
  <2> QED BY <2>4 DEF d
<1>3. \A k \in Nat : k \in T
  <2> HIDE DEF T
  <2>1. T \in SUBSET Nat
    BY DEF T
  <2> QED BY <1>1, <1>2, <2>1, NatCases
<1> QED BY <1>3

-----------------------------------------------------------------------------
(* Congruence modulo m. *)
Congruent(a, b, m) == \E q \in Int : a = b + m * q

(* Congruent numbers are added and multiplied by any number. *)
LEMMA CongruentLinear ==
  ASSUME NEW m \in Int, NEW a \in Int, NEW b \in Int, NEW c \in Int, NEW d \in Int, NEW k \in Int,
         Congruent(a, b, m), Congruent(c, d, m)
  PROVE  Congruent(a + k * c, b + k * d, m)
<1>2. PICK p \in Int : a = b + m * p
  BY DEF Congruent
<1>3. PICK q \in Int : c = d + m * q
  BY DEF Congruent
<1>4. a + k * c = (b + k * d) + m * (p + k * q)
  <2> DEFINE u == k * d  v == k * q
  <2>1. u \in Int /\ v \in Int
    OBVIOUS
  <2>2. k * c = u + m * v
    <3>1. k * (d + m * q) = k * d + m * (k * q)
      OBVIOUS
    <3> QED BY <1>3, <3>1
  <2> HIDE DEF u, v
  <2>3. (b + m * p) + (u + m * v) = (b + u) + m * (p + v)
    BY <2>1
  <2> QED BY <1>2, <2>2, <2>3 DEF u, v
<1>5. p + k * q \in Int
  OBVIOUS
<1> QED BY <1>4, <1>5 DEF Congruent

(* So are multiples of congruent numbers. *)
LEMMA CongruentTimes ==
  ASSUME NEW m \in Int, NEW a \in Int, NEW b \in Int, NEW k \in Int, Congruent(a, b, m)
  PROVE  Congruent(k * a, k * b, m)
<1>2. PICK q \in Int : a = b + m * q
  BY DEF Congruent
<1>3. k * (b + m * q) = k * b + m * (k * q) /\ k * q \in Int
  OBVIOUS
<1> QED BY <1>2, <1>3 DEF Congruent

(* Congruence is an equivalence. *)
LEMMA CongruentSame ==
  ASSUME NEW m \in Int, NEW a \in Int, NEW b \in Int, NEW c \in Int
  PROVE  /\ Congruent(a, a, m)
         /\ Congruent(a, b, m) => Congruent(b, a, m)
         /\ Congruent(a, b, m) /\ Congruent(b, c, m) => Congruent(a, c, m)
<1>2. a = a + m * 0
  OBVIOUS
<1>3. ASSUME NEW q \in Int, a = b + m * q PROVE b = a + m * (-q) /\ -q \in Int
  BY <1>3
<1>4. ASSUME NEW q \in Int, a = b + m * q, NEW p \in Int, b = c + m * p
      PROVE  a = c + m * (p + q) /\ p + q \in Int
  BY <1>4
<1>5. Congruent(a, a, m)
  BY <1>2 DEF Congruent
<1>6. Congruent(a, b, m) => Congruent(b, a, m)
  BY <1>3 DEF Congruent
<1>7. Congruent(a, b, m) /\ Congruent(b, c, m) => Congruent(a, c, m)
  BY <1>4 DEF Congruent
<1> QED BY <1>5, <1>6, <1>7

(* Either side of a congruence may be replaced by a congruent number. *)
LEMMA CongruentBoth ==
  ASSUME NEW m \in Int, NEW a \in Int, NEW b \in Int, NEW c \in Int, NEW d \in Int,
         Congruent(a, b, m), Congruent(c, d, m)
  PROVE  Congruent(a, c, m) <=> Congruent(b, d, m)
<1>1. Congruent(b, a, m) /\ Congruent(d, c, m)
  BY CongruentSame
<1>2. ASSUME Congruent(a, c, m) PROVE Congruent(b, d, m)
  <2>1. Congruent(b, c, m)
    BY <1>1, <1>2, CongruentSame
  <2> QED BY <2>1, CongruentSame
<1>3. ASSUME Congruent(b, d, m) PROVE Congruent(a, c, m)
  <2>1. Congruent(a, d, m)
    BY <1>3, CongruentSame
  <2> QED BY <1>1, <2>1, CongruentSame
<1> QED BY <1>2, <1>3

(* What is taken from both sides of a congruence may be congruent. *)
LEMMA CongruentLess ==
  ASSUME NEW m \in Int, NEW u \in Int, NEW v \in Int, NEW b \in Int, NEW c \in Int, NEW q \in Int,
         Congruent(v, c, m)
  PROVE  Congruent(u - q * v, b - q * c, m) <=> Congruent(u, b, m)
<1> DEFINE y == q * v  z == q * c
<1>1. y \in Int /\ z \in Int
  OBVIOUS
<1>2. Congruent(y, z, m)
  BY CongruentTimes
<1> HIDE DEF y, z
<1>3. \A s \in Int, t \in Int : s - t = s + (-1) * t /\ s - t \in Int /\ (s - t) + 1 * t = s
  OBVIOUS
<1> DEFINE o == 1  h == -1
<1>4. o \in Int /\ h \in Int /\ \A s, t \in Int : s - t = s + h * t /\ s - t \in Int /\ (s - t) + o * t = s
  BY <1>3
<1> HIDE DEF o, h
<1>5. ASSUME Congruent(u, b, m) PROVE Congruent(u - y, b - z, m)
  <2>1. Congruent(u + h * y, b + h * z, m)
    BY <1>1, <1>2, <1>4, <1>5, CongruentLinear
  <2> QED BY <1>1, <1>4, <2>1
<1>6. ASSUME Congruent(u - y, b - z, m) PROVE Congruent(u, b, m)
  <2> DEFINE e == u - y  f == b - z
  <2>1. e \in Int /\ f \in Int /\ Congruent(e, f, m) /\ e + o * y = u /\ f + o * z = b
    BY <1>1, <1>4, <1>6
  <2> HIDE DEF e, f
  <2>2. Congruent(e + o * y, f + o * z, m)
    BY <1>1, <1>2, <1>4, <2>1, CongruentLinear
  <2> QED BY <2>1, <2>2
<1> QED BY <1>5, <1>6 DEF y, z

(* A number is congruent to its remainder. *)
LEMMA CongruentRest ==
  ASSUME NEW m \in Nat \ {0}, NEW a \in Int
  PROVE  a % m \in 0 .. m - 1 /\ Congruent(a % m, a, m)
<1> DEFINE r == a % m  q == a \div m
<1>2. a = m * q + r /\ r \in 0 .. m - 1 /\ q \in Int
  BY DivMod
<1> HIDE DEF r, q
<1>3. r = a + m * (-q) /\ -q \in Int
  BY <1>2
<1> QED BY <1>2, <1>3 DEF Congruent, r

(* Remainders are equal if they are congruent. *)
LEMMA CongruentEqual ==
  ASSUME NEW m \in Nat \ {0}, NEW a \in 0 .. m - 1, NEW b \in 0 .. m - 1, Congruent(a, b, m)
  PROVE  a = b
<1>1. PICK q \in Int : a = m * q + b
  BY DEF Congruent
<1>2. a = m * 0 + a
  OBVIOUS
<1>3. (m * q + b) \div m = q /\ (m * 0 + a) \div m = 0
  BY DivUnique
<1>4. q = 0
  BY <1>1, <1>2, <1>3
<1> QED BY <1>1, <1>4

(* A remainder says to which numbers a number is congruent. *)
LEMMA RestIs ==
  ASSUME NEW m \in Nat \ {0}, NEW a \in Int, NEW b \in 0 .. m - 1
  PROVE  a % m = b <=> Congruent(a, b, m)
<1>1. a % m \in 0 .. m - 1 /\ Congruent(a % m, a, m)
  BY CongruentRest
<1>2. a % m \in Int /\ b \in Int /\ m \in Int
  BY <1>1
<1>3. Congruent(a, a % m, m)
  BY <1>1, <1>2, CongruentSame
<1>4. ASSUME Congruent(a, b, m) PROVE a % m = b
  <2>1. Congruent(a % m, b, m)
    BY <1>1, <1>2, <1>4, CongruentSame
  <2> QED BY <1>1, <2>1, CongruentEqual
<1> QED BY <1>3, <1>4

(* Congruent numbers have the same remainder. *)
LEMMA SameRest ==
  ASSUME NEW m \in Nat \ {0}, NEW a \in Int, NEW b \in Int
  PROVE  a % m = b % m <=> Congruent(a, b, m)
<1>1. b % m \in 0 .. m - 1 /\ Congruent(b % m, b, m)
  BY CongruentRest
<1>2. b % m \in Int /\ m \in Int
  BY <1>1
<1>3. a % m = b % m <=> Congruent(a, b % m, m)
  BY <1>1, RestIs
<1>4. Congruent(b, b % m, m)
  BY <1>1, <1>2, CongruentSame
<1> QED BY <1>1, <1>2, <1>3, <1>4, CongruentSame

(* Sums of congruent terms are congruent. *)
LEMMA CongruentSum ==
  ASSUME NEW m \in Int, NEW D, NEW f, NEW g, IntFunction(f, D), IntFunction(g, D),
         \A x \in D : Congruent(f[x], g[x], m)
  PROVE  Congruent(SumFunction(f), SumFunction(g), m)
<1> DEFINE q == [x \in D |-> CHOOSE n \in Int : f[x] = g[x] + m * n]
<1>2. \A x \in D : q[x] \in Int /\ f[x] = g[x] + m * q[x]
  BY DEF Congruent
<1>3. q = [x \in D |-> q[x]]
  OBVIOUS
<1> HIDE DEF q
<1>4. IntFunction(q, D)
  BY <1>2, <1>3 DEF IntFunction
<1>5. SumFunction(f) = SumFunction(g) + m * SumFunction(q)
  BY <1>2, <1>4, SumLinear
<1>6. SumFunction(q) \in Int
  BY <1>4, SumType
<1> QED BY <1>5, <1>6 DEF Congruent

-----------------------------------------------------------------------------
(* Where members are measured by naturals, one has the least measure.         *)
LEMMA LeastMeasure ==
  ASSUME NEW E, E # {}, NEW f \in [E -> Nat]
  PROVE  \E p \in E : \A q \in E : f[p] <= f[q]
<1> DEFINE T == {f[p] : p \in E}
<1>1. T \in SUBSET Nat /\ T # {}
  OBVIOUS
<1>2. (\A q \in E : f[q] \in T) /\ \A z \in T : \E p \in E : z = f[p]
  OBVIOUS
<1> HIDE DEF T
<1>3. PICK y \in T : \A z \in T : y <= z
  BY <1>1, LeastNat
<1>4. PICK p \in E : y = f[p]
  BY <1>2
<1> QED BY <1>2, <1>3, <1>4

(* Concatenating nothing leaves a function on 1 .. n as it is. *)
LEMMA Padded == \A n \in Nat : \A S : \A f \in [1 .. n -> S] : f \o <<>> = f /\ f \in Seq(S) /\ Len(f) = n
<1> TAKE n \in Nat
<1> TAKE S
<1> TAKE f \in [1 .. n -> S]
<1>1. f \in Seq(S)
  BY SeqDef
<1>2. f \o <<>> = f
  BY <1>1, ConcatEmptySeq
<1>3. Len(f) = n
  <2>1. DOMAIN f = 1 .. Len(f) /\ Len(f) \in Nat /\ DOMAIN f = 1 .. n
    BY <1>1
  <2> QED BY <2>1
<1> QED BY <1>1, <1>2, <1>3
=============================================================================
