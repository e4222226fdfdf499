----------------------------- MODULE PoolProofs -----------------------------
(***************************************************************************)
(* Proofs about Pool.tla, for every word width, first size and depth.      *)
(*                                                                         *)
(* The inductive invariant is the conjunction of the type invariant, the   *)
(* layout of the chain (slices never overlap), the agreement of the bitmap *)
(* with the addresses clients own, and the meaning of the complete flag.   *)
(* Layout is what makes the walk of free and take end in the pool that     *)
(* allocated the address; without it HeldIsInUse is not inductive.         *)
(***************************************************************************)
EXTENDS Pool, TLAPS

IInv == TypeOK /\ Layout /\ HeldIsInUse /\ CompleteIsFull /\ HeldIsInitialised

(* The slots of n words are natural in number, and positive when n is. *)
LEMMA SlotsNat ==
  ASSUME NEW n \in Nat
  PROVE  /\ Slots(n) \in Nat
         /\ n > 0 => Slots(n) > 0
  BY PoolAssumption, SMT DEF Slots

(* An address lies in the slice of at most one pool of the chain. *)
LEMMA OnePool ==
  ASSUME TypeOK, Layout, NEW p \in Addr,
         NEW j \in 1 .. depth, NEW k \in 1 .. depth,
         InPool(j, p), InPool(k, p)
  PROVE  j = k
<1>1. j \in Chain /\ k \in Chain
  BY PoolAssumption DEF TypeOK, Chain
<1>2. /\ base[j] \in Nat /\ base[k] \in Nat /\ p \in Nat
      /\ Slots(size[j]) \in Nat /\ Slots(size[k]) \in Nat
  BY <1>1, SlotsNat DEF TypeOK, Addr
<1>3. ~(j < k) /\ ~(k < j)
  BY <1>2 DEF Layout, Disjoint, InPool
<1>4. QED
  BY <1>3

(* The slot of an address in a pool, and the address of a slot. *)
LEMMA SlotAddress ==
  ASSUME TypeOK, Layout, NEW k \in 1 .. depth, NEW i \in free[k]
  PROVE  /\ base[k] + i \in Addr
         /\ InPool(k, base[k] + i)
         /\ Index(k, base[k] + i) = i
<1>1. k \in Chain
  BY PoolAssumption DEF TypeOK, Chain
<1>2. base[k] \in Nat /\ Slots(size[k]) \in Nat /\ i \in 0 .. Slots(size[k]) - 1
  BY <1>1, SlotsNat DEF TypeOK, Addr
<1>3. base[k] + Slots(size[k]) <= MaxAddr + 1
  BY DEF Layout
<1>4. QED
  BY <1>2, <1>3, PoolAssumption DEF Addr, InPool, Index

LEMMA InitInv == Init => IInv
<1>1. SUFFICES ASSUME Init
               PROVE  IInv
  OBVIOUS
<1>2. 1 \in Chain /\ MaxDepth \in Nat \ {0}
  BY PoolAssumption DEF Chain
<1>3. Slots(FirstSize) \in Nat /\ Slots(FirstSize) > 0
  BY SlotsNat, PoolAssumption
<1>4. TypeOK
  <2>1. base \in [Chain -> Addr]
    BY <1>1, <1>2, PoolAssumption DEF Init, Addr
  <2>2. size \in [Chain -> Nat] /\ size[1] = FirstSize
    BY <1>1, <1>2, PoolAssumption DEF Init
  <2>3. free = [k \in Chain |-> IF k = 1 THEN 0 .. Slots(FirstSize) - 1 ELSE {}]
    BY <1>1 DEF Init
  <2>4. free \in [Chain -> SUBSET Nat]
    BY <2>3, <1>3
  <2>5. ASSUME NEW k \in Chain
        PROVE  free[k] \subseteq 0 .. Slots(size[k]) - 1
    BY <2>2, <2>3
  <2>6. QED
    BY <1>1, <1>2, <2>1, <2>2, <2>4, <2>5 DEF Init, TypeOK
<1>5. Layout
  BY <1>1, <1>2, <1>3, PoolAssumption DEF Init, Layout, Chain
<1>6. \A p \in Addr : ~InUse(p)
  <2>1. SUFFICES ASSUME NEW p \in Addr, InPool(1, p), Index(1, p) \notin free[1]
                 PROVE  FALSE
    BY <1>1 DEF Init, InUse
  <2>2. base[1] \in Nat /\ size[1] = FirstSize /\ free[1] = 0 .. Slots(FirstSize) - 1
    BY <1>1, <1>2 DEF Init, Addr
  <2>3. QED
    BY <2>1, <2>2, <1>3 DEF InPool, Index, Addr
<1>7. HeldIsInUse /\ CompleteIsFull /\ HeldIsInitialised
  BY <1>1, <1>2, <1>6 DEF Init, HeldIsInUse, CompleteIsFull, HeldIsInitialised, Chain
<1>8. QED
  BY <1>4, <1>5, <1>7 DEF IInv

-----------------------------------------------------------------------------
LEMMA AllocInInv ==
  ASSUME IInv, NEW k \in Chain, NEW v \in Values, AllocIn(k, v)
  PROVE  IInv'
<1> USE DEF IInv
<1>1. k \in 1 .. depth /\ depth \in 1 .. MaxDepth
  BY PoolAssumption DEF AllocIn, TypeOK, Chain
<1>2. PICK i \in free[k] :
        /\ free' = [free EXCEPT ![k] = @ \ {i}]
        /\ HandOut(base[k] + i, v)
  BY DEF AllocIn
<1> DEFINE p == base[k] + i
<1>3. p \in Addr /\ InPool(k, p) /\ Index(k, p) = i
  BY <1>1, SlotAddress
<1>4. /\ UNCHANGED <<depth, base, size, returned, lost, panicked>>
      /\ complete' = [j \in Chain |-> IF j < k THEN TRUE ELSE complete[j]]
      /\ items' = [items EXCEPT ![p] = v]
      /\ held' = held \cup {p}
  BY <1>2 DEF AllocIn, PassOver, HandOut
<1>5. /\ free' \in [Chain -> SUBSET Nat]
      /\ free'[k] = free[k] \ {i}
      /\ \A j \in Chain : free'[j] \subseteq free[j]
      /\ \A j \in Chain \ {k} : free'[j] = free[j]
  BY <1>2 DEF TypeOK
<1>6. TypeOK'
  <2>1. complete' \in [Chain -> BOOLEAN]
    BY <1>4 DEF TypeOK
  <2>2. items' \in [Addr -> Values \cup {NoValue}] /\ held' \in SUBSET Addr
    BY <1>3, <1>4 DEF TypeOK
  <2>3. \A j \in Chain : free'[j] \subseteq (0 .. Slots(size[j]) - 1)'
    BY <1>4, <1>5 DEF TypeOK, Slots
  <2>4. QED
    BY <1>4, <1>5, <2>1, <2>2, <2>3 DEF TypeOK
<1>7. Layout'
  BY <1>4 DEF Layout, Disjoint, Slots
<1>8. HeldIsInUse'
  <2>1. ASSUME NEW q \in Addr
        PROVE  InUse(q)' <=> InUse(q) \/ q = p
    <3>1. ASSUME NEW j \in 1 .. depth
          PROVE  /\ j \in Chain
                 /\ InPool(j, q)' <=> InPool(j, q)
                 /\ Index(j, q)' = Index(j, q)
      BY <1>4, PoolAssumption DEF TypeOK, Chain, InPool, Index, Slots
    <3>2. InUse(q) => InUse(q)'
      BY <1>4, <1>5, <3>1 DEF InUse
    <3>3. q = p => InUse(q)'
      BY <1>1, <1>3, <1>4, <1>5, <3>1 DEF InUse
    <3>4. Index(k, q) = i => q = p
      BY <1>3 DEF Index, TypeOK, Addr
    <3>5. ASSUME InUse(q)'
          PROVE  InUse(q) \/ q = p
      <4>1. PICK j \in 1 .. depth : InPool(j, q) /\ Index(j, q) \notin free'[j]
        BY <1>4, <3>1, <3>5 DEF InUse
      <4>2. CASE j = k
        BY <1>5, <3>4, <4>1, <4>2 DEF InUse
      <4>3. CASE j # k
        BY <1>5, <3>1, <4>1, <4>3 DEF InUse
      <4>4. QED
        BY <4>2, <4>3
    <3>6. QED
      BY <3>2, <3>3, <3>5
  <2>2. QED
    BY <1>3, <1>4, <2>1 DEF HeldIsInUse, TypeOK
<1>9. CompleteIsFull'
  <2>1. SUFFICES ASSUME NEW j \in 1 .. depth, complete'[j]
                 PROVE  free'[j] = {}
    BY <1>4 DEF CompleteIsFull
  <2>2. j \in Chain
    BY PoolAssumption DEF TypeOK, Chain
  <2>3. CASE j < k
    <3>1. ~HasRoom(j)
      BY <2>3, <1>1 DEF AllocIn
    <3>2. free[j] = {}
      BY <3>1 DEF HasRoom, CompleteIsFull
    <3>3. QED
      BY <3>2, <1>5, <2>2
  <2>4. CASE ~(j < k)
    <3>1. complete[j]
      BY <1>4, <2>1, <2>2, <2>4
    <3>2. free[j] = {}
      BY <3>1 DEF CompleteIsFull
    <3>3. QED
      BY <3>2, <1>5, <2>2
  <2>5. QED
    BY <2>3, <2>4
<1>10. HeldIsInitialised'
  BY <1>3, <1>4 DEF HeldIsInitialised, TypeOK
<1>11. QED
  BY <1>6, <1>7, <1>8, <1>9, <1>10

LEMMA AllocGrowInv ==
  ASSUME IInv, NEW b \in Addr, NEW v \in Values, AllocGrow(b, v)
  PROVE  IInv'
<1> USE DEF IInv
<1> DEFINE n == 2 * size[depth]
<1>0. PICK k \in Chain : k = depth + 1
  BY PoolAssumption DEF AllocGrow, TypeOK, Chain
<1>1. /\ depth \in 1 .. MaxDepth /\ depth \in Chain
      /\ k \in Chain /\ k \notin 1 .. depth
      /\ 1 .. k = (1 .. depth) \cup {k}
      /\ \A j \in 1 .. depth : j \in Chain /\ j # k /\ j < k
  BY <1>0, PoolAssumption DEF AllocGrow, TypeOK, Chain
<1>2. /\ n \in Nat /\ n > 0
      /\ Slots(n) \in Nat /\ Slots(n) > 0
  <2>1. size[depth] \in Nat /\ size[depth] > 0
    BY <1>1 DEF TypeOK, Layout
  <2>2. n \in Nat /\ n > 0
    BY <2>1
  <2>3. QED
    BY <2>2, SlotsNat
<1>3. /\ UNCHANGED <<returned, lost, panicked>>
      /\ b + Slots(n) <= MaxAddr + 1
      /\ \A j \in 1 .. depth : Disjoint(base[j], size[j], b, n)
      /\ depth' = k
      /\ size' = [size EXCEPT ![k] = n]
      /\ base' = [base EXCEPT ![k] = b]
      /\ complete' = [j \in Chain |-> j < k]
      /\ free' = [free EXCEPT ![k] = 1 .. Slots(n) - 1]
      /\ items' = [items EXCEPT ![b] = v]
      /\ held' = held \cup {b}
  BY <1>0 DEF AllocGrow, HandOut
<1>4. \A j \in 1 .. depth : free[j] = {}
  BY DEF AllocGrow, HasRoom, CompleteIsFull
<1>5. /\ size'[k] = n /\ base'[k] = b /\ free'[k] = 1 .. Slots(n) - 1
      /\ \A j \in Chain \ {k} : /\ size'[j] = size[j] /\ base'[j] = base[j]
                                /\ free'[j] = free[j]
  BY <1>1, <1>3 DEF TypeOK
<1>6. TypeOK'
  <2>1. depth' \in Chain /\ base' \in [Chain -> Addr] /\ size' \in [Chain -> Nat]
    BY <1>1, <1>2, <1>3 DEF TypeOK
  <2>2. free' \in [Chain -> SUBSET Nat]
    BY <1>1, <1>2, <1>3 DEF TypeOK
  <2>3. ASSUME NEW j \in Chain
        PROVE  free'[j] \subseteq (0 .. Slots(size[j]) - 1)'
    <3>1. CASE j = k
      BY <1>2, <1>5, <3>1 DEF Slots
    <3>2. CASE j # k
      BY <1>5, <3>2 DEF TypeOK, Slots
    <3>3. QED
      BY <3>1, <3>2
  <2>4. complete' \in [Chain -> BOOLEAN]
    BY <1>3 DEF TypeOK
  <2>5. items' \in [Addr -> Values \cup {NoValue}] /\ held' \in SUBSET Addr
    BY <1>3 DEF TypeOK
  <2>6. QED
    BY <1>3, <2>1, <2>2, <2>3, <2>4, <2>5 DEF TypeOK
<1>7. Layout'
  <2>1. ASSUME NEW j1 \in 1 .. depth', NEW j2 \in 1 .. depth', j1 < j2
        PROVE  Disjoint(base[j1], size[j1], base[j2], size[j2])'
    <3>1. j1 \in 1 .. depth
      BY <1>0, <1>1, <1>3, <2>1
    <3>2. CASE j2 = k
      BY <1>1, <1>3, <1>5, <3>1, <3>2 DEF Disjoint, Slots
    <3>3. CASE j2 \in 1 .. depth
      BY <1>1, <1>5, <2>1, <3>1, <3>3 DEF Layout, Disjoint, Slots
    <3>4. QED
      BY <1>1, <1>3, <3>2, <3>3
  <2>2. ASSUME NEW j \in 1 .. depth'
        PROVE  (size[j] > 0 /\ base[j] + Slots(size[j]) <= MaxAddr + 1)'
    <3>1. CASE j = k
      BY <1>2, <1>3, <1>5, <3>1 DEF Slots
    <3>2. CASE j \in 1 .. depth
      BY <1>1, <1>5, <3>2 DEF Layout, Slots
    <3>3. QED
      BY <1>1, <1>3, <3>1, <3>2
  <2>3. ASSUME NEW j \in 2 .. depth'
        PROVE  size'[j] = 2 * size'[j - 1]
    <3>1. CASE j = k
      BY <1>0, <1>1, <1>5, <3>1
    <3>2. CASE j \in 2 .. depth
      <4>1. j \in 1 .. depth /\ j - 1 \in 1 .. depth
        BY <3>2, <1>1
      <4>2. QED
        BY <1>1, <1>5, <3>2, <4>1 DEF Layout
    <3>3. QED
      BY <1>0, <1>1, <1>3, <3>1, <3>2
  <2>4. QED
    BY <2>1, <2>2, <2>3 DEF Layout
<1>8. HeldIsInUse'
  <2>1. ASSUME NEW q \in Addr
        PROVE  InUse(q)' <=> InUse(q) \/ q = b
    <3>1. ASSUME NEW j \in 1 .. depth
          PROVE  (InPool(j, q) /\ Index(j, q) \notin free[j])'
                   <=> InPool(j, q) /\ Index(j, q) \notin free[j]
      BY <1>1, <1>5 DEF InPool, Index, Slots
    <3>2. (InPool(k, q) /\ Index(k, q) \notin free[k])' <=> q = b
      <4>1. q \in Nat /\ b \in Nat
        BY DEF Addr
      <4>2. InPool(k, q)' <=> b <= q /\ q < b + Slots(n)
        BY <1>5 DEF InPool, Slots
      <4>3. Index(k, q)' = q - b /\ free'[k] = 1 .. Slots(n) - 1
        BY <1>5 DEF Index
      <4>4. QED
        BY <1>2, <4>1, <4>2, <4>3
    <3>3. InUse(q)' <=> \E j \in 1 .. k : (InPool(j, q) /\ Index(j, q) \notin free[j])'
      BY <1>3 DEF InUse
    <3>4. QED
      BY <1>1, <3>1, <3>2, <3>3 DEF InUse
  <2>2. QED
    BY <1>3, <2>1 DEF HeldIsInUse, TypeOK
<1>9. CompleteIsFull'
  <2>1. ASSUME NEW j \in 1 .. depth
        PROVE  free'[j] = {}
    BY <1>1, <1>4, <1>5
  <2>2. ~complete'[k] \/ free'[k] = {}
    <3>1. ~(k < k)
      BY <1>0, <1>1
    <3>2. complete'[k] = (k < k)
      BY <1>1, <1>3
    <3>3. QED
      BY <3>1, <3>2
  <2>3. QED
    BY <1>1, <1>3, <2>1, <2>2 DEF CompleteIsFull
<1>10. HeldIsInitialised'
  BY <1>3 DEF HeldIsInitialised, TypeOK
<1>11. QED
  BY <1>6, <1>7, <1>8, <1>9, <1>10

(* free and take set the bit of the slot they were given, and nothing else. *)
LEMMA GiveBack ==
  ASSUME TypeOK, Layout, NEW k \in Chain, NEW p \in Addr,
         FoundIn(k, p), MarkFree(k, Index(k, p)), UNCHANGED <<depth, base, size>>
  PROVE  /\ free' \in [Chain -> SUBSET Nat]
         /\ \A j \in Chain : free'[j] \subseteq 0 .. Slots(size[j]) - 1
         /\ \A q \in Addr : InUse(q)' <=> InUse(q) /\ q # p
<1> DEFINE i == Index(k, p)
<1>1. k \in 1 .. depth /\ \A j \in 1 .. depth : j \in Chain
  BY PoolAssumption DEF FoundIn, TypeOK, Chain
<1>2. i \in 0 .. Slots(size[k]) - 1
  <2>1. p \in Nat /\ base[k] \in Nat /\ Slots(size[k]) \in Nat
    BY SlotsNat DEF TypeOK, Addr
  <2>2. QED
    BY <2>1 DEF FoundIn, InPool, Index
<1>3. /\ free'[k] = free[k] \cup {i}
      /\ \A j \in Chain \ {k} : free'[j] = free[j]
  BY DEF MarkFree, TypeOK
<1>4. free' \in [Chain -> SUBSET Nat]
  BY <1>2 DEF MarkFree, TypeOK
<1>5. \A j \in Chain : free'[j] \subseteq 0 .. Slots(size[j]) - 1
  BY <1>2, <1>3 DEF TypeOK
<1>6. ASSUME NEW q \in Addr
      PROVE  InUse(q)' <=> InUse(q) /\ q # p
  <2>1. ASSUME NEW j \in 1 .. depth
        PROVE  /\ InPool(j, q)' <=> InPool(j, q)
               /\ Index(j, q)' = Index(j, q)
    BY DEF InPool, Index, Slots
  <2>2. ASSUME NEW j \in 1 .. depth, InPool(j, q), q # p
        PROVE  Index(j, q) \in free'[j] <=> Index(j, q) \in free[j]
    <3>1. CASE j # k
      BY <1>1, <1>3, <3>1
    <3>2. CASE j = k
      <4>1. Index(k, q) # i
        BY <2>2 DEF Index, TypeOK, Addr
      <4>2. QED
        BY <1>3, <3>2, <4>1
    <3>3. QED
      BY <3>1, <3>2
  <2>3. ASSUME NEW j \in 1 .. depth, InPool(j, p)
        PROVE  Index(j, p) \in free'[j]
    BY <1>1, <1>3, <2>3, OnePool DEF FoundIn
  <2>4. CASE q = p
    BY <2>1, <2>3, <2>4 DEF InUse
  <2>5. CASE q # p
    BY <2>1, <2>2, <2>5 DEF InUse
  <2>6. QED
    BY <2>4, <2>5
<1>7. QED
  BY <1>4, <1>5, <1>6

LEMMA ReleaseInv ==
  ASSUME IInv, NEW k \in Chain, NEW p \in Addr, Free(k, p) \/ Take(k, p)
  PROVE  IInv'
<1> USE DEF IInv
<1>1. /\ p \in held /\ FoundIn(k, p) /\ MarkFree(k, Index(k, p))
      /\ held' = held \ {p}
      /\ UNCHANGED <<depth, base, size, items, panicked>>
  BY DEF Free, Take
<1>2. items[p] \in Values
  BY <1>1 DEF HeldIsInitialised
<1>3. returned' \in Values \cup {NoValue} /\ lost' \in SUBSET Values
  BY <1>2 DEF Free, Take, TypeOK
<1>4. /\ free' \in [Chain -> SUBSET Nat]
      /\ \A j \in Chain : free'[j] \subseteq 0 .. Slots(size[j]) - 1
      /\ \A q \in Addr : InUse(q)' <=> InUse(q) /\ q # p
  BY <1>1, GiveBack
<1>5. complete' = [complete EXCEPT ![k] = FALSE]
  BY <1>1 DEF MarkFree
<1>6. TypeOK'
  <2>1. complete' \in [Chain -> BOOLEAN] /\ held' \in SUBSET Addr
    BY <1>1, <1>5 DEF TypeOK
  <2>2. QED
    BY <1>1, <1>3, <1>4, <2>1 DEF TypeOK, Slots
<1>7. Layout'
  BY <1>1 DEF Layout, Disjoint, Slots
<1>8. HeldIsInUse'
  BY <1>1, <1>4 DEF HeldIsInUse, TypeOK
<1>9. CompleteIsFull'
  <2>1. SUFFICES ASSUME NEW j \in 1 .. depth, complete'[j]
                 PROVE  free'[j] = {}
    BY <1>1 DEF CompleteIsFull
  <2>2. j \in Chain /\ j # k
    BY <1>5, <2>1, PoolAssumption DEF TypeOK, Chain
  <2>3. complete[j] /\ free'[j] = free[j]
    BY <1>1, <1>5, <2>1, <2>2 DEF MarkFree, TypeOK
  <2>4. QED
    BY <2>3 DEF CompleteIsFull
<1>10. HeldIsInitialised'
  BY <1>1 DEF HeldIsInitialised
<1>11. QED
  BY <1>6, <1>7, <1>8, <1>9, <1>10

LEMMA NextInv == IInv /\ [Next]_vars => IInv'
<1> SUFFICES ASSUME IInv, [Next]_vars
             PROVE  IInv'
  OBVIOUS
<1>1. ASSUME NEW v \in Values, NEW k \in Chain, AllocIn(k, v)
      PROVE  IInv'
  BY <1>1, AllocInInv
<1>2. ASSUME NEW v \in Values, NEW b \in Addr, AllocGrow(b, v)
      PROVE  IInv'
  BY <1>2, AllocGrowInv
<1>3. ASSUME NEW p \in Addr, NEW k \in Chain, Free(k, p) \/ Take(k, p)
      PROVE  IInv'
  BY <1>3, ReleaseInv
<1>4. CASE UNCHANGED vars \/ \E p \in Addr : Panic(p)
  <2>1. /\ UNCHANGED <<depth, base, size, free, complete, items, held, returned, lost>>
        /\ panicked' \in BOOLEAN
    BY <1>4 DEF vars, Panic, IInv, TypeOK
  <2>2. TypeOK'
    BY <2>1 DEF IInv, TypeOK, Slots
  <2>3. (Layout /\ CompleteIsFull /\ HeldIsInitialised)'
    BY <2>1 DEF IInv, Layout, Disjoint, Slots, CompleteIsFull, HeldIsInitialised
  <2>4. HeldIsInUse'
    BY <2>1 DEF IInv, HeldIsInUse, InUse, InPool, Index, Slots
  <2>5. QED
    BY <2>2, <2>3, <2>4 DEF IInv
<1>5. QED
  BY <1>1, <1>2, <1>3, <1>4 DEF Next
-----------------------------------------------------------------------------
LEMMA Invariance == Spec => []IInv
  BY InitInv, NextInv, PTL DEF Spec

(* The chain is always well formed. *)
THEOREM TypeCorrect == Spec => []TypeOK
<1>1. IInv => TypeOK
  BY DEF IInv
<1>2. QED
  BY Invariance, <1>1, PTL

(* No slot is handed out twice and none is left marked after it came back:  *)
(* the addresses clients own are the clear bits of the whole chain.         *)
THEOREM HeldIsInUseAlways == Spec => []HeldIsInUse
<1>1. IInv => HeldIsInUse
  BY DEF IInv
<1>2. QED
  BY Invariance, <1>1, PTL

(* The cached complete flag is never stale. *)
THEOREM CompleteIsFullAlways == Spec => []CompleteIsFull
<1>1. IInv => CompleteIsFull
  BY DEF IInv
<1>2. QED
  BY Invariance, <1>1, PTL

(* take never reads an item that was not written. *)
THEOREM HeldIsInitialisedAlways == Spec => []HeldIsInitialised
<1>1. IInv => HeldIsInitialised
  BY DEF IInv
<1>2. QED
  BY Invariance, <1>1, PTL

(* free and take find the pool of every pointer a client owns. *)
THEOREM HeldIsFoundAlways == Spec => []HeldIsFound
<1>1. IInv => HeldIsFound
  BY DEF IInv, HeldIsFound, HeldIsInUse, InUse
<1>2. QED
  BY Invariance, <1>1, PTL

-----------------------------------------------------------------------------
(* Every allocation hands out an address nobody owns. *)
LEMMA FreshAddress ==
  ASSUME IInv, NEW v \in Values,
         (\E k \in Chain : AllocIn(k, v)) \/ (\E b \in Addr : AllocGrow(b, v))
  PROVE  \E p \in Addr : p \notin held /\ HandOut(p, v)
<1> USE DEF IInv
<1>1. ASSUME NEW k \in Chain, AllocIn(k, v)
      PROVE  \E p \in Addr : p \notin held /\ HandOut(p, v)
  <2>1. k \in 1 .. depth
    BY <1>1, PoolAssumption DEF AllocIn, TypeOK, Chain
  <2>2. PICK i \in free[k] : HandOut(base[k] + i, v)
    BY <1>1 DEF AllocIn
  <2>3. /\ base[k] + i \in Addr
        /\ InPool(k, base[k] + i)
        /\ Index(k, base[k] + i) = i
    BY <2>1, SlotAddress
  <2>4. ~InUse(base[k] + i)
    BY <2>1, <2>3, OnePool DEF InUse
  <2>5. QED
    BY <2>2, <2>3, <2>4 DEF HeldIsInUse
<1>2. ASSUME NEW b \in Addr, AllocGrow(b, v)
      PROVE  \E p \in Addr : p \notin held /\ HandOut(p, v)
  <2>1. ASSUME NEW j \in 1 .. depth
        PROVE  ~InPool(j, b)
    <3>1. j \in Chain /\ depth \in Chain /\ depth \in 1 .. depth
      BY PoolAssumption DEF TypeOK, Chain
    <3>2. 2 * size[depth] \in Nat /\ 2 * size[depth] > 0
      BY <3>1 DEF TypeOK, Layout
    <3>3. /\ b \in Nat /\ base[j] \in Nat
          /\ Slots(size[j]) \in Nat
          /\ Slots(2 * size[depth]) \in Nat /\ Slots(2 * size[depth]) > 0
      BY <3>1, <3>2, SlotsNat DEF TypeOK, Addr
    <3>4. Disjoint(base[j], size[j], b, 2 * size[depth])
      BY <1>2 DEF AllocGrow
    <3>5. QED
      BY <3>3, <3>4 DEF Disjoint, InPool
  <2>2. b \notin held
    BY <2>1 DEF HeldIsInUse, InUse
  <2>3. QED
    BY <1>2, <2>2 DEF AllocGrow
<1>3. QED
  BY <1>1, <1>2

(* While the client owns exactly the slots in use, the store its clients see *)
(* is what lies at the addresses they own.                                   *)
Seen == [p \in Addr |-> IF p \in held THEN items[p] ELSE NoValue]

LEMMA SeenIsStore ==
  ASSUME HeldIsInUse
  PROVE  [p \in Addr |-> IF InUse(p) THEN items[p] ELSE NoValue] = Seen
  BY DEF HeldIsInUse, Seen

LEMMA InitRefines == Init => Store!Init
<1>1. SUFFICES ASSUME Init
               PROVE  Store!Init
  OBVIOUS
<1>2. HeldIsInUse
  BY <1>1, InitInv DEF IInv
<1>3. Seen = [p \in Addr |-> NoValue]
  BY <1>1 DEF Init, Seen
<1>4. QED
  BY <1>1, <1>2, <1>3, SeenIsStore DEF Init, Store!Init

LEMMA StepRefines == IInv /\ [Next]_vars => [Store!Next]_(Store!storeVars)
<1> SUFFICES ASSUME IInv, [Next]_vars
             PROVE  [Store!Next]_(Store!storeVars)
  OBVIOUS
<1> DEFINE M == [p \in Addr |-> IF InUse(p) THEN items[p] ELSE NoValue]
<1>1. M = Seen
  BY SeenIsStore DEF IInv
<1>2. M' = Seen'
  <2>1. HeldIsInUse'
    BY NextInv DEF IInv
  <2>2. QED
    BY <2>1 DEF HeldIsInUse, Seen
<1>3. ASSUME NEW v \in Values,
             (\E k \in Chain : AllocIn(k, v)) \/ (\E b \in Addr : AllocGrow(b, v))
      PROVE  Store!Next
  <2>1. PICK p \in Addr : p \notin held /\ HandOut(p, v)
    BY <1>3, FreshAddress
  <2>2. Seen[p] = NoValue /\ Seen' = [Seen EXCEPT ![p] = v] /\ returned' = returned
    BY <2>1 DEF Seen, HandOut, IInv, TypeOK
  <2>3. Store!Put(p, v)
    BY <1>1, <1>2, <2>2 DEF Store!Put
  <2>4. QED
    BY <2>3 DEF Store!Next
<1>4. ASSUME NEW k \in Chain, NEW p \in Addr, Free(k, p) \/ Take(k, p)
      PROVE  Store!Next
  <2>1. p \in held /\ items[p] \in Values
    BY <1>4 DEF Free, Take, IInv, HeldIsInitialised
  <2>2. Seen[p] = items[p] /\ Seen[p] # NoValue /\ Seen' = [Seen EXCEPT ![p] = NoValue]
    BY <1>4, <2>1, PoolAssumption DEF Seen, Free, Take
  <2>3. CASE Free(k, p)
    <3>1. Store!Discard(p)
      BY <1>1, <1>2, <2>2, <2>3 DEF Store!Discard, Free
    <3>2. QED
      BY <3>1 DEF Store!Next
  <2>4. CASE Take(k, p)
    <3>1. Store!TakeOut(p)
      BY <1>1, <1>2, <2>2, <2>4 DEF Store!TakeOut, Take
    <3>2. QED
      BY <3>1 DEF Store!Next
  <2>5. QED
    BY <1>4, <2>3, <2>4
<1>5. ASSUME UNCHANGED vars \/ \E p \in Addr : Panic(p)
      PROVE  UNCHANGED Store!storeVars
  <2>1. Seen' = Seen /\ returned' = returned
    BY <1>5 DEF vars, Panic, Seen
  <2>2. QED
    BY <1>1, <1>2, <2>1 DEF Store!storeVars
<1>6. QED
  BY <1>3, <1>4, <1>5 DEF Next

(* The chain of bitmaps is a store: an address handed out names the value it *)
(* was given until it is given back, and taking it yields that value.        *)
THEOREM PoolRefinesStore == Spec => PoolImplementsStore
<1>1. Init => Store!Init
  BY InitRefines
<1>2. IInv /\ [Next]_vars => [Store!Next]_(Store!storeVars)
  BY StepRefines
<1>3. QED
  BY <1>1, <1>2, Invariance, PTL DEF Spec, PoolImplementsStore, Store!Spec

LEMMA StepIsDense ==
  IInv /\ [Next]_vars =>
    [\A p \in held' \ held : \A j \in 1 .. depth :
       free[j] # {} => \E k \in 1 .. j : InPool(k, p)]_vars
<1> SUFFICES ASSUME IInv, Next, NEW p \in held' \ held, NEW j \in 1 .. depth, free[j] # {}
             PROVE  \E k \in 1 .. j : InPool(k, p)
  OBVIOUS
<1>1. ASSUME NEW v \in Values, NEW k \in Chain, AllocIn(k, v)
      PROVE  \E m \in 1 .. j : InPool(m, p)
  <2>1. k \in 1 .. depth /\ depth \in Nat
    BY <1>1, PoolAssumption DEF AllocIn, IInv, TypeOK, Chain
  <2>2. PICK i \in free[k] : HandOut(base[k] + i, v)
    BY <1>1 DEF AllocIn
  <2>3. p = base[k] + i
    BY <2>2 DEF HandOut
  <2>4. InPool(k, p)
    BY <2>1, <2>3, SlotAddress DEF IInv
  <2>5. ~(j < k)
    <3>1. SUFFICES ASSUME j < k
                   PROVE  FALSE
      OBVIOUS
    <3>2. ~HasRoom(j)
      BY <1>1, <2>1, <3>1 DEF AllocIn
    <3>3. QED
      BY <3>2 DEF HasRoom, IInv, CompleteIsFull
  <2>6. QED
    BY <2>1, <2>4, <2>5
<1>2. ASSUME NEW v \in Values, NEW b \in Addr, AllocGrow(b, v)
      PROVE  FALSE
  BY <1>2 DEF AllocGrow, HasRoom, IInv, CompleteIsFull
<1>3. ASSUME NEW k \in Chain, NEW q \in Addr, Free(k, q) \/ Take(k, q)
      PROVE  FALSE
  BY <1>3 DEF Free, Take
<1>4. ASSUME NEW q \in Addr, Panic(q)
      PROVE  FALSE
  BY <1>4 DEF Panic
<1>5. QED
  BY <1>1, <1>2, <1>3, <1>4 DEF Next

(* The chain grows, or reaches a later pool, only when the earlier are full. *)
THEOREM AllocationIsDense == Spec => EarliestPool
  BY Invariance, StepIsDense, PTL DEF Spec, EarliestPool
=============================================================================
