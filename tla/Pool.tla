-------------------------------- MODULE Pool --------------------------------
(***************************************************************************)
(* The slot allocator behind every pointer of the C interface              *)
(* (bindings/c/src/pool.rs): a chain of pools, each a bitmap of free slots *)
(* over a slice of uninitialised items, each pool twice the size of the    *)
(* one before it and created the first time the chain overflows into it.   *)
(*                                                                         *)
(* A pool is a record of the chain spread over functions of its position   *)
(* k: base[k] is the address of items[0], size[k] the length of the bitmap *)
(* vector, free[k] the indices whose bit is set, complete[k] the flag that *)
(* lets alloc skip the pool.  Addresses are counted in items.  The global  *)
(* allocator may place a new pool anywhere it does not overlap a live one. *)
(*                                                                         *)
(* `held' is the client: the addresses it was given and has not given back *)
(* ("caller promises ptr is valid and allocated in this pool").            *)
(***************************************************************************)
EXTENDS Naturals

CONSTANTS
  BlockBits,  \* bits of one bitmap word: 64 in the code
  FirstSize,  \* words of the first pool: Pool::new(1)
  MaxDepth,   \* bound: how many pools the chain may grow to
  MaxAddr,    \* bound: the largest address
  Values,
  NoValue     \* an item that was never written

Addr == 0 .. MaxAddr
Chain == 1 .. MaxDepth

ASSUME PoolAssumption ==
  /\ BlockBits \in Nat \ {0}
  /\ FirstSize \in Nat \ {0}
  /\ MaxDepth \in Nat \ {0}
  /\ MaxAddr \in Nat
  /\ BlockBits * FirstSize <= MaxAddr + 1
  /\ NoValue \notin Values

VARIABLES
  depth,     \* how many pools the chain has
  base, size, free, complete,
  items,     \* items[p]: the bits at address p, kept when the slot is freed
  held,      \* client: addresses it owns
  returned,  \* client: the value the latest take gave it
  lost,      \* values whose own heap storage was abandoned undropped
  panicked   \* a "Pointer does not belong to the pool" panic was raised

vars == <<depth, base, size, free, complete, items, held, returned, lost, panicked>>

Slots(n) == BlockBits * n
IsLeast(i, S) == i \in S /\ \A j \in S : i <= j

(* Mutant: the end of the slice counted in. *)
InPoolClosed(k, p) == base[k] <= p /\ p <= base[k] + Slots(size[k])
(* Mutant: the last item left out. *)
InPoolShort(k, p) == base[k] <= p /\ p + 1 < base[k] + Slots(size[k])

(* get_index: does address p fall in the slice of pool k, and where. *)
InPool(k, p) == base[k] <= p /\ p < base[k] + Slots(size[k])
Index(k, p) == p - base[k]

Disjoint(b1, n1, b2, n2) == b1 + Slots(n1) <= b2 \/ b2 + Slots(n2) <= b1

TypeOK ==
  /\ depth \in Chain
  /\ base \in [Chain -> Addr]
  /\ size \in [Chain -> Nat]
  /\ free \in [Chain -> SUBSET Nat]
  /\ \A k \in Chain : free[k] \subseteq 0 .. Slots(size[k]) - 1
  /\ complete \in [Chain -> BOOLEAN]
  /\ items \in [Addr -> Values \cup {NoValue}]
  /\ held \in SUBSET Addr
  /\ returned \in Values \cup {NoValue}
  /\ lost \in SUBSET Values
  /\ panicked \in BOOLEAN
-----------------------------------------------------------------------------
(* EXPR_POOL and PROGRAM_POOL start as one pool of FirstSize words. *)
Init ==
  /\ depth = 1
  /\ \E b \in Addr :
       /\ b + Slots(FirstSize) <= MaxAddr + 1
       /\ base = [k \in Chain |-> IF k = 1 THEN b ELSE 0]
  /\ size = [k \in Chain |-> IF k = 1 THEN FirstSize ELSE 0]
  /\ free = [k \in Chain |-> IF k = 1 THEN 0 .. Slots(FirstSize) - 1 ELSE {}]
  /\ complete = [k \in Chain |-> FALSE]
  /\ items = [p \in Addr |-> NoValue]
  /\ held = {}
  /\ returned = NoValue
  /\ lost = {}
  /\ panicked = FALSE

(* What alloc looks at: a pool not flagged complete, with a free bit. *)
HasRoom(k) == ~complete[k] /\ free[k] # {}

(* The pools alloc passed over are complete when it leaves them. *)
PassOver(k) == complete' = [j \in Chain |-> IF j < k THEN TRUE ELSE complete[j]]

(* Mutant: every pool of the chain writes into the first pool's items. *)
HandOutInFirst(p, v) ==
  /\ items' = [items EXCEPT ![base[1]] = v]
  /\ held' = held \cup {p}
  /\ UNCHANGED <<returned, lost, panicked>>

(* Write v at address p and hand p to the caller. *)
HandOut(p, v) ==
  /\ items' = [items EXCEPT ![p] = v]
  /\ held' = held \cup {p}
  /\ UNCHANGED <<returned, lost, panicked>>

(* alloc ends in pool k of the chain: first block with a set bit, lowest bit. *)
AllocIn(k, v) ==
  /\ k <= depth
  /\ HasRoom(k)
  /\ \A j \in 1 .. k - 1 : ~HasRoom(j)
  /\ PassOver(k)
  /\ \E i \in free[k] :
       /\ IsLeast(i, free[k])
       /\ free' = [free EXCEPT ![k] = @ \ {i}]
       /\ HandOut(base[k] + i, v)
  /\ UNCHANGED <<depth, base, size>>

(* alloc runs off the chain: next() appends a pool twice the size, at b. *)
AllocGrow(b, v) ==
  /\ depth < MaxDepth
  /\ \A j \in 1 .. depth : ~HasRoom(j)
  /\ LET k == depth + 1
         n == 2 * size[depth] IN
       /\ b + Slots(n) <= MaxAddr + 1
       /\ \A j \in 1 .. depth : Disjoint(base[j], size[j], b, n)
       /\ depth' = k
       /\ size' = [size EXCEPT ![k] = n]
       /\ base' = [base EXCEPT ![k] = b]
       /\ complete' = [j \in Chain |-> j < k]
       /\ free' = [free EXCEPT ![k] = 1 .. Slots(n) - 1]
       /\ HandOut(b, v)

(* Mutant: the complete flag survives the return of a slot. *)
MarkFreeStale(k, i) ==
  /\ free' = [free EXCEPT ![k] = @ \cup {i}]
  /\ UNCHANGED complete

MarkFree(k, i) ==
  /\ free' = [free EXCEPT ![k] = @ \cup {i}]
  /\ complete' = [complete EXCEPT ![k] = FALSE]

(* free and take walk the chain to the first pool whose slice holds p. *)
FoundIn(k, p) ==
  /\ k <= depth
  /\ InPool(k, p)
  /\ \A j \in 1 .. k - 1 : ~InPool(j, p)

(* drop_in_place on a *mut c_void runs no destructor: the value is lost. *)
Free(k, p) ==
  /\ p \in held
  /\ FoundIn(k, p)
  /\ lost' = lost \cup {items[p]}
  /\ MarkFree(k, Index(k, p))
  /\ held' = held \ {p}
  /\ UNCHANGED <<depth, base, size, items, returned, panicked>>

(* Mutant: the item is read from the first pool of the chain. *)
TakeFromFirst(k, p) ==
  /\ p \in held
  /\ FoundIn(k, p)
  /\ MarkFree(k, Index(k, p))
  /\ returned' = items[base[1]]
  /\ held' = held \ {p}
  /\ UNCHANGED <<depth, base, size, items, lost, panicked>>

Take(k, p) ==
  /\ p \in held
  /\ FoundIn(k, p)
  /\ MarkFree(k, Index(k, p))
  /\ returned' = items[p]
  /\ held' = held \ {p}
  /\ UNCHANGED <<depth, base, size, items, lost, panicked>>

(* free or take of a pointer no pool of the chain claims (the C++ wrapper's *)
(* null, or a pointer from another thread's pool): the panic unwinds to an  *)
(* extern "C" frame and the process aborts.                                 *)
Panic(p) ==
  /\ \A k \in 1 .. depth : ~InPool(k, p)
  /\ panicked' = TRUE
  /\ UNCHANGED <<depth, base, size, free, complete, items, held, returned, lost>>

Next ==
  /\ ~panicked
  /\ \/ \E v \in Values :
          \/ \E k \in Chain : AllocIn(k, v)
          \/ \E b \in Addr : AllocGrow(b, v)
     \/ \E p \in Addr :
          \/ \E k \in Chain : Free(k, p) \/ Take(k, p)
          \/ Panic(p)

Spec == Init /\ [][Next]_vars
-----------------------------------------------------------------------------
(* The slots whose bit is clear, by address. *)
InUse(p) == \E k \in 1 .. depth : InPool(k, p) /\ Index(k, p) \notin free[k]

(* The addresses clients own are exactly the slots whose bit is clear: no   *)
(* slot is handed out twice, none is returned to the wrong pool of the      *)
(* chain, and none stays marked after it was given back.                    *)
HeldIsInUse == held = {p \in Addr : InUse(p)}

(* The flag that makes alloc skip a pool is never stale: a pool flagged     *)
(* complete has no free slot, however frees and allocations alternate.      *)
CompleteIsFull == \A k \in 1 .. depth : complete[k] => free[k] = {}

(* The slices of the chain never overlap, each twice the one before it.     *)
Layout ==
  /\ \A j, k \in 1 .. depth : j < k => Disjoint(base[j], size[j], base[k], size[k])
  /\ \A k \in 1 .. depth : size[k] > 0 /\ base[k] + Slots(size[k]) <= MaxAddr + 1
  /\ \A k \in 2 .. depth : size[k] = 2 * size[k - 1]

(* free and take never panic on a pointer the client owns. *)
HeldIsFound == \A p \in held : \E k \in 1 .. depth : InPool(k, p)

(* take never reads an item that was not written since the pool was made:   *)
(* assume_init_read is sound on every pointer a client owns.                *)
HeldIsInitialised == \A p \in held : items[p] \in Values

(* The chain stays dense: an address is handed out of a pool only when no   *)
(* earlier pool has a free slot, so it grows only when every slot is taken. *)
EarliestPool ==
  [][\A p \in held' \ held : \A j \in 1 .. depth :
       free[j] # {} => \E k \in 1 .. j : InPool(k, p)]_vars

(* Freeing a value releases what it owns. *)
FreeDropsValue == lost = {}

(* The pool as the store its clients are promised. *)
Store == INSTANCE SlotStore WITH
  store <- [p \in Addr |-> IF InUse(p) THEN items[p] ELSE NoValue]
PoolImplementsStore == Store!Spec
=============================================================================
