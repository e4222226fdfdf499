----------------------------- MODULE SlotStore -----------------------------
(***************************************************************************)
(* What a client of the C bindings is promised by the expression and       *)
(* program pools (bindings/c/src/pool.rs): an address handed out names one *)
(* value until the client gives it back, and taking it yields that value.  *)
(* Nothing is said here of bitmaps, chains or growth: Pool.tla implements  *)
(* this module.                                                            *)
(***************************************************************************)
CONSTANTS
  Addr,     \* addresses a pool may hand out
  Values,   \* what a slot stores: expressions, or programs
  NoValue   \* the content of an address nobody holds

VARIABLES
  store,    \* store[p]: the value the client reaches through p
  returned  \* the value the latest take moved out

storeVars == <<store, returned>>

StoreTypeOK ==
  /\ store \in [Addr -> Values \cup {NoValue}]
  /\ returned \in Values \cup {NoValue}

Init ==
  /\ store = [p \in Addr |-> NoValue]
  /\ returned = NoValue

Put(p, v) ==
  /\ store[p] = NoValue
  /\ store' = [store EXCEPT ![p] = v]
  /\ UNCHANGED returned

Discard(p) ==
  /\ store[p] # NoValue
  /\ store' = [store EXCEPT ![p] = NoValue]
  /\ UNCHANGED returned

TakeOut(p) ==
  /\ store[p] # NoValue
  /\ returned' = store[p]
  /\ store' = [store EXCEPT ![p] = NoValue]

Next ==
  \E p \in Addr :
    \/ \E v \in Values : Put(p, v)
    \/ Discard(p)
    \/ TakeOut(p)

Spec == Init /\ [][Next]_storeVars
=============================================================================
