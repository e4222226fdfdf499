----------------------------- MODULE CppHandles -----------------------------
(***************************************************************************)
(* The C++ wrapper's owning expressions (bindings/c/csrc/rumba.cpp, class  *)
(* Expression) over the C functions that allocate, take and free slots of  *)
(* the expression pool (bindings/c/src/lib.rs).  A handle holds a pointer  *)
(* to a slot, or null once moved from, consumed, or left by a simplify     *)
(* that failed.  The pool panics on null, which is in none of its slots,   *)
(* and a panic in an extern "C" function aborts the process; the pointer   *)
(* of a slot not in use it does not notice.                                *)
(*                                                                         *)
(* Pool is abstracted to the set of slots in use (SlotStore, which Pool    *)
(* implements): an allocation gives any slot not in use.                   *)
(***************************************************************************)
EXTENDS FiniteSets, Naturals

CONSTANTS
  Handle,       \* C++ objects of class Expression
  Slot,         \* slots of the pool
  Null, Gone,   \* a null pointer; an object not, or no longer, alive
  UseNull       \* does the client call operations on objects holding null?

ASSUME HandleAssumption ==
  /\ Null \notin Slot /\ Gone \notin Slot /\ Null # Gone
  /\ UseNull \in BOOLEAN

VARIABLES
  ptr,   \* ptr_ of each object, Gone if there is no such object
  live,  \* slots in use
  fault,   \* "abort" once the pool was given null, "stale" a slot not in use
  strayed  \* history: has the client used, or assigned to, an object holding null?

vars == <<ptr, live, fault, strayed>>

TypeOK ==
  /\ ptr \in [Handle -> Slot \cup {Null, Gone}]
  /\ live \in SUBSET Slot
  /\ fault \in {"none", "abort", "stale"}
  /\ strayed \in BOOLEAN

Alive(h) == ptr[h] # Gone
Owning == {h \in Handle : ptr[h] \in Slot}

(* The client uses the objects H: they exist, and if it takes care none has  *)
(* lost its pointer.                                                         *)
Stray(H) == strayed' = (strayed \/ \E h \in H : ptr[h] = Null)
Uses(H) ==
  /\ \A h \in H : ptr[h] \in Slot \/ (UseNull /\ ptr[h] = Null)
  /\ Stray(H)
-----------------------------------------------------------------------------
Init == ptr = [h \in Handle |-> Gone] /\ live = {} /\ fault = "none" /\ strayed = FALSE

(* The pool is asked to free, or to give up the value of, the slots P. *)
Release(P) ==
  fault' = IF Null \in P THEN "abort" ELSE IF P \subseteq live THEN fault ELSE "stale"
Freed(P) == Release(P) /\ live' = live \ P

(* It gives up those of P, and a new value then takes any free slot, p. *)
Replaced(P, p) ==
  /\ Release(P)
  /\ p \notin live \ P
  /\ live' = (live \ P) \cup {p}

(* make_const, make_var: a new object owning a new slot. *)
Make(h, p) ==
  /\ ~Alive(h)
  /\ Uses({})
  /\ Replaced({}, p)
  /\ ptr' = [ptr EXCEPT ![h] = p]

(* g->clone(): asserts that the pointer is not null. *)
Clone(g, h, p) ==
  /\ Uses({g}) /\ ~Alive(h)
  /\ p \notin live
  /\ live' = live \cup {p}
  /\ ptr' = [ptr EXCEPT ![h] = p]
  /\ fault' = IF ptr[g] = Null THEN "abort" ELSE IF ptr[g] \in live THEN fault ELSE "stale"

(* Mutant of MoveConstruct: the source keeps its pointer. *)
MoveConstructShared(g, h) ==
  /\ Alive(g) /\ ~Alive(h)
  /\ ptr' = [ptr EXCEPT ![h] = ptr[g]]
  /\ UNCHANGED <<live, fault, strayed>>

MoveConstruct(g, h) ==
  /\ Alive(g) /\ ~Alive(h)
  /\ ptr' = [ptr EXCEPT ![h] = ptr[g], ![g] = Null]
  /\ UNCHANGED <<live, fault, strayed>>

(* Mutant of MoveAssign: what h holds is not freed. *)
MoveAssignLeaks(g, h) ==
  /\ Alive(g) /\ Alive(h) /\ Stray({h})
  /\ ptr' = IF ptr[g] = ptr[h] THEN ptr ELSE [ptr EXCEPT ![h] = ptr[g], ![g] = Null]
  /\ UNCHANGED <<live, fault>>

(* h = std::move(g): what h holds is freed, unless the pointers are equal,   *)
(* as they are in a self-assignment.                                         *)
MoveAssign(g, h) ==
  /\ Alive(g) /\ Alive(h) /\ Stray({h})
  /\ IF ptr[g] = ptr[h] THEN UNCHANGED <<ptr, live, fault>>
     ELSE /\ Freed({ptr[h]})
          /\ ptr' = [ptr EXCEPT ![h] = ptr[g], ![g] = Null]

(* reduce, and simplify when it succeeds. *)
Rewrite(h, p) ==
  /\ Uses({h})
  /\ Replaced({ptr[h]}, p)
  /\ ptr' = [ptr EXCEPT ![h] = p]

(* simplify, when the solver rejects the expression: null is returned. *)
SimplifyFails(h) ==
  /\ Uses({h})
  /\ Freed({ptr[h]})
  /\ ptr' = [ptr EXCEPT ![h] = Null]

(* Mutant of Binary: the right operand keeps its pointer. *)
BinaryKeepsRight(f, g, h, p) ==
  /\ f # g /\ Uses({f, g}) /\ ~Alive(h)
  /\ Replaced({ptr[f], ptr[g]}, p)
  /\ ptr' = [ptr EXCEPT ![f] = Null, ![h] = p]

(* A binary operator: the operands, moved in, are taken out of their slots. *)
Binary(f, g, h, p) ==
  /\ f # g /\ Uses({f, g}) /\ ~Alive(h)
  /\ Replaced({ptr[f], ptr[g]}, p)
  /\ ptr' = [ptr EXCEPT ![f] = Null, ![g] = Null, ![h] = p]

Unary(g, h, p) ==
  /\ Uses({g}) /\ ~Alive(h)
  /\ Replaced({ptr[g]}, p)
  /\ ptr' = [ptr EXCEPT ![g] = Null, ![h] = p]

(* Program::push_assign: the expression is the program's, accepted or not. *)
PushAssign(h) ==
  /\ Uses({h})
  /\ Freed({ptr[h]})
  /\ ptr' = [ptr EXCEPT ![h] = Null]

(* Mutant of Destroy: null is passed to the pool. *)
DestroyUnchecked(h) ==
  /\ Alive(h)
  /\ Freed({ptr[h]})
  /\ UNCHANGED strayed
  /\ ptr' = [ptr EXCEPT ![h] = Gone]

Destroy(h) ==
  /\ Alive(h)
  /\ IF ptr[h] = Null THEN UNCHANGED <<live, fault>> ELSE Freed({ptr[h]})
  /\ UNCHANGED strayed
  /\ ptr' = [ptr EXCEPT ![h] = Gone]

Next ==
  /\ fault = "none"
  /\ \/ \E h \in Handle, p \in Slot : Make(h, p) \/ Rewrite(h, p)
     \/ \E g, h \in Handle, p \in Slot : Clone(g, h, p) \/ Unary(g, h, p)
     \/ \E f, g, h \in Handle, p \in Slot : Binary(f, g, h, p)
     \/ \E g, h \in Handle : MoveConstruct(g, h) \/ MoveAssign(g, h)
     \/ \E h \in Handle : SimplifyFails(h) \/ PushAssign(h) \/ Destroy(h)

Spec == Init /\ [][Next]_vars
-----------------------------------------------------------------------------
(* A slot in use is owned by exactly one object, and an object owns a slot   *)
(* in use, until the process aborts: nothing leaks or dangles, whatever the  *)
(* client moves, assigns, combines and destroys.                             *)
SoleOwner ==
  fault # "abort" =>
    /\ live = {ptr[h] : h \in Owning}
    /\ \A g, h \in Owning : ptr[g] = ptr[h] => g = h

(* No slot is freed, taken or read that is not in use, even by a client that *)
(* uses objects it has moved from.                                           *)
NeverStale == fault # "stale"

(* A client that keeps away from objects holding null never makes the pool   *)
(* panic: destructors and moves from such objects pass it nothing.           *)
OnlyStrayersAbort == fault = "abort" => strayed

(* rumba_expr_free: "Caller promises ptr is valid and from POOL".  The       *)
(* wrapper keeps the promise for a client that calls no operation on an      *)
(* object holding null, though it may assign a new value to one.             *)
PromiseKept == fault = "none"
=============================================================================
