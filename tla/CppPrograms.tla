---------------------------- MODULE CppPrograms ----------------------------
(***************************************************************************)
(* All classes of the C++ wrapper (bindings/c/csrc/rumba.cpp) over the C   *)
(* functions (bindings/c/src/lib.rs): the owning Expression of CppHandles, *)
(* Program, which owns a slot of a pool of its own, and ExpressionRef and  *)
(* Instruction, which own nothing and point into what an Expression or a   *)
(* Program holds.                                                          *)
(*                                                                         *)
(* A client knows of a reference which object it was taken from, and gives *)
(* it up when it changes, consumes or destroys that object.  The memory    *)
(* knows only slots.  That the two agree is what is to be shown.           *)
(*                                                                         *)
(* Of a program's instructions only the number is kept: Program has them.  *)
(***************************************************************************)
EXTENDS CppHandles

CONSTANTS
  Object,   \* C++ objects of class Program
  Place,    \* slots of PROGRAM_POOL
  Ref,      \* C++ objects of class ExpressionRef or Instruction
  MaxSize   \* bound: instructions of a program

ASSUME ProgramsAssumption ==
  /\ Null \notin Place /\ Gone \notin Place /\ Place \cap Slot = {}
  /\ Gone \notin Handle \cup Object /\ Handle \cap Object = {}
  /\ MaxSize \in Nat

VARIABLES
  prog,     \* ptr_ of each Program, Gone if there is no such object
  used,     \* slots of PROGRAM_POOL in use
  size,     \* number of instructions of the program in each slot
  ref,      \* of each reference: root, the object it was taken from, at, the
            \* slot it points into, good, whether what it pointed to is still
            \* there, and what, the kind of thing it points to
  error,    \* has LAST_ERROR a message?
  wrong,    \* as fault, for programs and references
  misused   \* history: has a client copied a Program, or used a null reference?

programVars == <<prog, used, size>>
allVars == <<vars, programVars, ref, error, wrong, misused>>

NoRef == [root |-> Gone, at |-> Null, good |-> TRUE, what |-> "expression"]
Refs == [root : Handle \cup Object \cup {Gone}, at : Slot \cup Place \cup {Null},
         good : BOOLEAN, what : {"expression", "assign", "unknown"}]

ProgramsTypeOK ==
  /\ prog \in [Object -> Place \cup {Gone}]
  /\ used \in SUBSET Place
  /\ size \in [Place -> 0 .. MaxSize]
  /\ ref \in [Ref -> Refs]
  /\ error \in BOOLEAN
  /\ wrong \in {"none", "abort", "stale"}
  /\ misused \in SUBSET {"copied", "null"}

ProgramsInit ==
  /\ Init
  /\ prog = [g \in Object |-> Gone] /\ used = {} /\ size = [q \in Place |-> 0]
  /\ ref = [r \in Ref |-> NoRef]
  /\ error = FALSE /\ wrong = "none" /\ misused = {}
-----------------------------------------------------------------------------
(* What a reference points to is still there: its slot is in use, and is not *)
(* one of those written, P.                                                  *)
StillGood(r, P) == ref[r].good /\ ref[r].at \in (live' \cup used' \cup {Null}) \ P

(* The references once the client has given up those into objects H. *)
Disturbed(H, P) ==
  ref' = [r \in Ref |-> IF ref[r].root \in H THEN NoRef
                        ELSE [ref[r] EXCEPT !.good = StillGood(r, P)]]

(* What g holds is now held by h: so are the references into it. *)
Transferred(g, h) ==
  ref' = [r \in Ref |-> IF ref[r].root = h THEN NoRef
                        ELSE [ref[r] EXCEPT !.root = IF @ = g THEN h ELSE @,
                                            !.good = StillGood(r, {})]]

(* Expressions, as in CppHandles.  A pool may give a slot again that the     *)
(* call has just freed.                                                      *)
Keep == \E h \in Handle, p \in Slot :
  (Make(h, p) \/ \E g \in Handle : Clone(g, h, p)) /\ UNCHANGED <<ref, error>>
Change == \E h \in Handle, p \in Slot :
  Rewrite(h, p) /\ Disturbed({h}, {p}) /\ UNCHANGED error
Fail == \E h \in Handle :
  SimplifyFails(h) /\ Disturbed({h}, {}) /\ error' = TRUE
Consume == \E f, g, h \in Handle, p \in Slot :
  /\ Binary(f, g, h, p) \/ (f = g /\ Unary(g, h, p))
  /\ Disturbed({f, g}, {p})
  /\ UNCHANGED error
Discard == \E h \in Handle :
  Destroy(h) /\ Disturbed({h}, {}) /\ UNCHANGED error
Move == \E g, h \in Handle :
  /\ MoveConstruct(g, h) \/ MoveAssign(g, h)
  /\ IF ptr[g] = ptr[h] THEN UNCHANGED ref ELSE Transferred(g, h)
  /\ UNCHANGED error

ExpressionStep ==
  /\ UNCHANGED <<programVars, wrong, misused>>
  /\ Keep \/ Change \/ Fail \/ Consume \/ Discard \/ Move
-----------------------------------------------------------------------------
(* A call on the program of g, whose slot is read or written. *)
Called(g) ==
  /\ prog[g] # Gone
  /\ wrong' = IF prog[g] \in used THEN wrong ELSE "stale"

MakeProgram(g, q) ==
  /\ prog[g] = Gone /\ q \notin used
  /\ prog' = [prog EXCEPT ![g] = q]
  /\ used' = used \cup {q}
  /\ size' = [size EXCEPT ![q] = 0]
  /\ UNCHANGED <<vars, ref, error, wrong, misused>>

(* The class declares a destructor and neither copying nor moving: the       *)
(* compiler's copies share the pointer, and moves are copies.  An object     *)
(* assigned to forgets its own.                                              *)
CopyProgram(f, g) ==
  /\ prog[f] # Gone /\ prog[g] # prog[f]
  /\ prog' = [prog EXCEPT ![g] = prog[f]]
  /\ misused' = misused \cup {"copied"}
  /\ UNCHANGED <<vars, used, size, error, wrong>>
  /\ Disturbed({g}, {})

(* Mutant of DestroyProgram: the program is not freed. *)
DestroyProgramLeaks(g) ==
  /\ Called(g)
  /\ prog' = [prog EXCEPT ![g] = Gone]
  /\ UNCHANGED <<vars, used, size, error, misused>>
  /\ Disturbed({g}, {})

DestroyProgram(g) ==
  /\ Called(g)
  /\ used' = used \ {prog[g]}
  /\ prog' = [prog EXCEPT ![g] = Gone]
  /\ UNCHANGED <<vars, size, error, misused>>
  /\ Disturbed({g}, {})

(* The instructions are moved about when one is added, and when simplify     *)
(* takes them out and puts back those it keeps, all if it succeeds and those *)
(* it got to if it fails.                                                    *)
Accepted(g, H) ==
  /\ size[prog[g]] < MaxSize
  /\ size' = [size EXCEPT ![prog[g]] = @ + 1]
  /\ Disturbed({g} \cup H, {prog[g]})
  /\ UNCHANGED error
Rejected(H) == Disturbed(H, {}) /\ error' = TRUE /\ UNCHANGED size

PushUnknown(g) ==
  /\ Called(g)
  /\ UNCHANGED <<vars, prog, used, misused>>
  /\ Accepted(g, {}) \/ Rejected({})

(* push_assign(e): e is taken out of its slot, then pushed. *)
PushExpression(g, h) ==
  /\ Called(g)
  /\ PushAssign(h)
  /\ UNCHANGED <<prog, used, misused>>
  /\ Accepted(g, {h}) \/ Rejected({h})

SimplifyProgram(g) ==
  /\ Called(g)
  /\ UNCHANGED <<vars, prog, used, misused>>
  /\ \E n \in 0 .. size[prog[g]] : size' = [size EXCEPT ![prog[g]] = n]
  /\ Disturbed({g}, {prog[g]})
  /\ error' \in {error, TRUE}

(* get(i): the i-th instruction, or null if there are not so many. *)
Get(g, i, r, what) ==
  /\ Called(g)
  /\ ref' = [ref EXCEPT ![r] =
               [root |-> g, good |-> TRUE, what |-> what,
                at |-> IF i < size[prog[g]] THEN prog[g] ELSE Null]]
  /\ UNCHANGED <<vars, programVars, error, misused>>
-----------------------------------------------------------------------------
(* *e, e->: no call is made yet. *)
View(h, r) ==
  /\ Alive(h) /\ (ptr[h] # Null \/ UseNull)
  /\ ref' = [ref EXCEPT ![r] =
               [root |-> h, at |-> ptr[h], good |-> ptr[h] \in live \cup {Null},
                what |-> "expression"]]
  /\ UNCHANGED <<vars, programVars, error, wrong, misused>>

(* A call through a reference: the C functions assert that it is not null. *)
Through(r) ==
  /\ ref[r].root # Gone /\ (ref[r].at # Null \/ UseNull)
  /\ wrong' = IF ref[r].at = Null THEN "abort" ELSE IF ref[r].good THEN wrong ELSE "stale"
  /\ misused' = misused \cup (IF ref[r].at = Null THEN {"null"} ELSE {})

(* size, eval, to_string, and what data says of the node itself. *)
Read(r) ==
  /\ Through(r) /\ ref[r].what = "expression"
  /\ UNCHANGED <<vars, programVars, ref, error>>

(* The children of an expression. *)
Child(r, s) ==
  /\ Through(r) /\ ref[r].what = "expression"
  /\ ref' = [ref EXCEPT ![s] = ref[r]]
  /\ UNCHANGED <<vars, programVars, error>>

(* kind, ty and id of an instruction, and its arguments, of which an         *)
(* assignment has none: to ask for them is an error.                         *)
ReadInstruction(r) ==
  /\ Through(r) /\ ref[r].what # "expression"
  /\ error' \in IF ref[r].what = "assign" THEN {error, TRUE} ELSE {error}
  /\ UNCHANGED <<vars, programVars, ref>>

(* The expression of an assignment; of another instruction null. *)
ExpressionOf(r, s) ==
  /\ Through(r) /\ ref[r].what # "expression"
  /\ IF ref[r].what = "unknown"
     THEN /\ ref' = [ref EXCEPT ![s] = [NoRef EXCEPT !.root = ref[r].root]]
          /\ error' = TRUE
     ELSE /\ ref' = [ref EXCEPT ![s] = [ref[r] EXCEPT !.what = "expression"]]
          /\ UNCHANGED error
  /\ UNCHANGED <<vars, programVars>>

(* clone(), of any expression that can be reached. *)
CloneReached(r, h, p) ==
  /\ Through(r) /\ ref[r].what = "expression"
  /\ Make(h, p)
  /\ UNCHANGED <<programVars, ref, error>>

ProgramStep ==
  \/ \E g \in Object, q \in Place : MakeProgram(g, q)
  \/ \E f, g \in Object : CopyProgram(f, g)
  \/ \E g \in Object : DestroyProgram(g) \/ PushUnknown(g) \/ SimplifyProgram(g)
  \/ \E g \in Object, h \in Handle : PushExpression(g, h)
  \/ \E g \in Object, i \in 0 .. MaxSize, r \in Ref, what \in {"assign", "unknown"} :
       Get(g, i, r, what)

ReferenceStep ==
  \/ \E h \in Handle, r \in Ref : View(h, r)
  \/ \E r \in Ref : Read(r) \/ ReadInstruction(r)
  \/ \E r, s \in Ref : Child(r, s) \/ ExpressionOf(r, s)
  \/ \E r \in Ref, h \in Handle, p \in Slot : CloneReached(r, h, p)

ProgramsNext ==
  /\ fault = "none" /\ wrong = "none"
  /\ ExpressionStep \/ ProgramStep \/ ReferenceStep

ProgramsSpec == ProgramsInit /\ [][ProgramsNext]_allVars
-----------------------------------------------------------------------------
(* Each slot of either pool is owned by exactly one object: nothing leaks or *)
(* dangles, whatever a client does with Expressions, and with Programs as    *)
(* long as it does not copy them.                                            *)
SoleOwners ==
  /\ SoleOwner
  /\ "copied" \notin misused =>
       /\ used = {prog[g] : g \in Object} \ {Gone}
       /\ \A f, g \in Object : prog[f] = prog[g] /\ prog[f] # Gone => f = g

(* A client that has copied no Program, and gives up the references into an  *)
(* object when it changes, consumes or destroys the object, touches no slot  *)
(* that is not in use and reads through no reference what is gone.  Moving   *)
(* an Expression, and what is done to other objects, does no harm.           *)
NothingStale == NeverStale /\ (wrong = "stale" => "copied" \in misused)

(* Only a client that uses an object or a reference holding null, or assigns *)
(* to such an object, can make the process abort.                            *)
OnlyNullAborts == OnlyStrayersAbort /\ (wrong = "abort" => "null" \in misused)
=============================================================================
