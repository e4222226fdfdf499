------------------------------ MODULE Program ------------------------------
(***************************************************************************)
(* The rumba IR (core/src/lang.rs): a list of single-assignment            *)
(* instructions, `v = expression' or `v = unknown(args)', with a def-use   *)
(* map kept beside it.  Clients push instructions and call simplify, which *)
(* inlines every assignment into the later ones, simplifies each           *)
(* expression, and sweeps the assignments nobody uses any more.            *)
(*                                                                         *)
(* An expression is reduced to the set of variables it mentions (vars) and *)
(* to its value, the XOR of a set of variables (val, part of vars): enough *)
(* to tell an inlining or a simplification that changes the value from one *)
(* that does not, and a mention from a real dependence.  All instructions  *)
(* have one width: the source leaves mixed widths as a TODO (lang.rs:247). *)
(* The argument list of an unknown instruction is a set.                   *)
(*                                                                         *)
(* simplify is one call in the code; here it is a run of steps, one per    *)
(* instruction and one per removal, and no push comes in between.          *)
(***************************************************************************)
EXTENDS Naturals, Sequences, FiniteSets

CONSTANTS
  Id,         \* variable identifiers
  MaxRejectAt \* bound: pushes are rejected in programs of at most this length

ASSUME ProgramAssumption == MaxRejectAt \in Nat

Kinds == {"assign", "unknown"}

(* A body is what is right of `v =' : an expression or an argument list. *)
Expr == {e \in [vars : SUBSET Id, val : SUBSET Id] : e.val \subseteq e.vars}
Insn == {b \in [kind : Kinds, vars : SUBSET Id, val : SUBSET Id] :
           b.val \subseteq b.vars /\ (b.kind = "unknown" => b.val = {})}
NoInsn == [kind |-> "unknown", vars |-> {}, val |-> {}]

VARIABLES
  order,     \* insns, the IndexMap: identifiers in insertion order
  body,      \* insns: the instruction of each identifier
  declared,  \* the keys of users
  users,     \* users[v]: the instructions recorded as using v
  pc,        \* "idle", or the phase simplify is in: "inline", "sweep"
  todo,      \* inline: the instructions taken out of insns, yet to process
  queue,     \* sweep: the dead assignments of the latest scan, yet to remove
  rejected,  \* history: has some push been rejected?
  value      \* history: the XOR of unknowns each identifier stood for when pushed

vars == <<order, body, declared, users, pc, todo, queue, rejected, value>>

Elems(s) == {s[i] : i \in DOMAIN s}

(* The members of s that are in S, in their order. *)
Kept(s, S) ==
  LET f[i \in 0 .. Len(s)] ==
        IF i = 0 THEN <<>>
        ELSE IF s[i] \in S THEN Append(f[i - 1], s[i]) ELSE f[i - 1]
  IN f[Len(s)]
Without(s, x) == Kept(s, Elems(s) \ {x})

(* Members of an odd number of the sets f[v], v in S. *)
XorOf(f, S) == {w \in Id : Cardinality({v \in S : w \in f[v]}) % 2 = 1}
SymDiff(S, T) == (S \ T) \cup (T \ S)

Insns == Elems(order) \cup Elems(todo)
Is(k, v) == body[v].kind = k
Assigns == {v \in Insns : Is("assign", v)}
Unknowns == {v \in Insns : Is("unknown", v)}

TypeOK ==
  /\ order \in Seq(Id) /\ todo \in Seq(Id) /\ queue \in Seq(Id)
  /\ Cardinality(Insns) = Len(order \o todo)
  /\ body \in [Id -> Insn]
  /\ declared \in SUBSET Id
  /\ users \in [Id -> SUBSET Id]
  /\ pc \in {"idle", "inline", "sweep"}
  /\ rejected \in BOOLEAN
  /\ value \in [Id -> SUBSET Id]
-----------------------------------------------------------------------------
Init ==
  /\ order = <<>>
  /\ body = [v \in Id |-> NoInsn]
  /\ declared = {}
  /\ users = [v \in Id |-> {}]
  /\ pc = "idle"
  /\ todo = <<>>
  /\ queue = <<>>
  /\ rejected = FALSE
  /\ value = [v \in Id |-> {}]

(* users with id recorded under, or struck from, every variable of S. *)
AddUses(id, S) == [v \in Id |-> IF v \in S THEN users[v] \cup {id} ELSE users[v]]
(* Mutant of DropUses: the uses of the old expression stay. *)
DropNone(id, S) == users

DropUses(id, S) == [v \in Id |-> IF v \in S THEN users[v] \ {id} ELSE users[v]]

(* Mutant of Push: add_def does not refuse an identifier already declared. *)
PushAgain(id, b) ==
  /\ b.vars \subseteq declared
  /\ users' = [AddUses(id, b.vars) EXCEPT ![id] = {}]
  /\ declared' = declared \cup {id}
  /\ body' = [body EXCEPT ![id] = b]
  /\ order' = Append(order, id)
  /\ value' = [value EXCEPT ![id] =
                 IF b.kind = "unknown" THEN {id} ELSE XorOf(value, b.val)]
  /\ UNCHANGED <<pc, todo, queue, rejected>>

(* push: every variable is declared, the identifier is new. *)
Push(id, b) ==
  /\ b.vars \subseteq declared
  /\ id \notin declared
  /\ users' = [AddUses(id, b.vars) EXCEPT ![id] = {}]
  /\ declared' = declared \cup {id}
  /\ body' = [body EXCEPT ![id] = b]
  /\ order' = Append(order, id)
  /\ value' = [value EXCEPT ![id] =
                 IF b.kind = "unknown" THEN {id} ELSE XorOf(value, b.val)]
  /\ UNCHANGED <<pc, todo, queue, rejected>>

(* push, rejected by add_uses: some variable has no entry in users.  The     *)
(* variables are visited in hash order, so any of the others may already     *)
(* have recorded the use.                                                    *)
PushUndefined(id, b) ==
  /\ Len(order) <= MaxRejectAt
  /\ ~(b.vars \subseteq declared)
  /\ \E S \in SUBSET (b.vars \cap declared) : users' = AddUses(id, S)
  /\ rejected' = TRUE
  /\ UNCHANGED <<order, body, declared, pc, todo, queue, value>>

(* push, rejected by add_def: the uses are recorded, and HashMap::insert has *)
(* replaced the entry of the variable that is already declared.              *)
PushRedeclared(id, b) ==
  /\ Len(order) <= MaxRejectAt
  /\ b.vars \subseteq declared
  /\ id \in declared
  /\ users' = [AddUses(id, b.vars) EXCEPT ![id] = {}]
  /\ rejected' = TRUE
  /\ UNCHANGED <<order, body, declared, pc, todo, queue, value>>

(* simplify starts by taking all instructions out of the program. *)
SimplifyBegin ==
  /\ pc = "idle"
  /\ order # <<>>
  /\ todo' = order
  /\ order' = <<>>
  /\ pc' = "inline"
  /\ UNCHANGED <<body, declared, users, queue, value, rejected>>

(* Mutant of Inlined: a value that comes in twice is counted once.          *)
InlinedOnce(id) ==
  LET e == body[id]
      A == {v \in e.vars : Is("assign", v)} IN
    [vars |-> (e.vars \ A) \cup UNION {body[v].vars : v \in A},
     val  |-> (e.val \ A) \cup UNION {body[v].val : v \in e.val \cap A}]

(* The expression of id with each variable that is an assignment replaced by *)
(* its expression.  The replacements mention no assignment, since those       *)
(* before id are simplified, so the order of replacement, the hash order of  *)
(* get_vars, does not matter.                                                *)
Inlined(id) ==
  LET e == body[id]
      A == {v \in e.vars : Is("assign", v)} IN
    [vars |-> (e.vars \ A) \cup UNION {body[v].vars : v \in A},
     val  |-> SymDiff(e.val \ A, XorOf([v \in Id |-> body[v].val], e.val \cap A))]

(* What simplify_mba may return: the same value, mentioning no new variable; *)
(* the expression itself when the solver rejects it.                         *)
Simplified(e) == {f \in Expr : f.val = e.val /\ f.vars \subseteq e.vars}

(* simplify_insn on an assignment. *)
InlineAssign ==
  /\ pc = "inline" /\ todo # <<>>
  /\ LET id == Head(todo) IN
       /\ Is("assign", id)
       /\ \E f \in Simplified(Inlined(id)) :
            /\ body' = [body EXCEPT ![id] =
                          [kind |-> "assign", vars |-> f.vars, val |-> f.val]]
            /\ users' = [v \in Id |-> IF v \in f.vars
                                      THEN users[v] \cup {id}
                                      ELSE DropUses(id, body[id].vars)[v]]
       /\ order' = Append(order, id)
  /\ todo' = Tail(todo)
  /\ UNCHANGED <<declared, pc, queue, value, rejected>>

(* simplify_insn leaves any other instruction alone. *)
InlineUnknown ==
  /\ pc = "inline" /\ todo # <<>>
  /\ Is("unknown", Head(todo))
  /\ order' = Append(order, Head(todo))
  /\ todo' = Tail(todo)
  /\ UNCHANGED <<body, declared, users, pc, queue, value, rejected>>

(* Mutants of Dead: one user is taken for none; any instruction may be dead. *)
DeadUsedOnce(v) == Is("assign", v) /\ Cardinality(users[v]) <= 1
DeadAny(v) == users[v] = {}

Dead(v) == Is("assign", v) /\ users[v] = {}

(* remove_dead scans the program for assignments without users ... *)
SweepScan ==
  /\ \/ pc = "inline" /\ todo = <<>>
     \/ pc = "sweep" /\ queue = <<>>
  /\ queue' = Kept(order, {v \in Elems(order) : Dead(v)})
  /\ pc' = IF queue' = <<>> THEN "idle" ELSE "sweep"
  /\ UNCHANGED <<order, body, declared, users, todo, value, rejected>>

(* Mutants of SweepRemove: users keeps its key; the instruction stays.       *)
SweepRemoveKey ==
  /\ pc = "sweep" /\ queue # <<>>
  /\ LET id == Head(queue) IN
       /\ order' = Without(order, id)
       /\ users' = [DropUses(id, body[id].vars) EXCEPT ![id] = {}]
       /\ body' = [body EXCEPT ![id] = NoInsn]
       /\ value' = [value EXCEPT ![id] = {}]
  /\ queue' = Tail(queue)
  /\ UNCHANGED <<declared, pc, todo, rejected>>
SweepRemoveUses ==
  /\ pc = "sweep" /\ queue # <<>>
  /\ LET id == Head(queue) IN
       users' = [DropUses(id, body[id].vars) EXCEPT ![id] = {}]
  /\ queue' = Tail(queue)
  /\ UNCHANGED <<order, body, declared, pc, todo, rejected, value>>

(* ... and removes those of the scan one by one. *)
SweepRemove ==
  /\ pc = "sweep" /\ queue # <<>>
  /\ LET id == Head(queue) IN
       /\ order' = Without(order, id)
       /\ declared' = declared \ {id}
       /\ users' = [DropUses(id, body[id].vars) EXCEPT ![id] = {}]
       /\ body' = [body EXCEPT ![id] = NoInsn]
       /\ value' = [value EXCEPT ![id] = {}]
  /\ queue' = Tail(queue)
  /\ UNCHANGED <<pc, todo, rejected>>

SimplifyStep == SimplifyBegin \/ InlineAssign \/ InlineUnknown \/ SweepScan \/ SweepRemove

Next ==
  \/ /\ pc = "idle"
     /\ \E id \in Id, b \in Insn :
          Push(id, b) \/ PushUndefined(id, b) \/ PushRedeclared(id, b)
  \/ SimplifyStep

Spec == Init /\ [][Next]_vars
-----------------------------------------------------------------------------
(* The def-use map is exact as long as no push is rejected: users[v] holds   *)
(* the instructions that mention v and no other, through inlining and        *)
(* sweeping.                                                                 *)
UsesExact ==
  ~rejected =>
    /\ declared = Insns
    /\ \A v \in declared : users[v] = {u \in Insns : v \in body[u].vars}

(* Every argument an unknown instruction names is defined, if no push was    *)
(* rejected: no sweep removes an assignment that is still used.              *)
ArgsDefined == ~rejected => \A u \in Unknowns : body[u].vars \subseteq Insns

(* Inlining finds what it needs: when simplify_insn reaches an assignment,   *)
(* each variable it mentions is an instruction already processed; and so does *)
(* the sweep: each identifier of the scan is, when its turn comes, a present  *)
(* assignment without recorded users whose variables are declared.  So no     *)
(* error path drops the rest of the program or leaves the sweep half done.    *)
SimplifyFinds ==
  /\ pc = "inline" /\ todo # <<>> /\ Is("assign", Head(todo)) =>
       /\ body[Head(todo)].vars \subseteq Elems(order)
       /\ Inlined(Head(todo)).vars \subseteq declared
  /\ pc = "sweep" =>
       \A v \in Elems(queue) :
         /\ v \in Elems(order) /\ Is("assign", v) /\ users[v] = {}
         /\ body[v].vars \subseteq declared \ Elems(queue)

(* Each assignment still computes what it computed when it was pushed: the   *)
(* values of its variables, as first pushed, XOR to its own.                 *)
ValueKept == \A a \in Assigns : XorOf(value, body[a].val) = value[a]

(* simplify keeps every unknown instruction, with its arguments, in place.    *)
UnknownSeq == Kept(order \o todo, Unknowns)
UnknownsKept ==
  [][SimplifyStep => /\ UnknownSeq' = UnknownSeq
                     /\ \A u \in Unknowns : body'[u] = body[u]]_vars

(* When simplify returns, and no push was rejected, every assignment left    *)
(* feeds an unknown instruction directly: nothing dead survives the sweep.   *)
NothingDeadLeft ==
  [][pc # "idle" /\ pc' = "idle" /\ ~rejected =>
       \A a \in Assigns' : \E u \in Unknowns' : a \in body'[u].vars]_vars

(* A call of simplify returns: each step takes some of the finite work left,  *)
(* which counts what is to inline, what is to sweep and a scan on its way.    *)
(* A scan that finds nothing ends the call, one that finds something removes  *)
(* at least one instruction before the next.                                  *)
Work ==
  IF pc = "idle" THEN 0
  ELSE 3 * Len(todo) + 2 * Len(order)
       + (IF pc = "inline" THEN 3 ELSE IF queue = <<>> THEN 2 ELSE 1)
SimplifyEnds == [][pc # "idle" => Work' < Work]_vars

(* remove: "Removes an unused assignement instruction". *)
RemovesUnused ==
  [][\A a \in Insns \ Insns' : \A u \in Insns : a \notin body[u].vars]_vars
=============================================================================
