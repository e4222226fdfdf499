-------------------------- MODULE CppHandlesProofs --------------------------
(***************************************************************************)
(* Proofs about the C++ objects, for every number of objects, slots and    *)
(* references and for clients of every kind: first about Expressions on    *)
(* their own, then about all classes, of which the former is what the      *)
(* Expressions do.                                                         *)
(***************************************************************************)
EXTENDS CppPrograms, TLAPS

(* SoleOwner, slot by slot. *)
Owned ==
  /\ \A h \in Handle : ptr[h] \in Slot => ptr[h] \in live
  /\ \A p \in live : \E h \in Handle : ptr[h] = p
  /\ \A g, h \in Handle : ptr[g] \in Slot /\ ptr[g] = ptr[h] => g = h

(* While the process runs, no call has gone wrong and every slot has its     *)
(* owner; once it is aborted there is someone to blame.                      *)
HandleInv ==
  /\ TypeOK /\ NeverStale /\ OnlyStrayersAbort
  /\ fault = "none" => Owned

LEMMA HandleInit == Init => HandleInv
  BY HandleAssumption
  DEF Init, HandleInv, TypeOK, NeverStale, OnlyStrayersAbort, Owned

(* What a call into the pool makes of the fault: null aborts, and slots that *)
(* objects own are in use.                                                   *)
LEMMA ReleaseOwned ==
  ASSUME fault = "none", NEW P, P \subseteq live \cup {Null}, Release(P)
  PROVE  /\ fault' \in {"none", "abort"}
         /\ fault' = "abort" <=> Null \in P
<1>1. Null \notin P => P \subseteq live
  OBVIOUS
<1> QED BY <1>1 DEF Release

(* An object that exists owns a slot in use, or holds null. *)
LEMMA AliveOwns ==
  ASSUME HandleInv, fault = "none", NEW h \in Handle, ptr[h] # Gone
  PROVE  ptr[h] \in live \cup {Null}
  BY DEF HandleInv, TypeOK, Owned

LEMMA MakeInv ==
  ASSUME HandleInv, fault = "none", NEW h \in Handle, NEW p \in Slot, Make(h, p)
  PROVE  HandleInv'
<1>1. /\ ptr' = [ptr EXCEPT ![h] = p] /\ live' = live \cup {p} /\ p \notin live
      /\ fault' = "none" /\ ptr[h] = Gone /\ strayed' = strayed
  BY DEF HandleInv, TypeOK, Make, Replaced, Release, Uses, Stray, Alive
<1>2. TypeOK'
  BY <1>1 DEF HandleInv, TypeOK
<1>3. Owned'
  BY <1>1, HandleAssumption DEF HandleInv, TypeOK, Owned
<1> QED BY <1>1, <1>2, <1>3 DEF HandleInv, NeverStale, OnlyStrayersAbort

LEMMA CloneInv ==
  ASSUME HandleInv, fault = "none", NEW g \in Handle, NEW h \in Handle,
         NEW p \in Slot, Clone(g, h, p)
  PROVE  HandleInv'
<1>1. /\ ptr' = [ptr EXCEPT ![h] = p] /\ live' = live \cup {p} /\ p \notin live
      /\ ptr[h] = Gone
      /\ strayed' = (strayed \/ ptr[g] = Null)
      /\ fault' = IF ptr[g] = Null THEN "abort" ELSE "none"
  BY HandleAssumption DEF HandleInv, Owned, Clone, Uses, Stray, Alive
<1>2. TypeOK'
  BY <1>1 DEF HandleInv, TypeOK
<1>3. Owned'
  BY <1>1, HandleAssumption DEF HandleInv, TypeOK, Owned
<1> QED BY <1>1, <1>2, <1>3 DEF HandleInv, NeverStale, OnlyStrayersAbort

LEMMA MoveConstructInv ==
  ASSUME HandleInv, fault = "none", NEW g \in Handle, NEW h \in Handle,
         MoveConstruct(g, h)
  PROVE  HandleInv'
<1>1. /\ ptr' = [ptr EXCEPT ![h] = ptr[g], ![g] = Null] /\ g # h
      /\ ptr[h] = Gone /\ UNCHANGED <<live, fault, strayed>>
  BY DEF MoveConstruct, Alive
<1>2. TypeOK'
  BY <1>1 DEF HandleInv, TypeOK
<1>3. Owned'
  BY <1>1, HandleAssumption DEF HandleInv, TypeOK, Owned
<1> QED BY <1>1, <1>2, <1>3 DEF HandleInv, NeverStale, OnlyStrayersAbort

LEMMA MoveAssignInv ==
  ASSUME HandleInv, fault = "none", NEW g \in Handle, NEW h \in Handle,
         MoveAssign(g, h)
  PROVE  HandleInv'
<1>0. strayed' = (strayed \/ ptr[h] = Null) /\ ptr[h] # Gone
  BY DEF MoveAssign, Stray, Alive
<1>1. CASE ptr[g] = ptr[h]
  <2>1. UNCHANGED <<ptr, live, fault>>
    BY <1>1 DEF MoveAssign
  <2> QED BY <1>0, <2>1
    DEF HandleInv, TypeOK, Owned, NeverStale, OnlyStrayersAbort
<1>2. CASE ptr[g] # ptr[h]
  <2>1. /\ ptr' = [ptr EXCEPT ![h] = ptr[g], ![g] = Null] /\ g # h
        /\ live' = live \ {ptr[h]}
    BY <1>2 DEF MoveAssign, Freed
  <2>2. Release({ptr[h]})
    BY <1>2 DEF MoveAssign, Freed
  <2>3. fault' \in {"none", "abort"} /\ (fault' = "abort" <=> ptr[h] = Null)
    BY <1>0, <2>2, AliveOwns, ReleaseOwned
  <2>4. TypeOK'
    BY <1>0, <2>1, <2>3 DEF HandleInv, TypeOK
  <2>5. Owned'
    BY <2>1, HandleAssumption DEF HandleInv, TypeOK, Owned
  <2> QED BY <1>0, <2>3, <2>4, <2>5 DEF HandleInv, NeverStale, OnlyStrayersAbort
<1> QED BY <1>1, <1>2

LEMMA RewriteInv ==
  ASSUME HandleInv, fault = "none", NEW h \in Handle, NEW p \in Slot, Rewrite(h, p)
  PROVE  HandleInv'
<1>1. /\ ptr' = [ptr EXCEPT ![h] = p]
      /\ p \notin live \ {ptr[h]} /\ live' = (live \ {ptr[h]}) \cup {p}
      /\ Release({ptr[h]})
      /\ ptr[h] # Gone /\ strayed' = (strayed \/ ptr[h] = Null)
  BY HandleAssumption DEF Rewrite, Replaced, Uses, Stray
<1>2. fault' \in {"none", "abort"} /\ (fault' = "abort" <=> ptr[h] = Null)
  BY <1>1, AliveOwns, ReleaseOwned
<1>3. TypeOK'
  BY <1>1, <1>2 DEF HandleInv, TypeOK
<1>4. Owned'
  BY <1>1, HandleAssumption DEF HandleInv, TypeOK, Owned
<1> QED BY <1>1, <1>2, <1>3, <1>4 DEF HandleInv, NeverStale, OnlyStrayersAbort

LEMMA GiveUpInv ==
  ASSUME HandleInv, fault = "none", NEW h \in Handle,
         SimplifyFails(h) \/ PushAssign(h)
  PROVE  HandleInv'
<1>1. /\ ptr' = [ptr EXCEPT ![h] = Null] /\ live' = live \ {ptr[h]}
      /\ Release({ptr[h]})
      /\ ptr[h] # Gone /\ strayed' = (strayed \/ ptr[h] = Null)
  BY HandleAssumption DEF SimplifyFails, PushAssign, Freed, Uses, Stray
<1>2. fault' \in {"none", "abort"} /\ (fault' = "abort" <=> ptr[h] = Null)
  BY <1>1, AliveOwns, ReleaseOwned
<1>3. TypeOK'
  BY <1>1, <1>2 DEF HandleInv, TypeOK
<1>4. Owned'
  BY <1>1, HandleAssumption DEF HandleInv, TypeOK, Owned
<1> QED BY <1>1, <1>2, <1>3, <1>4 DEF HandleInv, NeverStale, OnlyStrayersAbort

LEMMA DestroyInv ==
  ASSUME HandleInv, fault = "none", NEW h \in Handle, Destroy(h)
  PROVE  HandleInv'
<1>1. ptr' = [ptr EXCEPT ![h] = Gone] /\ ptr[h] # Gone /\ strayed' = strayed
  BY DEF Destroy, Alive
<1>2. fault' = "none" /\ live' = live \ {ptr[h]}
  <2>1. CASE ptr[h] = Null
    <3>1. live \ {Null} = live
      BY HandleAssumption DEF HandleInv, TypeOK
    <3> QED BY <2>1, <3>1 DEF Destroy
  <2>2. CASE ptr[h] # Null
    <3>1. Release({ptr[h]}) /\ live' = live \ {ptr[h]}
      BY <2>2 DEF Destroy, Freed
    <3> QED BY <1>1, <2>2, <3>1, AliveOwns, ReleaseOwned
  <2> QED BY <2>1, <2>2
<1>3. TypeOK'
  BY <1>1, <1>2 DEF HandleInv, TypeOK
<1>4. Owned'
  BY <1>1, <1>2, HandleAssumption DEF HandleInv, TypeOK, Owned
<1> QED BY <1>1, <1>2, <1>3, <1>4 DEF HandleInv, NeverStale, OnlyStrayersAbort

LEMMA UnaryInv ==
  ASSUME HandleInv, fault = "none", NEW g \in Handle, NEW h \in Handle,
         NEW p \in Slot, Unary(g, h, p)
  PROVE  HandleInv'
<1>1. /\ ptr' = [ptr EXCEPT ![g] = Null, ![h] = p]
      /\ p \notin live \ {ptr[g]} /\ live' = (live \ {ptr[g]}) \cup {p}
      /\ Release({ptr[g]})
      /\ ptr[g] # Gone /\ ptr[h] = Gone /\ strayed' = (strayed \/ ptr[g] = Null)
  BY HandleAssumption DEF Unary, Replaced, Uses, Stray, Alive
<1>2. fault' \in {"none", "abort"} /\ (fault' = "abort" <=> ptr[g] = Null)
  BY <1>1, AliveOwns, ReleaseOwned
<1>3. TypeOK'
  BY <1>1, <1>2 DEF HandleInv, TypeOK
<1>4. Owned'
  BY <1>1, HandleAssumption DEF HandleInv, TypeOK, Owned
<1> QED BY <1>1, <1>2, <1>3, <1>4 DEF HandleInv, NeverStale, OnlyStrayersAbort

LEMMA BinaryInv ==
  ASSUME HandleInv, fault = "none", NEW f \in Handle, NEW g \in Handle,
         NEW h \in Handle, NEW p \in Slot, Binary(f, g, h, p)
  PROVE  HandleInv'
<1> DEFINE P == {ptr[f], ptr[g]}
<1>1. /\ ptr' = [ptr EXCEPT ![f] = Null, ![g] = Null, ![h] = p]
      /\ p \notin live \ P /\ live' = (live \ P) \cup {p}
      /\ Release(P)
      /\ f # g /\ ptr[f] # Gone /\ ptr[g] # Gone /\ ptr[h] = Gone
      /\ strayed' = (strayed \/ Null \in P)
  BY HandleAssumption DEF Binary, Replaced, Uses, Stray, Alive
<1>2. fault' \in {"none", "abort"} /\ (fault' = "abort" <=> Null \in P)
  <2>1. P \subseteq live \cup {Null}
    BY <1>1, AliveOwns
  <2> HIDE DEF P
  <2> QED BY <1>1, <2>1, ReleaseOwned
<1>3. TypeOK'
  BY <1>1, <1>2 DEF HandleInv, TypeOK
<1>4. Owned'
  BY <1>1, HandleAssumption DEF HandleInv, TypeOK, Owned
<1> QED BY <1>1, <1>2, <1>3, <1>4 DEF HandleInv, NeverStale, OnlyStrayersAbort

LEMMA HandleStep == HandleInv /\ [Next]_vars => HandleInv'
<1>1. HandleInv /\ Next => HandleInv'
  BY MakeInv, CloneInv, MoveConstructInv, MoveAssignInv, RewriteInv, GiveUpInv,
     DestroyInv, UnaryInv, BinaryInv DEF Next
<1>2. HandleInv /\ UNCHANGED vars => HandleInv'
  BY DEF HandleInv, TypeOK, NeverStale, OnlyStrayersAbort, Owned, vars
<1> QED BY <1>1, <1>2

THEOREM HandleInvariant == Spec => []HandleInv
  BY HandleInit, HandleStep, PTL DEF Spec

(* Until the process aborts, each slot of the pool in use has exactly one    *)
(* owning Expression, and each pointer an Expression holds is in use.        *)
THEOREM SoleOwnerAlways == Spec => []SoleOwner
<1>1. HandleInv => SoleOwner
  BY DEF HandleInv, TypeOK, NeverStale, Owned, SoleOwner, Owning
<1> QED BY HandleInvariant, <1>1, PTL

(* No client of the wrapper makes it free, take or clone a slot not in use. *)
THEOREM NeverStaleAlways == Spec => []NeverStale
<1>1. HandleInv => NeverStale
  BY DEF HandleInv
<1> QED BY HandleInvariant, <1>1, PTL

(* The wrapper gives the pool null only for a client that used, or assigned  *)
(* to, an object holding null: destructors and moves alone never do.         *)
THEOREM StrayersOnly == Spec => []OnlyStrayersAbort
<1>1. HandleInv => OnlyStrayersAbort
  BY DEF HandleInv
<1> QED BY HandleInvariant, <1>1, PTL
-----------------------------------------------------------------------------
(* Every step of the whole wrapper is for its Expressions a step of their    *)
(* own, or none.                                                             *)
LEMMA StepsOfExpressions == [ProgramsNext]_allVars => [Next]_vars
<1>1. ASSUME fault = "none", ExpressionStep PROVE Next
  BY <1>1 DEF ExpressionStep, Keep, Change, Fail, Consume, Discard, Move, Next
<1>2. ASSUME fault = "none", ProgramStep PROVE Next \/ UNCHANGED vars
  BY <1>2 DEF ProgramStep, MakeProgram, CopyProgram, DestroyProgram, PushUnknown,
              PushExpression, SimplifyProgram, Get, Next
<1>3. ASSUME fault = "none", ReferenceStep PROVE Next \/ UNCHANGED vars
  BY <1>3 DEF ReferenceStep, View, Read, ReadInstruction, Child,
              ExpressionOf, CloneReached, Next
<1> QED BY <1>1, <1>2, <1>3 DEF ProgramsNext, allVars

THEOREM ExpressionsBehave == ProgramsSpec => Spec
<1>1. ProgramsInit => Init
  BY DEF ProgramsInit
<1> QED BY <1>1, StepsOfExpressions, PTL DEF ProgramsSpec, Spec

(* A slot of PROGRAM_POOL in use and the Program that owns it. *)
ProgramsOwned ==
  /\ \A g \in Object : prog[g] # Gone => prog[g] \in used
  /\ \A q \in used : \E g \in Object : prog[g] = q
  /\ \A f, g \in Object : prog[f] # Gone /\ prog[f] = prog[g] => f = g

(* A reference the client still has is null, or points into the slot that    *)
(* the object it was taken from owns, and what it pointed to is there.       *)
RefHeld(r) ==
  \/ ref[r].root = Gone
  \/ ref[r].at = Null
  \/ /\ ref[r].root \in Handle
     /\ ref[r].at = ptr[ref[r].root] /\ ref[r].at \in live /\ ref[r].good
  \/ /\ ref[r].root \in Object
     /\ "copied" \notin misused =>
          ref[r].at = prog[ref[r].root] /\ ref[r].at \in used /\ ref[r].good

Running == fault = "none" /\ wrong = "none"

ProgramsInv ==
  /\ ProgramsTypeOK
  /\ wrong = "stale" => "copied" \in misused
  /\ wrong = "abort" => "null" \in misused
  /\ "copied" \notin misused => ProgramsOwned
  /\ Running => \A r \in Ref : RefHeld(r)

LEMMA ProgramsInvInit == ProgramsInit => ProgramsInv
<1> SUFFICES ASSUME ProgramsInit PROVE ProgramsInv
  OBVIOUS
<1>1. NoRef \in Refs
  BY DEF NoRef, Refs
<1>2. ProgramsTypeOK
  <2>1. 0 \in 0 .. MaxSize
    BY ProgramsAssumption
  <2> QED BY <1>1, <2>1 DEF ProgramsInit, ProgramsTypeOK
<1>3. ProgramsOwned
  BY DEF ProgramsInit, ProgramsOwned
<1>4. \A r \in Ref : RefHeld(r)
  BY DEF ProgramsInit, RefHeld, NoRef
<1> QED BY <1>2, <1>3, <1>4 DEF ProgramsInit, ProgramsInv

(* Objects the client does not give up keep what they own, and what is in    *)
(* it; then so do the references into them.                                  *)
LEMMA DisturbedHeld ==
  ASSUME ref \in [Ref -> Refs], \A r \in Ref : RefHeld(r),
         NEW H, NEW P, Disturbed(H, P), misused \subseteq misused',
         P \cap {Null} = {},
         \A h \in Handle \ H : ptr[h] \in live =>
            ptr'[h] = ptr[h] /\ ptr[h] \in live' \ P,
         \A g \in Object \ H : "copied" \notin misused' /\ prog[g] \in used =>
            prog'[g] = prog[g] /\ prog[g] \in used' \ P
  PROVE  ref' \in [Ref -> Refs] /\ \A r \in Ref : RefHeld(r)'
<1>1. ref' \in [Ref -> Refs]
  BY DEF Disturbed, NoRef, Refs, StillGood
<1>2. ASSUME NEW r \in Ref PROVE RefHeld(r)'
  <2>1. CASE ref[r].root \in H
    BY <2>1 DEF Disturbed, RefHeld, NoRef
  <2>2. CASE ref[r].root \notin H
    <3>1. /\ ref'[r].root = ref[r].root /\ ref'[r].at = ref[r].at
          /\ ref'[r].good = StillGood(r, P)
      BY <2>2 DEF Disturbed, Refs
    <3>2. CASE ref[r].root \in Handle /\ ref[r].at = ptr[ref[r].root]
               /\ ref[r].at \in live /\ ref[r].good
      <4>1. StillGood(r, P) /\ ref[r].at = ptr'[ref[r].root] /\ ref[r].at \in live'
        BY <2>2, <3>2 DEF StillGood
      <4> QED BY <3>1, <3>2, <4>1 DEF RefHeld
    <3>3. CASE ref[r].root \in Object /\ "copied" \in misused'
      BY <3>1, <3>3 DEF RefHeld
    <3>4. CASE /\ ref[r].root \in Object /\ "copied" \notin misused'
               /\ ref[r].at = prog[ref[r].root] /\ ref[r].at \in used /\ ref[r].good
      <4>1. StillGood(r, P) /\ ref[r].at = prog'[ref[r].root] /\ ref[r].at \in used'
        BY <2>2, <3>4 DEF StillGood
      <4> QED BY <3>1, <3>4, <4>1 DEF RefHeld
    <3>5. CASE ref[r].root = Gone \/ ref[r].at = Null
      BY <3>1, <3>5 DEF RefHeld
    <3> QED BY <3>2, <3>3, <3>4, <3>5 DEF RefHeld
  <2> QED BY <2>1, <2>2
<1> QED BY <1>1, <1>2

LEMMA TransferredHeld ==
  ASSUME ref \in [Ref -> Refs], \A r \in Ref : RefHeld(r),
         NEW g \in Handle, NEW h \in Handle, g # h, Transferred(g, h),
         UNCHANGED <<prog, used, misused>>,
         ptr[g] \in live => ptr'[h] = ptr[g] /\ ptr[g] \in live',
         \A f \in Handle \ {g, h} : ptr[f] \in live =>
            ptr'[f] = ptr[f] /\ ptr[f] \in live'
  PROVE  ref' \in [Ref -> Refs] /\ \A r \in Ref : RefHeld(r)'
<1>1. ref' \in [Ref -> Refs]
  BY DEF Transferred, NoRef, Refs, StillGood
<1>2. ASSUME NEW r \in Ref PROVE RefHeld(r)'
  <2>1. CASE ref[r].root = h
    BY <2>1 DEF Transferred, RefHeld, NoRef
  <2>2. CASE ref[r].root # h
    <3>1. /\ ref'[r].root = IF ref[r].root = g THEN h ELSE ref[r].root
          /\ ref'[r].at = ref[r].at
          /\ ref'[r].good = StillGood(r, {})
      BY <2>2 DEF Transferred, Refs
    <3> QED BY <2>2, <3>1, ProgramsAssumption DEF RefHeld, StillGood
  <2> QED BY <2>1, <2>2
<1> QED BY <1>1, <1>2

(* What a step of the Expressions must show of the references, their part of *)
(* the invariant.                                                            *)
RefsHeld == ref \in [Ref -> Refs] /\ \A r \in Ref : RefHeld(r)

LEMMA ExpressionRefs ==
  ASSUME HandleInv, ProgramsInv, Running, ExpressionStep
  PROVE  RefsHeld' /\ error' \in BOOLEAN
<1> USE DEF RefsHeld
<1>1. /\ UNCHANGED <<prog, used, misused>> /\ used \subseteq Place
      /\ ref \in [Ref -> Refs] /\ \A r \in Ref : RefHeld(r)
      /\ error \in BOOLEAN /\ fault = "none" /\ Owned
      /\ ptr \in [Handle -> Slot \cup {Null, Gone}] /\ live \subseteq Slot
  BY DEF ExpressionStep, programVars, ProgramsInv, ProgramsTypeOK, Running,
         HandleInv, TypeOK
<1>2. ASSUME NEW P, P \subseteq Slot
      PROVE  /\ P \cap {Null} = {}
             /\ \A g \in Object : prog[g] \in used =>
                   prog'[g] = prog[g] /\ prog[g] \in used' \ P
  BY <1>1, <1>2, HandleAssumption, ProgramsAssumption
<1>3. CASE Keep
  <2>1. PICK h \in Handle, p \in Slot :
          /\ ptr[h] = Gone /\ ptr' = [ptr EXCEPT ![h] = p]
          /\ live' = live \cup {p} /\ UNCHANGED <<ref, error>>
    BY <1>3 DEF Keep, Make, Clone, Replaced, Alive
  <2>2. ASSUME NEW r \in Ref PROVE RefHeld(r)'
    BY <1>1, <2>1, HandleAssumption DEF RefHeld
  <2> QED BY <1>1, <2>1, <2>2
<1>4. CASE Change
  <2>1. PICK h \in Handle, p \in Slot :
          /\ ptr' = [ptr EXCEPT ![h] = p]
          /\ p \notin live \ {ptr[h]} /\ live' = (live \ {ptr[h]}) \cup {p}
          /\ Disturbed({h}, {p}) /\ UNCHANGED error
    BY <1>4 DEF Change, Rewrite, Replaced
  <2>2. \A g \in Handle \ {h} : ptr[g] \in live =>
          ptr'[g] = ptr[g] /\ ptr[g] \in live' \ {p}
    BY <1>1, <2>1 DEF Owned
  <2> QED BY <1>1, <1>2, <2>1, <2>2, DisturbedHeld
<1>5. CASE Fail \/ Discard
  <2>1. PICK h \in Handle :
          /\ \A g \in Handle \ {h} : ptr'[g] = ptr[g]
          /\ live' = live \ {ptr[h]} \/ (live' = live /\ ptr[h] = Null)
          /\ Disturbed({h}, {}) /\ error' \in BOOLEAN
    BY <1>1, <1>5 DEF Fail, Discard, SimplifyFails, Destroy, Freed
  <2>2. \A g \in Handle \ {h} : ptr[g] \in live =>
          ptr'[g] = ptr[g] /\ ptr[g] \in live' \ {}
    BY <1>1, <2>1 DEF Owned
  <2> QED BY <1>1, <1>2, <2>1, <2>2, DisturbedHeld
<1>6. CASE Consume
  <2>1. PICK f \in Handle, g \in Handle, h \in Handle, p \in Slot :
          /\ ptr[h] = Gone
          /\ ptr' = [ptr EXCEPT ![f] = Null, ![g] = Null, ![h] = p]
          /\ p \notin live \ {ptr[f], ptr[g]}
          /\ live' = (live \ {ptr[f], ptr[g]}) \cup {p}
          /\ Disturbed({f, g}, {p}) /\ UNCHANGED error
    <3>1. PICK f \in Handle, g \in Handle, h \in Handle, p \in Slot :
            /\ Binary(f, g, h, p) \/ (f = g /\ Unary(g, h, p))
            /\ Disturbed({f, g}, {p}) /\ UNCHANGED error
      BY <1>6 DEF Consume
    <3>2. CASE Binary(f, g, h, p)
      BY <3>1, <3>2 DEF Binary, Replaced, Alive
    <3>3. CASE f = g /\ Unary(g, h, p)
      <4>1. {ptr[f], ptr[g]} = {ptr[g]} /\ ptr' = [ptr EXCEPT ![g] = Null, ![h] = p]
        BY <3>3 DEF Unary
      <4>2. ptr' = [ptr EXCEPT ![f] = Null, ![g] = Null, ![h] = p]
        BY <1>1, <3>3, <4>1
      <4> QED BY <3>1, <3>3, <4>1, <4>2 DEF Unary, Replaced, Alive
    <3> QED BY <3>1, <3>2, <3>3
  <2>2. \A k \in Handle \ {f, g} : ptr[k] \in live =>
          ptr'[k] = ptr[k] /\ ptr[k] \in live' \ {p}
    BY <1>1, <2>1, HandleAssumption DEF Owned
  <2> QED BY <1>1, <1>2, <2>1, <2>2, DisturbedHeld
<1>7. CASE Move
  <2>1. PICK g \in Handle, h \in Handle :
          /\ MoveConstruct(g, h) \/ MoveAssign(g, h)
          /\ IF ptr[g] = ptr[h] THEN UNCHANGED ref ELSE Transferred(g, h)
          /\ UNCHANGED error
    BY <1>7 DEF Move
  <2>2. CASE ptr[g] = ptr[h]
    <3>1. UNCHANGED <<ptr, live>>
      BY <2>1, <2>2 DEF MoveConstruct, MoveAssign, Alive
    <3> QED BY <1>1, <2>1, <2>2, <3>1 DEF RefHeld
  <2>3. CASE ptr[g] # ptr[h]
    <3>1. /\ g # h /\ Transferred(g, h)
          /\ ptr' = [ptr EXCEPT ![h] = ptr[g], ![g] = Null]
          /\ live' = live \ {ptr[h]} \/ (live' = live /\ ptr[h] = Gone)
      BY <2>1, <2>3 DEF MoveConstruct, MoveAssign, Freed, Alive
    <3>2. ptr[g] \in live => ptr'[h] = ptr[g] /\ ptr[g] \in live'
      BY <1>1, <2>3, <3>1
    <3>3. \A f \in Handle \ {g, h} : ptr[f] \in live =>
            ptr'[f] = ptr[f] /\ ptr[f] \in live'
      BY <1>1, <3>1 DEF Owned
    <3> QED BY <1>1, <2>1, <3>1, <3>2, <3>3, TransferredHeld
  <2> QED BY <2>2, <2>3
<1> QED BY <1>3, <1>4, <1>5, <1>6, <1>7 DEF ExpressionStep

LEMMA ExpressionsKeepInv ==
  ASSUME HandleInv, ProgramsInv, Running, ExpressionStep
  PROVE  ProgramsInv'
<1>1. UNCHANGED <<prog, used, size, wrong, misused>>
  BY DEF ExpressionStep, programVars
<1>2. RefsHeld' /\ error' \in BOOLEAN
  BY ExpressionRefs
<1> QED BY <1>1, <1>2
  DEF ProgramsInv, ProgramsTypeOK, ProgramsOwned, RefsHeld, Running

(* A program that is called is there, unless programs were copied. *)
LEMMA CalledIsThere ==
  ASSUME ProgramsInv, Running, NEW g \in Object, Called(g)
  PROVE  /\ prog[g] \in Place
         /\ "copied" \notin misused => prog[g] \in used /\ wrong' = "none"
         /\ wrong' \in {"none", "stale"}
  BY DEF ProgramsInv, ProgramsTypeOK, ProgramsOwned, Running, Called

(* A call that leaves programs to their owners. *)
LEMMA CallKeepsInv ==
  ASSUME ProgramsInv, Running, NEW g \in Object, Called(g),
         UNCHANGED <<prog, used, misused>>,
         RefsHeld', error' \in BOOLEAN, size' \in [Place -> 0 .. MaxSize]
  PROVE  ProgramsInv'
<1>1. wrong' \in {"none", "stale"} /\ (wrong' = "stale" => "copied" \in misused)
  BY CalledIsThere
<1> QED BY <1>1 DEF ProgramsInv, ProgramsTypeOK, ProgramsOwned, RefsHeld

LEMMA ProgramsKeepInv ==
  ASSUME HandleInv, ProgramsInv, Running, ProgramStep
  PROVE  ProgramsInv'
<1> USE DEF RefsHeld
<1>1. /\ prog \in [Object -> Place \cup {Gone}] /\ used \subseteq Place
      /\ size \in [Place -> 0 .. MaxSize] /\ misused \subseteq {"copied", "null"}
      /\ error \in BOOLEAN /\ wrong = "none" /\ fault = "none"
      /\ ref \in [Ref -> Refs] /\ \A r \in Ref : RefHeld(r)
      /\ "copied" \notin misused => ProgramsOwned
      /\ ptr \in [Handle -> Slot \cup {Null, Gone}] /\ live \subseteq Slot /\ Owned
  BY DEF ProgramsInv, ProgramsTypeOK, Running, HandleInv, TypeOK
(* What a call does to the references when the slot of g is written. *)
<1>2. ASSUME NEW g \in Object, prog[g] \in Place, UNCHANGED <<prog, used, misused>>,
             NEW H \in SUBSET Handle, NEW P \in SUBSET {prog[g]},
             Disturbed({g} \cup H, P),
             \A h \in Handle \ H : ptr[h] \in live => ptr'[h] = ptr[h] /\ ptr[h] \in live'
      PROVE  RefsHeld'
  <2> DEFINE G == {g} \cup H
  <2>1. P \cap {Null} = {}
    BY <1>2, ProgramsAssumption
  <2>2. \A h \in Handle \ G : ptr[h] \in live => ptr'[h] = ptr[h] /\ ptr[h] \in live' \ P
    BY <1>1, <1>2, ProgramsAssumption
  <2>3. \A f \in Object \ G : "copied" \notin misused' /\ prog[f] \in used =>
          prog'[f] = prog[f] /\ prog[f] \in used' \ P
    BY <1>1, <1>2, ProgramsAssumption DEF ProgramsOwned
  <2>4. Disturbed(G, P) /\ misused \subseteq misused'
    BY <1>2
  <2> HIDE DEF G
  <2> QED BY <1>1, <2>1, <2>2, <2>3, <2>4, DisturbedHeld
<1>3. CASE \E g \in Object, q \in Place : MakeProgram(g, q)
  <2>1. PICK g \in Object, q \in Place : MakeProgram(g, q)
    BY <1>3
  <2>2. /\ prog[g] = Gone /\ q \notin used
        /\ prog' = [prog EXCEPT ![g] = q] /\ used' = used \cup {q}
        /\ size' = [size EXCEPT ![q] = 0]
        /\ UNCHANGED <<ptr, live, fault, ref, error, wrong, misused>>
    BY <2>1 DEF MakeProgram, vars
  <2>3. \A r \in Ref : RefHeld(r)'
    BY <1>1, <2>2, ProgramsAssumption DEF RefHeld
  <2>4. "copied" \notin misused' => ProgramsOwned'
    BY <1>1, <2>2, ProgramsAssumption DEF ProgramsOwned
  <2>5. 0 \in 0 .. MaxSize
    BY ProgramsAssumption
  <2>6. ProgramsTypeOK'
    BY <1>1, <2>2, <2>5 DEF ProgramsTypeOK
  <2> QED BY <1>1, <2>2, <2>3, <2>4, <2>6 DEF ProgramsInv
<1>4. CASE \E f, g \in Object : CopyProgram(f, g)
  <2>1. PICK f \in Object, g \in Object : CopyProgram(f, g)
    BY <1>4
  <2>2. /\ prog' = [prog EXCEPT ![g] = prog[f]]
        /\ misused' = misused \cup {"copied"}
        /\ UNCHANGED <<ptr, live, fault, used, size, error, wrong>>
        /\ Disturbed({g}, {})
    BY <2>1 DEF CopyProgram, vars
  <2>3. RefsHeld'
    BY <1>1, <2>2, ProgramsAssumption, DisturbedHeld
  <2>4. ProgramsTypeOK'
    BY <1>1, <2>2, <2>3 DEF ProgramsTypeOK
  <2> QED BY <1>1, <2>2, <2>3, <2>4 DEF ProgramsInv
<1>5. CASE \E g \in Object : DestroyProgram(g)
  <2>1. PICK g \in Object : DestroyProgram(g)
    BY <1>5
  <2>2. /\ Called(g) /\ used' = used \ {prog[g]}
        /\ prog' = [prog EXCEPT ![g] = Gone]
        /\ UNCHANGED <<ptr, live, fault, size, error, misused>>
        /\ Disturbed({g}, {})
    BY <2>1 DEF DestroyProgram, vars
  <2>3. \A f \in Object \ {g} : "copied" \notin misused' /\ prog[f] \in used =>
          prog'[f] = prog[f] /\ prog[f] \in used' \ {}
    BY <1>1, <2>2, ProgramsAssumption DEF ProgramsOwned
  <2>4. RefsHeld'
    BY <1>1, <2>2, <2>3, DisturbedHeld
  <2>5. "copied" \notin misused' => ProgramsOwned'
    BY <1>1, <2>2, ProgramsAssumption DEF ProgramsOwned
  <2>6. wrong' \in {"none", "stale"} /\ (wrong' = "stale" => "copied" \in misused)
    BY <2>2, CalledIsThere
  <2>7. ProgramsTypeOK'
    BY <1>1, <2>2, <2>4, <2>6 DEF ProgramsTypeOK
  <2> QED BY <1>1, <2>2, <2>4, <2>5, <2>6, <2>7 DEF ProgramsInv
<1>6. CASE \E g \in Object : PushUnknown(g) \/ \E h \in Handle : PushExpression(g, h)
  <2>1. PICK g \in Object : PushUnknown(g) \/ \E h \in Handle : PushExpression(g, h)
    BY <1>6
  <2>2. Called(g) /\ UNCHANGED <<prog, used, misused>>
    BY <2>1 DEF PushUnknown, PushExpression
  <2>3. PICK H \in SUBSET Handle :
          /\ \A h \in Handle \ H : ptr[h] \in live => ptr'[h] = ptr[h] /\ ptr[h] \in live'
          /\ Accepted(g, H) \/ Rejected(H)
    <3>1. CASE PushUnknown(g)
      BY <3>1 DEF PushUnknown, vars
    <3>2. ASSUME NEW h \in Handle, PushExpression(g, h)
          PROVE  /\ \A k \in Handle \ {h} : ptr[k] \in live =>
                       ptr'[k] = ptr[k] /\ ptr[k] \in live'
                 /\ Accepted(g, {h}) \/ Rejected({h})
      BY <1>1, <3>2 DEF PushExpression, PushAssign, Freed, Owned
    <3> QED BY <2>1, <3>1, <3>2
  <2>4. CASE Accepted(g, H)
    <3>1. RefsHeld'
      BY <1>2, <2>2, <2>3, <2>4, CalledIsThere DEF Accepted
    <3>2. size' \in [Place -> 0 .. MaxSize] /\ error' \in BOOLEAN
      <4>1. size[prog[g]] + 1 \in 0 .. MaxSize
        BY <1>1, <2>2, <2>4, CalledIsThere, ProgramsAssumption DEF Accepted
      <4> QED BY <1>1, <2>4, <4>1 DEF Accepted
    <3> QED BY <2>2, <3>1, <3>2, CallKeepsInv
  <2>5. CASE Rejected(H)
    <3>1. RefsHeld'
      <4>1. \A h \in Handle \ H : ptr[h] \in live => ptr'[h] = ptr[h] /\ ptr[h] \in live' \ {}
        BY <2>3
      <4>2. \A f \in Object \ H : "copied" \notin misused' /\ prog[f] \in used =>
              prog'[f] = prog[f] /\ prog[f] \in used' \ {}
        BY <2>2
      <4> QED BY <1>1, <2>2, <2>5, <4>1, <4>2, DisturbedHeld DEF Rejected
    <3> QED BY <1>1, <2>2, <2>5, <3>1, CallKeepsInv DEF Rejected
  <2> QED BY <2>3, <2>4, <2>5
<1>7. CASE \E g \in Object : SimplifyProgram(g)
  <2>1. PICK g \in Object : SimplifyProgram(g)
    BY <1>7
  <2>2. /\ Called(g) /\ UNCHANGED <<prog, used, misused, ptr, live, fault>>
        /\ Disturbed({g} \cup {}, {prog[g]})
        /\ error' \in {error, TRUE}
    BY <2>1 DEF SimplifyProgram, vars
  <2>3. RefsHeld'
    BY <1>2, <2>2, CalledIsThere
  <2>4. size' \in [Place -> 0 .. MaxSize]
    <3>1. PICK n \in 0 .. size[prog[g]] : size' = [size EXCEPT ![prog[g]] = n]
      BY <2>1 DEF SimplifyProgram
    <3>2. n \in 0 .. MaxSize
      BY <1>1, <2>2, <3>1, CalledIsThere, ProgramsAssumption
    <3> QED BY <1>1, <3>1, <3>2
  <2> QED BY <1>1, <2>2, <2>3, <2>4, CallKeepsInv
<1>8. CASE \E g \in Object, i \in 0 .. MaxSize, r \in Ref, what \in {"assign", "unknown"} :
             Get(g, i, r, what)
  <2>1. PICK g \in Object, i \in 0 .. MaxSize, r \in Ref, what \in {"assign", "unknown"} :
          Get(g, i, r, what)
    BY <1>8
  <2> DEFINE new == [root |-> g, good |-> TRUE, what |-> what,
                     at |-> IF i < size[prog[g]] THEN prog[g] ELSE Null]
  <2>2. /\ Called(g) /\ ref' = [ref EXCEPT ![r] = new]
        /\ UNCHANGED <<prog, used, misused, size, error, ptr, live, fault>>
    BY <2>1 DEF Get, vars, programVars
  <2>3. new \in Refs
    BY <2>2, CalledIsThere DEF Refs
  <2>4. \A s \in Ref \ {r} : RefHeld(s)'
    BY <1>1, <2>2 DEF RefHeld
  <2>5. RefHeld(r)'
    <3>1. ref'[r] = new
      BY <1>1, <2>2
    <3> QED BY <2>2, <3>1, CalledIsThere DEF RefHeld
  <2>6. RefsHeld'
    BY <1>1, <2>2, <2>3, <2>4, <2>5
  <2> QED BY <1>1, <2>2, <2>6, CallKeepsInv
<1> QED BY <1>3, <1>4, <1>5, <1>6, <1>7, <1>8 DEF ProgramStep

(* A call through a reference the client still has: only one that holds null *)
(* aborts, and none finds its target gone, unless programs were copied.      *)
LEMMA ThroughHeld ==
  ASSUME ProgramsInv, Running, NEW r \in Ref, Through(r)
  PROVE  /\ wrong' \in {"none", "abort", "stale"}
         /\ wrong' = "stale" => "copied" \in misused'
         /\ wrong' = "abort" => "null" \in misused'
         /\ misused' \in SUBSET {"copied", "null"}
         /\ "copied" \in misused' <=> "copied" \in misused
<1>1. misused \subseteq {"copied", "null"} /\ RefHeld(r) /\ wrong = "none"
  BY DEF ProgramsInv, ProgramsTypeOK, Running
<1>2. ref[r].root # Gone /\ (ref[r].root \in Handle => ref[r].root \notin Object)
  BY ProgramsAssumption DEF Through
<1>3. misused' = misused \cup (IF ref[r].at = Null THEN {"null"} ELSE {})
  BY DEF Through
<1>4. wrong' = IF ref[r].at = Null THEN "abort"
               ELSE IF ref[r].good THEN "none" ELSE "stale"
  BY <1>1 DEF Through
<1>5. ref[r].at # Null /\ ~ref[r].good => "copied" \in misused
  BY <1>1, <1>2 DEF RefHeld
<1> QED BY <1>1, <1>3, <1>4, <1>5

LEMMA ReferencesKeepInv ==
  ASSUME HandleInv, ProgramsInv, Running, ReferenceStep
  PROVE  ProgramsInv'
<1>1. /\ ref \in [Ref -> Refs] /\ \A r \in Ref : RefHeld(r)
      /\ error \in BOOLEAN /\ wrong = "none" /\ fault = "none" /\ Owned
      /\ ptr \in [Handle -> Slot \cup {Null, Gone}] /\ live \subseteq Slot
  BY DEF ProgramsInv, ProgramsTypeOK, Running, HandleInv, TypeOK
(* What a step must show that leaves programs alone and calls through r. *)
<1>2. ASSUME NEW r \in Ref, Through(r), UNCHANGED programVars, error' \in BOOLEAN, RefsHeld'
      PROVE  ProgramsInv'
  <2>1. UNCHANGED <<prog, used, size>>
    BY <1>2 DEF programVars
  <2>2. ProgramsTypeOK'
    BY <1>2, <2>1, ThroughHeld DEF ProgramsInv, ProgramsTypeOK, RefsHeld
  <2>3. "copied" \notin misused' => ProgramsOwned'
    BY <1>2, <2>1, ThroughHeld DEF ProgramsInv, ProgramsOwned
  <2> QED BY <1>2, <2>2, <2>3, ThroughHeld DEF ProgramsInv, RefsHeld
<1>3. ASSUME NEW r \in Ref, UNCHANGED <<ptr, live, prog, used>>,
             "copied" \in misused' <=> "copied" \in misused, RefHeld(r), ref'[r] = ref[r]
      PROVE  RefHeld(r)'
  BY <1>3 DEF RefHeld
<1>4. CASE \E h \in Handle, r \in Ref : View(h, r)
  <2>1. PICK h \in Handle, r \in Ref : View(h, r)
    BY <1>4
  <2> DEFINE new == [root |-> h, at |-> ptr[h], good |-> ptr[h] \in live \cup {Null},
                     what |-> "expression"]
  <2>2. /\ ptr[h] # Gone /\ ref' = [ref EXCEPT ![r] = new]
        /\ UNCHANGED <<ptr, live, prog, used, size, error, wrong, misused>>
    BY <2>1 DEF View, vars, programVars, Alive
  <2>3. ptr[h] \in live \cup {Null}
    BY <1>1, <2>2 DEF Owned
  <2>4. new = [root |-> h, at |-> ptr[h], good |-> TRUE, what |-> "expression"]
    <3>1. (ptr[h] \in live \cup {Null}) = TRUE
      BY <2>3
    <3> QED BY <3>1, Zenon
  <2> HIDE DEF new
  <2>5. RefHeld(r)'
    <3>1. ref'[r] = new
      BY <1>1, <2>2
    <3> QED BY <2>2, <2>3, <2>4, <3>1 DEF RefHeld
  <2>6. \A s \in Ref \ {r} : RefHeld(s)'
    BY <1>1, <1>3, <2>2
  <2>7. ref' \in [Ref -> Refs]
    <3>1. new \in Refs
      BY <1>1, <2>3, <2>4 DEF Refs
    <3> QED BY <1>1, <2>2, <3>1
  <2> QED BY <2>2, <2>5, <2>6, <2>7
    DEF ProgramsInv, ProgramsTypeOK, ProgramsOwned, Running
<1>5. CASE \E r \in Ref : Read(r) \/ ReadInstruction(r)
  <2>1. PICK r \in Ref : Read(r) \/ ReadInstruction(r)
    BY <1>5
  <2>2. /\ Through(r) /\ UNCHANGED programVars /\ error' \in BOOLEAN
        /\ UNCHANGED <<ptr, live, prog, used, ref>>
    BY <1>1, <2>1 DEF Read, ReadInstruction, vars, programVars
  <2>3. RefsHeld'
    BY <1>1, <1>3, <2>2, ThroughHeld DEF RefsHeld
  <2> QED BY <1>2, <2>2, <2>3
<1>6. CASE \E r, s \in Ref : Child(r, s) \/ ExpressionOf(r, s)
  <2>1. PICK r \in Ref, s \in Ref : Child(r, s) \/ ExpressionOf(r, s)
    BY <1>6
  <2> DEFINE none == [NoRef EXCEPT !.root = ref[r].root]
             part == [ref[r] EXCEPT !.what = "expression"]
  <2>2. /\ Through(r) /\ UNCHANGED programVars /\ error' \in BOOLEAN
        /\ UNCHANGED <<ptr, live, prog, used>>
        /\ \E new \in {none, part, ref[r]} : ref' = [ref EXCEPT ![s] = new]
    BY <1>1, <2>1 DEF Child, ExpressionOf, vars, programVars
  <2>3. /\ none \in Refs /\ none.at = Null /\ ref[r] \in Refs
        /\ part \in Refs /\ part.root = ref[r].root /\ part.at = ref[r].at
        /\ part.good = ref[r].good
    BY <1>1 DEF NoRef, Refs
  <2>4. RefHeld(s)'
    <3> HIDE DEF none, part
    <3>1. ref'[s] \in {none, part, ref[r]}
      BY <1>1, <2>2
    <3>2. CASE ref'[s] = none
      BY <2>3, <3>2 DEF RefHeld
    <3>3. CASE ref'[s] = part \/ ref'[s] = ref[r]
      BY <1>1, <2>2, <2>3, <3>3, ThroughHeld DEF RefHeld
    <3> QED BY <3>1, <3>2, <3>3
  <2>5. \A t \in Ref \ {s} : RefHeld(t)'
    <3> HIDE DEF none, part
    <3>1. \A t \in Ref \ {s} : ref'[t] = ref[t]
      BY <1>1, <2>2
    <3> QED BY <1>1, <1>3, <2>2, <3>1, ThroughHeld
  <2>6. ref' \in [Ref -> Refs]
    <3> HIDE DEF none, part
    <3> QED BY <1>1, <2>2, <2>3
  <2>7. RefsHeld'
    BY <2>4, <2>5, <2>6 DEF RefsHeld
  <2> QED BY <1>2, <2>2, <2>7
<1>7. CASE \E r \in Ref, h \in Handle, p \in Slot : CloneReached(r, h, p)
  <2>1. PICK r \in Ref, h \in Handle, p \in Slot : CloneReached(r, h, p)
    BY <1>7
  <2>2. /\ Through(r) /\ UNCHANGED programVars /\ UNCHANGED <<prog, used, ref, error>>
        /\ ptr[h] = Gone /\ ptr' = [ptr EXCEPT ![h] = p] /\ live' = live \cup {p}
    BY <2>1 DEF CloneReached, Make, Replaced, Alive, programVars
  <2>3. \A s \in Ref : RefHeld(s)'
    BY <1>1, <2>2, HandleAssumption, ThroughHeld DEF RefHeld
  <2>4. RefsHeld'
    BY <1>1, <2>2, <2>3 DEF RefsHeld
  <2> QED BY <1>1, <1>2, <2>2, <2>4
<1> QED BY <1>4, <1>5, <1>6, <1>7 DEF ReferenceStep

LEMMA ProgramsInvStep == HandleInv /\ ProgramsInv /\ [ProgramsNext]_allVars => ProgramsInv'
<1>1. HandleInv /\ ProgramsInv /\ ProgramsNext => ProgramsInv'
  BY ExpressionsKeepInv, ProgramsKeepInv, ReferencesKeepInv DEF ProgramsNext, Running
<1>2. ProgramsInv /\ UNCHANGED allVars => ProgramsInv'
  BY DEF allVars, vars, programVars, ProgramsInv, ProgramsTypeOK, ProgramsOwned,
         RefHeld, Running
<1> QED BY <1>1, <1>2

(* The whole wrapper keeps both invariants. *)
THEOREM ProgramsInvariant == ProgramsSpec => [](HandleInv /\ ProgramsInv)
<1>1. ProgramsSpec => []HandleInv
  BY ExpressionsBehave, HandleInvariant, PTL
<1>2. ProgramsSpec => []ProgramsInv
  BY <1>1, ProgramsInvInit, ProgramsInvStep, PTL DEF ProgramsSpec
<1> QED BY <1>1, <1>2, PTL

(* Each slot of either pool in use has exactly one owner, until the process  *)
(* aborts and as long as no Program is copied.                               *)
THEOREM SoleOwnersAlways == ProgramsSpec => []SoleOwners
<1>1. HandleInv => SoleOwner
  BY DEF HandleInv, TypeOK, NeverStale, Owned, SoleOwner, Owning
<1>2. ProgramsInv => ("copied" \notin misused =>
        /\ used = {prog[g] : g \in Object} \ {Gone}
        /\ \A f, g \in Object : prog[f] = prog[g] /\ prog[f] # Gone => f = g)
  BY ProgramsAssumption DEF ProgramsInv, ProgramsTypeOK, ProgramsOwned
<1>3. HandleInv /\ ProgramsInv => SoleOwners
  BY <1>1, <1>2 DEF SoleOwners
<1> QED BY ProgramsInvariant, <1>3, PTL

(* A client that copies no Program and gives up the references into what it  *)
(* changes never makes the wrapper touch a slot, or read an instruction or   *)
(* an expression, that is gone.                                              *)
THEOREM NothingStaleAlways == ProgramsSpec => []NothingStale
<1>1. HandleInv /\ ProgramsInv => NothingStale
  BY DEF HandleInv, ProgramsInv, NothingStale
<1> QED BY ProgramsInvariant, <1>1, PTL

(* Only null aborts, and only clients bring it about. *)
THEOREM OnlyNullAbortsAlways == ProgramsSpec => []OnlyNullAborts
<1>1. HandleInv /\ ProgramsInv => OnlyNullAborts
  BY DEF HandleInv, ProgramsInv, OnlyNullAborts
<1> QED BY ProgramsInvariant, <1>1, PTL
=============================================================================
