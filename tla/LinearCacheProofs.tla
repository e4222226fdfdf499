------------------------- MODULE LinearCacheProofs --------------------------
(***************************************************************************)
(* Proofs about the shared cache of solved linear MBAs, for every set of   *)
(* threads, keys and widths.                                               *)
(***************************************************************************)
EXTENDS LinearCache, FiniteSetTheorems, TLAPS

(* What a thread has solved is in the map, or in its hands on the way there; *)
(* what it is about to solve it has not solved.                              *)
SolvedKept ==
  \A t \in Threads :
    /\ pc[t] = "tally" /\ found[t] = NoEntry => solves[t][key[t]] = 0
    /\ pc[t] = "solve" => solves[t][key[t]] = 0
    /\ \A k \in Keys :
         /\ solves[t][k] \in {0, 1}
         /\ solves[t][k] = 1 => entries[k] # NoEntry \/ (pc[t] = "insert" /\ key[t] = k)

CacheInv == TypeOK /\ SolvedKept

LEMMA CacheInit == Init => CacheInv
<1> SUFFICES ASSUME Init PROVE CacheInv
  OBVIOUS
<1>1. TypeOK
  <2>1. PICK k0 \in Keys, w0 \in Widths :
          key = [t \in Threads |-> k0] /\ width = [t \in Threads |-> w0]
    BY DEF Init
  <2>2. entries \in [Keys -> Cached] /\ found \in [Threads -> Cached]
    BY DEF Init, Cached
  <2>3. /\ snap \in [Threads -> [hits : Nat, misses : Nat]]
        /\ solves \in [Threads -> [Keys -> Nat]]
        /\ lookups \in 0 .. MaxLookups
    BY CacheAssumption DEF Init, NoReading
  <2>4. pc = [t \in Threads |-> "idle"] /\ hits = 0 /\ misses = 0 /\ cleared = FALSE
    BY DEF Init
  <2> QED BY <2>1, <2>2, <2>3, <2>4 DEF TypeOK, Places
<1>2. SolvedKept
  BY DEF Init, SolvedKept
<1> QED BY <1>1, <1>2 DEF CacheInv

LEMMA LookupInv ==
  ASSUME CacheInv, NEW t \in Threads, NEW k \in Keys, NEW w \in Widths, Lookup(t, k, w)
  PROVE  CacheInv'
<1>1. TypeOK'
  BY CacheAssumption DEF CacheInv, TypeOK, Lookup, Goto, Places, Cached
<1>2. SolvedKept'
  BY DEF CacheInv, TypeOK, SolvedKept, Lookup, Goto
<1> QED BY <1>1, <1>2 DEF CacheInv

LEMMA TallyInv ==
  ASSUME CacheInv, NEW t \in Threads, TallyHit(t) \/ TallyMiss(t)
  PROVE  CacheInv'
<1>1. TypeOK'
  <2>1. CASE TallyHit(t)
    BY <2>1, CacheAssumption DEF CacheInv, TypeOK, TallyHit, Goto, Places, Cached, mine
  <2>2. CASE TallyMiss(t)
    BY <2>2, CacheAssumption DEF CacheInv, TypeOK, TallyMiss, Goto, Places, Cached, mine
  <2> QED BY <2>1, <2>2
<1>2. SolvedKept'
  BY DEF CacheInv, TypeOK, SolvedKept, TallyHit, TallyMiss, Goto, mine
<1> QED BY <1>1, <1>2 DEF CacheInv

LEMMA SolveInv ==
  ASSUME CacheInv, NEW t \in Threads, TooManyVariables(t) \/ Solve(t)
  PROVE  CacheInv'
<1>1. TypeOK'
  <2>1. CASE TooManyVariables(t)
    BY <2>1, CacheAssumption DEF CacheInv, TypeOK, TooManyVariables, Goto, Places, Cached, mine
  <2>2. CASE Solve(t)
    BY <2>2, CacheAssumption DEF CacheInv, TypeOK, Solve, Goto, Places, Cached
  <2> QED BY <2>1, <2>2
<1>2. SolvedKept'
  BY DEF CacheInv, TypeOK, SolvedKept, TooManyVariables, Solve, Goto, mine
<1> QED BY <1>1, <1>2 DEF CacheInv

LEMMA InsertInv ==
  ASSUME CacheInv, NEW t \in Threads, Insert(t)
  PROVE  CacheInv'
<1>1. found[t] \in Widths /\ found[t] # NoEntry
  BY CacheAssumption DEF CacheInv, TypeOK, Insert, Goto
<1>2. TypeOK'
  BY <1>1, CacheAssumption DEF CacheInv, TypeOK, Insert, Goto, Places, Cached, mine
<1>3. SolvedKept'
  BY <1>1 DEF CacheInv, TypeOK, SolvedKept, Insert, Goto, mine
<1> QED BY <1>2, <1>3 DEF CacheInv

LEMMA ReturnInv ==
  ASSUME CacheInv, NEW t \in Threads, Return(t)
  PROVE  CacheInv'
<1>1. TypeOK'
  BY CacheAssumption DEF CacheInv, TypeOK, Return, Goto, Places, Cached
<1>2. SolvedKept'
  BY DEF CacheInv, TypeOK, SolvedKept, Return, Goto
<1> QED BY <1>1, <1>2 DEF CacheInv

LEMMA ClearInv ==
  ASSUME CacheInv, NEW t \in Threads, Clear(t)
  PROVE  CacheInv'
<1>1. CASE ClearEntries(t)
  <2>1. TypeOK'
    BY <1>1, CacheAssumption
    DEF CacheInv, TypeOK, ClearEntries, Goto, Places, Cached, mine
  <2>2. SolvedKept'
    BY <1>1 DEF CacheInv, TypeOK, SolvedKept, ClearEntries, Goto, mine
  <2> QED BY <2>1, <2>2 DEF CacheInv
<1>2. CASE ClearHits(t) \/ ClearMisses(t)
  <2>1. TypeOK'
    BY <1>2 DEF CacheInv, TypeOK, ClearHits, ClearMisses, Goto, Places, mine
  <2>2. SolvedKept'
    BY <1>2 DEF CacheInv, TypeOK, SolvedKept, ClearHits, ClearMisses, Goto, mine
  <2> QED BY <2>1, <2>2 DEF CacheInv
<1> QED BY <1>1, <1>2 DEF Clear

LEMMA StatsInv ==
  ASSUME CacheInv, NEW t \in Threads, Stats(t)
  PROVE  CacheInv'
<1>1. TypeOK'
  <2>1. snap' \in [Threads -> [hits : Nat, misses : Nat]]
    <3>1. CASE StatsHits(t)
      BY <3>1 DEF CacheInv, TypeOK, StatsHits
    <3>2. CASE StatsMisses(t)
      BY <3>2 DEF CacheInv, TypeOK, StatsMisses
    <3>3. CASE StatsEntries(t)
      BY <3>3 DEF CacheInv, TypeOK, StatsEntries, NoReading
    <3> QED BY <3>1, <3>2, <3>3 DEF Stats
  <2> QED BY <2>1
    DEF CacheInv, TypeOK, Stats, StatsHits, StatsMisses, StatsEntries, Goto, Places, mine
<1>2. SolvedKept'
  BY DEF CacheInv, TypeOK, SolvedKept, Stats, StatsHits, StatsMisses, StatsEntries,
         Goto, mine
<1> QED BY <1>1, <1>2 DEF CacheInv

LEMMA CacheStep == CacheInv /\ [Next]_vars => CacheInv'
<1>1. CacheInv /\ Next => CacheInv'
  BY LookupInv, TallyInv, SolveInv, InsertInv, ReturnInv, ClearInv, StatsInv
  DEF Next, SolveLinear
<1>2. CacheInv /\ UNCHANGED vars => CacheInv'
  BY DEF CacheInv, TypeOK, SolvedKept, vars
<1> QED BY <1>1, <1>2

THEOREM CacheInvariant == Spec => []CacheInv
  BY CacheInit, CacheStep, PTL DEF Spec

(* A thread that is to insert has a key of few enough variables,    *)
(* one that is to insert or return has a solution to insert or return.       *)
THEOREM CacheTypeCorrect == Spec => []TypeOK
<1>1. CacheInv => TypeOK
  BY DEF CacheInv
<1> QED BY CacheInvariant, <1>1, PTL

(* However threads interleave, none solves a key it has solved since the     *)
(* latest clear: MbaCache and solve_linear, any number of threads.           *)
THEOREM SolvedOnce == Spec => []SolvedOncePerThread
<1>1. CacheInv => SolvedOncePerThread
  BY DEF CacheInv, SolvedKept, SolvedOncePerThread
<1> QED BY CacheInvariant, <1>1, PTL

-----------------------------------------------------------------------------
(* The tallies.  Until the first clear no thread is in the middle of one;     *)
(* every entry of the map, and every thread on its way to add one, has a miss *)
(* of its own; and what stats has read is no more than what there is now.     *)
Solving == {t \in Threads : pc[t] \in {"solve", "insert"}}

TalliesKept ==
  ~ cleared =>
    /\ \A t \in Threads : pc[t] \notin {"clear_hits", "clear_misses"}
    /\ IsFiniteSet(Tallying) /\ IsFiniteSet(Known) /\ IsFiniteSet(Solving)
    /\ hits + misses + Cardinality(Tallying) = lookups
    /\ Cardinality(Known) + Cardinality(Solving) <= misses
    /\ \A t \in Threads : snap[t].hits <= hits /\ snap[t].misses <= misses

(* How a step of one thread moves it between the sets that are counted.       *)
LEMMA Moved ==
  ASSUME NEW t \in Threads, pc \in [Threads -> Places], NEW from, NEW to, Goto(t, from, to)
  PROVE  /\ Tallying' = IF to = "tally" THEN Tallying \cup {t} ELSE Tallying \ {t}
         /\ Solving' = IF to \in {"solve", "insert"} THEN Solving \cup {t} ELSE Solving \ {t}
         /\ t \in Tallying <=> from = "tally"
         /\ t \in Solving <=> from \in {"solve", "insert"}
BY DEF Goto, Tallying, Solving

(* A finite set with a member added or taken away.                           *)
LEMMA Counted ==
  ASSUME NEW S, NEW x, IsFiniteSet(S)
  PROVE  /\ IsFiniteSet(S \cup {x}) /\ IsFiniteSet(S \ {x}) /\ Cardinality(S) \in Nat
         /\ Cardinality(S \cup {x}) = IF x \in S THEN Cardinality(S) ELSE Cardinality(S) + 1
         /\ Cardinality(S \ {x}) = IF x \in S THEN Cardinality(S) - 1 ELSE Cardinality(S)
BY FS_AddElement, FS_RemoveElement, FS_CardinalityType

LEMMA TalliesInit == Init => TalliesKept
<1> SUFFICES ASSUME Init PROVE TalliesKept
  OBVIOUS
<1>1. Tallying = {} /\ Known = {} /\ Solving = {}
  BY DEF Init, Tallying, Known, Solving
<1>2. \A t \in Threads : snap[t].hits <= hits /\ snap[t].misses <= misses
  BY DEF Init, NoReading
<1> QED BY <1>1, <1>2, FS_EmptySet DEF Init, TalliesKept

LEMMA TalliesStep ==
  ASSUME CacheInv, TalliesKept, [Next]_vars
  PROVE  TalliesKept'
<1> SUFFICES ASSUME ~ cleared' PROVE TalliesKept'
  BY DEF TalliesKept
<1>1. /\ pc \in [Threads -> Places] /\ hits \in Nat /\ misses \in Nat
      /\ snap \in [Threads -> [hits : Nat, misses : Nat]]
      /\ entries \in [Keys -> Cached] /\ key \in [Threads -> Keys]
  BY DEF CacheInv, TypeOK
<1>2. CASE UNCHANGED vars
  BY <1>2 DEF TalliesKept, vars, Tallying, Known, Solving
<1>3. ASSUME NEW t \in Threads, SolveLinear(t) \/ Clear(t) \/ Stats(t)
      PROVE  TalliesKept'
  <2>1. ~ cleared
    BY <1>3 DEF SolveLinear, Clear, Stats, Lookup, TallyHit, TallyMiss, TooManyVariables, Solve, Insert,
         Return, ClearEntries, ClearHits, ClearMisses, StatsHits, StatsMisses, StatsEntries
  <2>2. /\ \A u \in Threads : pc[u] \notin {"clear_hits", "clear_misses"}
        /\ IsFiniteSet(Tallying) /\ IsFiniteSet(Known) /\ IsFiniteSet(Solving)
        /\ hits + misses + Cardinality(Tallying) = lookups
        /\ Cardinality(Known) + Cardinality(Solving) <= misses
        /\ \A u \in Threads : snap[u].hits <= hits /\ snap[u].misses <= misses
    BY <2>1 DEF TalliesKept
  <2>3. /\ IsFiniteSet(Tallying \cup {t}) /\ IsFiniteSet(Tallying \ {t})
        /\ IsFiniteSet(Solving \cup {t}) /\ IsFiniteSet(Solving \ {t})
        /\ Cardinality(Tallying) \in Nat /\ Cardinality(Solving) \in Nat
        /\ Cardinality(Known) \in Nat
        /\ Cardinality(Tallying \cup {t}) =
             IF t \in Tallying THEN Cardinality(Tallying) ELSE Cardinality(Tallying) + 1
        /\ Cardinality(Tallying \ {t}) =
             IF t \in Tallying THEN Cardinality(Tallying) - 1 ELSE Cardinality(Tallying)
        /\ Cardinality(Solving \cup {t}) =
             IF t \in Solving THEN Cardinality(Solving) ELSE Cardinality(Solving) + 1
        /\ Cardinality(Solving \ {t}) =
             IF t \in Solving THEN Cardinality(Solving) - 1 ELSE Cardinality(Solving)
    BY <2>2, Counted
  <2>4. ASSUME NEW from, NEW to, Goto(t, from, to), from # to, to \in Places,
               to \notin {"clear_hits", "clear_misses"}
        PROVE  /\ \A u \in Threads : pc'[u] \notin {"clear_hits", "clear_misses"}
               /\ IsFiniteSet(Tallying') /\ IsFiniteSet(Solving')
               /\ Cardinality(Tallying') =
                    IF to = "tally" THEN Cardinality(Tallying) + 1
                    ELSE IF from = "tally" THEN Cardinality(Tallying) - 1
                    ELSE Cardinality(Tallying)
               /\ Cardinality(Solving') \in Nat
               /\ Cardinality(Solving') <=
                    IF to \in {"solve", "insert"}
                    THEN IF from \in {"solve", "insert"} THEN Cardinality(Solving)
                         ELSE Cardinality(Solving) + 1
                    ELSE IF from \in {"solve", "insert"} THEN Cardinality(Solving) - 1
                    ELSE Cardinality(Solving)
    <3>1. /\ Tallying' = IF to = "tally" THEN Tallying \cup {t} ELSE Tallying \ {t}
          /\ Solving' = IF to \in {"solve", "insert"} THEN Solving \cup {t}
                        ELSE Solving \ {t}
          /\ t \in Tallying <=> from = "tally"
          /\ t \in Solving <=> from \in {"solve", "insert"}
      BY <1>1, <2>4, Moved
    <3>2. \A u \in Threads : pc'[u] \notin {"clear_hits", "clear_misses"}
      BY <1>1, <2>2, <2>4 DEF Goto
    <3>3. IsFiniteSet(Tallying') /\ IsFiniteSet(Solving')
      BY <2>3, <3>1
    <3>4. Cardinality(Tallying') =
            IF to = "tally" THEN Cardinality(Tallying) + 1
            ELSE IF from = "tally" THEN Cardinality(Tallying) - 1
            ELSE Cardinality(Tallying)
      BY <2>3, <2>4, <3>1
    <3>5. Cardinality(Solving') \in Nat
      BY <3>3, FS_CardinalityType
    <3>6. Cardinality(Solving') <=
            IF to \in {"solve", "insert"}
            THEN IF from \in {"solve", "insert"} THEN Cardinality(Solving)
                 ELSE Cardinality(Solving) + 1
            ELSE IF from \in {"solve", "insert"} THEN Cardinality(Solving) - 1
            ELSE Cardinality(Solving)
      BY <2>3, <3>1
    <3> QED BY <3>2, <3>3, <3>4, <3>5, <3>6
  <2>5. CASE \E k \in Keys, w \in Widths : Lookup(t, k, w)
    <3>1. /\ Goto(t, "idle", "tally") /\ lookups' = lookups + 1
          /\ UNCHANGED <<entries, hits, misses, snap>>
      BY <2>5 DEF Lookup
    <3>2. Known' = Known
      BY <3>1 DEF Known
    <3>3. /\ \A u \in Threads : pc'[u] \notin {"clear_hits", "clear_misses"}
          /\ IsFiniteSet(Tallying') /\ IsFiniteSet(Solving')
          /\ Cardinality(Tallying') = Cardinality(Tallying) + 1
          /\ Cardinality(Solving') \in Nat
          /\ Cardinality(Solving') <= Cardinality(Solving)
      BY <2>4, <3>1 DEF Places
    <3>4. hits' + misses' + Cardinality(Tallying') = lookups'
      BY <1>1, <2>2, <2>3, <3>1, <3>3
    <3>5. Cardinality(Known') + Cardinality(Solving') <= misses'
      BY <1>1, <2>2, <2>3, <3>1, <3>2, <3>3
    <3> QED BY <2>2, <3>1, <3>2, <3>3, <3>4, <3>5 DEF TalliesKept
  <2>6. CASE TallyHit(t)
    <3>1. /\ Goto(t, "tally", "restore") /\ hits' = hits + 1
          /\ UNCHANGED <<entries, misses, snap, lookups>>
      BY <2>6 DEF TallyHit
    <3>2. Known' = Known
      BY <3>1 DEF Known
    <3>3. /\ \A u \in Threads : pc'[u] \notin {"clear_hits", "clear_misses"}
          /\ IsFiniteSet(Tallying') /\ IsFiniteSet(Solving')
          /\ Cardinality(Tallying') = Cardinality(Tallying) - 1
          /\ Cardinality(Solving') \in Nat
          /\ Cardinality(Solving') <= Cardinality(Solving)
      BY <2>4, <3>1 DEF Places
    <3>4. hits' + misses' + Cardinality(Tallying') = lookups'
      BY <1>1, <2>2, <2>3, <3>1, <3>3
    <3>5. Cardinality(Known') + Cardinality(Solving') <= misses'
      BY <1>1, <2>2, <2>3, <3>1, <3>2, <3>3
    <3>6. \A u \in Threads : snap'[u].hits <= hits' /\ snap'[u].misses <= misses'
      BY <1>1, <2>2, <3>1
    <3> QED BY <2>2, <3>2, <3>3, <3>4, <3>5, <3>6 DEF TalliesKept
  <2>7. CASE TallyMiss(t)
    <3>1. /\ Goto(t, "tally", "solve")
          /\ misses' = misses + 1 /\ UNCHANGED <<entries, hits, snap, lookups>>
      BY <2>7 DEF TallyMiss
    <3>2. Known' = Known
      BY <3>1 DEF Known
    <3>3. /\ \A u \in Threads : pc'[u] \notin {"clear_hits", "clear_misses"}
          /\ IsFiniteSet(Tallying') /\ IsFiniteSet(Solving')
          /\ Cardinality(Tallying') = Cardinality(Tallying) - 1
          /\ Cardinality(Solving') \in Nat
          /\ Cardinality(Solving') <= Cardinality(Solving) + 1
      BY <2>4, <3>1 DEF Places
    <3>4. hits' + misses' + Cardinality(Tallying') = lookups'
      BY <1>1, <2>2, <2>3, <3>1, <3>3
    <3>5. Cardinality(Known') + Cardinality(Solving') <= misses'
      BY <1>1, <2>2, <2>3, <3>1, <3>2, <3>3
    <3>6. \A u \in Threads : snap'[u].hits <= hits' /\ snap'[u].misses <= misses'
      BY <1>1, <2>2, <3>1
    <3> QED BY <2>2, <3>2, <3>3, <3>4, <3>5, <3>6 DEF TalliesKept
  <2>8. CASE TooManyVariables(t) \/ Solve(t) \/ Return(t)
    <3>1. /\ \/ Goto(t, "solve", "failed") \/ Goto(t, "solve", "insert")
             \/ Goto(t, "restore", "idle") \/ Goto(t, "failed", "idle")
          /\ UNCHANGED <<entries, hits, misses, snap, lookups>>
      BY <2>8 DEF TooManyVariables, Solve, Return
    <3>2. Known' = Known
      BY <3>1 DEF Known
    <3>3. /\ \A u \in Threads : pc'[u] \notin {"clear_hits", "clear_misses"}
          /\ IsFiniteSet(Tallying') /\ IsFiniteSet(Solving')
          /\ Cardinality(Tallying') = Cardinality(Tallying)
          /\ Cardinality(Solving') \in Nat
          /\ Cardinality(Solving') <= Cardinality(Solving)
      BY <2>3, <2>4, <3>1 DEF Places
    <3>4. Cardinality(Known') + Cardinality(Solving') <= misses'
      BY <1>1, <2>2, <2>3, <3>1, <3>2, <3>3
    <3> QED BY <2>2, <3>1, <3>2, <3>3, <3>4 DEF TalliesKept
  <2>9. CASE Insert(t)
    <3>1. /\ Goto(t, "insert", "restore") /\ entries' = [entries EXCEPT ![key[t]] = found[t]]
          /\ UNCHANGED <<hits, misses, snap, lookups>>
      BY <2>9 DEF Insert
    <3>2. Known' \subseteq Known \cup {key[t]}
      BY <1>1, <3>1 DEF Known
    <3>3. /\ IsFiniteSet(Known \cup {key[t]})
          /\ Cardinality(Known \cup {key[t]}) <= Cardinality(Known) + 1
      <4>1. IsFiniteSet(Known) /\ Cardinality(Known) \in Nat
        BY <2>2, FS_CardinalityType
      <4> QED BY <4>1, FS_AddElement
    <3>4. IsFiniteSet(Known') /\ Cardinality(Known') <= Cardinality(Known \cup {key[t]})
      BY <3>2, <3>3, FS_Subset
    <3>5. /\ Cardinality(Known') \in Nat /\ Cardinality(Known \cup {key[t]}) \in Nat
      BY <3>3, <3>4, FS_CardinalityType
    <3>6. /\ \A u \in Threads : pc'[u] \notin {"clear_hits", "clear_misses"}
          /\ IsFiniteSet(Tallying') /\ IsFiniteSet(Solving')
          /\ Cardinality(Tallying') = Cardinality(Tallying)
          /\ Cardinality(Solving') \in Nat
          /\ Cardinality(Solving') <= Cardinality(Solving) - 1
      BY <2>4, <3>1 DEF Places
    <3>7. Cardinality(Known') + Cardinality(Solving') <= misses'
      BY <1>1, <2>2, <2>3, <3>1, <3>3, <3>4, <3>5, <3>6
    <3> QED BY <2>2, <3>1, <3>4, <3>6, <3>7 DEF TalliesKept
  <2>10. CASE Clear(t)
    <3>1. pc[t] \in {"clear_hits", "clear_misses"} \/ cleared'
      BY <2>10 DEF Clear, ClearEntries, ClearHits, ClearMisses, Goto
    <3> QED BY <2>2, <3>1
  <2>11. CASE Stats(t)
    <3>1. /\ \/ Goto(t, "idle", "stats_misses") \/ Goto(t, "stats_misses", "stats_entries")
             \/ Goto(t, "stats_entries", "idle")
          /\ UNCHANGED <<entries, hits, misses, lookups>>
      BY <2>11 DEF Stats, StatsHits, StatsMisses, StatsEntries
    <3>2. Known' = Known
      BY <3>1 DEF Known
    <3>3. \A u \in Threads : snap'[u].hits <= hits /\ snap'[u].misses <= misses
      <4>1. CASE StatsHits(t)
        BY <1>1, <2>2, <4>1 DEF StatsHits
      <4>2. CASE StatsMisses(t)
        BY <1>1, <2>2, <4>2 DEF StatsMisses
      <4>3. CASE StatsEntries(t)
        BY <1>1, <2>2, <4>3 DEF StatsEntries, NoReading
      <4> QED BY <2>11, <4>1, <4>2, <4>3 DEF Stats
    <3>4. /\ \A u \in Threads : pc'[u] \notin {"clear_hits", "clear_misses"}
          /\ IsFiniteSet(Tallying') /\ IsFiniteSet(Solving')
          /\ Cardinality(Tallying') = Cardinality(Tallying)
          /\ Cardinality(Solving') \in Nat
          /\ Cardinality(Solving') <= Cardinality(Solving)
      BY <2>3, <2>4, <3>1 DEF Places
    <3>5. Cardinality(Known') + Cardinality(Solving') <= misses'
      BY <1>1, <2>2, <2>3, <3>1, <3>2, <3>4
    <3> QED BY <2>2, <3>1, <3>2, <3>3, <3>4, <3>5 DEF TalliesKept
  <2> QED BY <1>3, <2>5, <2>6, <2>7, <2>8, <2>9, <2>10, <2>11 DEF SolveLinear
<1> QED BY <1>2, <1>3 DEF Next

(* Until the first clear the tallies account for every lookup, whatever the   *)
(* threads are in the middle of: get counts each once, after it has left the  *)
(* lock, every entry of the map had a miss of its own, and a reading of stats *)
(* that is taken in three parts never counts more lookups than were made.     *)
THEOREM TalliesAccountForLookups == Spec => []TalliesAccount
<1>1. CacheInv /\ TalliesKept => TalliesAccount
  <2> SUFFICES ASSUME CacheInv, TalliesKept, ~ cleared
               PROVE  /\ hits + misses + Cardinality(Tallying) = lookups
                      /\ Cardinality(Known) <= misses
                      /\ \A t \in Threads : snap[t].hits + snap[t].misses <= lookups
    BY DEF TalliesAccount
  <2>1. /\ hits + misses + Cardinality(Tallying) = lookups
        /\ Cardinality(Known) + Cardinality(Solving) <= misses
        /\ Cardinality(Known) \in Nat /\ Cardinality(Solving) \in Nat
        /\ Cardinality(Tallying) \in Nat /\ hits \in Nat /\ misses \in Nat
    BY FS_CardinalityType DEF TalliesKept, CacheInv, TypeOK
  <2>2. ASSUME NEW t \in Threads PROVE snap[t].hits + snap[t].misses <= lookups
    <3>1. snap[t].hits \in Nat /\ snap[t].misses \in Nat
      BY DEF CacheInv, TypeOK
    <3>2. snap[t].hits <= hits /\ snap[t].misses <= misses
      BY DEF TalliesKept
    <3> QED BY <2>1, <3>1, <3>2
  <2> QED BY <2>1, <2>2
<1>2. CacheInv /\ TalliesKept /\ [Next]_vars => TalliesKept'
  BY TalliesStep
<1> QED BY <1>1, <1>2, TalliesInit, CacheInvariant, PTL DEF Spec
=============================================================================
