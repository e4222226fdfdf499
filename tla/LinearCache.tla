---------------------------- MODULE LinearCache ----------------------------
(***************************************************************************)
(* The memo of solved linear MBAs (core/src/simplify.rs): MbaCache, shared *)
(* by threads, and the one place that uses it, solve_linear.  A lookup is  *)
(* a locked map access followed by an atomic increment outside the lock; a *)
(* miss is solved outside the lock and inserted under it; clear and stats  *)
(* each touch the map and the two counters one after the other.            *)
(* LocalCache is the instance with one thread.                             *)
(*                                                                         *)
(* A key is an expression with its variables renumbered; the bit width is  *)
(* no part of it.  Only the width it was solved at is kept of a solution.  *)
(* What solutions say, and what one found at another width does, is the    *)
(* subject of Solver.                                                      *)
(***************************************************************************)
EXTENDS Naturals, FiniteSets

CONSTANTS
  Threads,
  Keys,         \* linear MBAs after reduce_vars
  TooWide,      \* keys of more than MAX_VARS variables
  Widths,       \* bit widths solvers sharing the cache run at
  NoEntry,      \* the map has no such key
  MaxLookups    \* bound: lookups between two clears

ASSUME CacheAssumption ==
  /\ Widths \subseteq Nat
  /\ TooWide \subseteq Keys
  /\ NoEntry \notin Nat
  /\ MaxLookups \in Nat

VARIABLES
  entries,        \* the map: the width a key was solved at
  hits, misses,   \* the atomic tallies
  pc, key, width, \* each thread's place in solve_linear and its arguments
  found,          \* what the lookup or the solve of the thread gave
  snap,           \* what stats has read so far
  lookups,        \* history: lookups since the last clear
  cleared,        \* history: has the cache been cleared?
  solves          \* history: each thread's solves of each key since the last clear

vars == <<entries, hits, misses, pc, key, width, found, snap, lookups, cleared, solves>>
mine == <<key, width, found>>

Places == {"idle", "tally", "solve", "insert", "restore", "failed",
           "clear_hits", "clear_misses", "stats_misses", "stats_entries"}
Cached == Widths \cup {NoEntry}
NoReading == [hits |-> 0, misses |-> 0]

Known == {k \in Keys : entries[k] # NoEntry}

TypeOK ==
  /\ entries \in [Keys -> Cached]
  /\ hits \in Nat /\ misses \in Nat
  /\ pc \in [Threads -> Places]
  /\ key \in [Threads -> Keys] /\ width \in [Threads -> Widths]
  /\ found \in [Threads -> Cached]
  /\ \A t \in Threads :
       /\ pc[t] = "insert" => key[t] \notin TooWide
       /\ pc[t] \in {"insert", "restore"} => found[t] \in Widths
  /\ snap \in [Threads -> [hits : Nat, misses : Nat]]
  /\ lookups \in 0 .. MaxLookups /\ cleared \in BOOLEAN
  /\ solves \in [Threads -> [Keys -> Nat]]
-----------------------------------------------------------------------------
Init ==
  /\ entries = [k \in Keys |-> NoEntry]
  /\ hits = 0 /\ misses = 0
  /\ pc = [t \in Threads |-> "idle"]
  /\ \E k \in Keys, w \in Widths : key = [t \in Threads |-> k] /\ width = [t \in Threads |-> w]
  /\ found = [t \in Threads |-> NoEntry]
  /\ snap = [t \in Threads |-> NoReading]
  /\ lookups = 0 /\ cleared = FALSE
  /\ solves = [t \in Threads |-> [k \in Keys |-> 0]]

Goto(t, from, to) == pc[t] = from /\ pc' = [pc EXCEPT ![t] = to]

(* get, inside the lock. *)
Lookup(t, k, w) ==
  /\ Goto(t, "idle", "tally")
  /\ lookups < MaxLookups
  /\ lookups' = lookups + 1
  /\ key' = [key EXCEPT ![t] = k]
  /\ width' = [width EXCEPT ![t] = w]
  /\ found' = [found EXCEPT ![t] = entries[k]]
  /\ UNCHANGED <<entries, hits, misses, snap, cleared, solves>>

(* get, after the lock: fetch_add on one of the tallies. *)
TallyHit(t) ==
  /\ found[t] # NoEntry
  /\ Goto(t, "tally", "restore")
  /\ hits' = hits + 1
  /\ UNCHANGED <<entries, misses, snap, lookups, cleared, solves>> /\ UNCHANGED mine

(* Mutant of TallyMiss: a lookup that is going to fail is not counted. *)
TallyMissSolvable(t) ==
  /\ found[t] = NoEntry
  /\ Goto(t, "tally", "solve")
  /\ misses' = IF key[t] \in TooWide THEN misses ELSE misses + 1
  /\ UNCHANGED <<entries, hits, snap, lookups, cleared, solves>> /\ UNCHANGED mine

TallyMiss(t) ==
  /\ found[t] = NoEntry
  /\ Goto(t, "tally", "solve")
  /\ misses' = misses + 1
  /\ UNCHANGED <<entries, hits, snap, lookups, cleared, solves>> /\ UNCHANGED mine

(* TooManyVariables: a miss of more variables than can be solved. *)
TooManyVariables(t) ==
  /\ key[t] \in TooWide
  /\ Goto(t, "solve", "failed")
  /\ UNCHANGED <<entries, hits, misses, snap, lookups, cleared, solves>> /\ UNCHANGED mine

(* solve_linear_inner, outside the lock. *)
Solve(t) ==
  /\ key[t] \notin TooWide
  /\ Goto(t, "solve", "insert")
  /\ found' = [found EXCEPT ![t] = width[t]]
  /\ solves' = [solves EXCEPT ![t][key[t]] = @ + 1]
  /\ UNCHANGED <<entries, hits, misses, key, width, snap, lookups, cleared>>

(* Mutant of Insert: the cache keeps the latest solution only. *)
InsertLatest(t) ==
  /\ Goto(t, "insert", "restore")
  /\ entries' = [k \in Keys |-> IF k = key[t] THEN found[t] ELSE NoEntry]
  /\ UNCHANGED <<hits, misses, snap, lookups, cleared, solves>> /\ UNCHANGED mine

Insert(t) ==
  /\ Goto(t, "insert", "restore")
  /\ entries' = [entries EXCEPT ![key[t]] = found[t]]
  /\ UNCHANGED <<hits, misses, snap, lookups, cleared, solves>> /\ UNCHANGED mine

(* solve_linear returns, the solution with its variables put back. *)
Return(t) ==
  /\ Goto(t, "restore", "idle") \/ Goto(t, "failed", "idle")
  /\ found' = [found EXCEPT ![t] = NoEntry]
  /\ UNCHANGED <<entries, hits, misses, key, width, snap, lookups, cleared, solves>>

(* clear: the map under the lock, then each tally. *)
ClearEntries(t) ==
  /\ Goto(t, "idle", "clear_hits")
  /\ entries' = [k \in Keys |-> NoEntry]
  /\ lookups' = 0 /\ cleared' = TRUE
  /\ solves' = [u \in Threads |-> [k \in Keys |-> 0]]
  /\ UNCHANGED <<hits, misses, snap>> /\ UNCHANGED mine

ClearHits(t) ==
  /\ Goto(t, "clear_hits", "clear_misses")
  /\ hits' = 0
  /\ UNCHANGED <<entries, misses, snap, lookups, cleared, solves>> /\ UNCHANGED mine

ClearMisses(t) ==
  /\ Goto(t, "clear_misses", "idle")
  /\ misses' = 0
  /\ UNCHANGED <<entries, hits, snap, lookups, cleared, solves>> /\ UNCHANGED mine

(* stats: each tally, then the size of the map under the lock. *)
StatsHits(t) ==
  /\ Goto(t, "idle", "stats_misses")
  /\ snap' = [snap EXCEPT ![t].hits = hits]
  /\ UNCHANGED <<entries, hits, misses, lookups, cleared, solves>> /\ UNCHANGED mine

StatsMisses(t) ==
  /\ Goto(t, "stats_misses", "stats_entries")
  /\ snap' = [snap EXCEPT ![t].misses = misses]
  /\ UNCHANGED <<entries, hits, misses, lookups, cleared, solves>> /\ UNCHANGED mine

(* The reading, with Cardinality(Known) for its entries, is returned. *)
StatsEntries(t) ==
  /\ Goto(t, "stats_entries", "idle")
  /\ snap' = [snap EXCEPT ![t] = NoReading]
  /\ UNCHANGED <<entries, hits, misses, lookups, cleared, solves>> /\ UNCHANGED mine

SolveLinear(t) ==
  \/ \E k \in Keys, w \in Widths : Lookup(t, k, w)
  \/ TallyHit(t) \/ TallyMiss(t) \/ TooManyVariables(t) \/ Solve(t) \/ Insert(t) \/ Return(t)
Clear(t) == ClearEntries(t) \/ ClearHits(t) \/ ClearMisses(t)
Stats(t) == StatsHits(t) \/ StatsMisses(t) \/ StatsEntries(t)

Next == \E t \in Threads : SolveLinear(t) \/ Clear(t) \/ Stats(t)

Spec == Init /\ [][Next]_vars
-----------------------------------------------------------------------------
(* Between two clears a thread solves a key at most once: what it has solved  *)
(* it inserts before it looks anything up again, and no insert of another     *)
(* thread takes an entry away.  (Two threads that miss together both solve.)  *)
SolvedOncePerThread == \A t \in Threads, k \in Keys : solves[t][k] <= 1

Tallying == {t \in Threads : pc[t] = "tally"}

(* Until the first clear the tallies account for every lookup whose increment is    *)
(* done, and for every entry and a stats reading under way counts no lookup  *)
(* that was not made.                                                        *)
TalliesAccount ==
  ~cleared =>
    /\ hits + misses + Cardinality(Tallying) = lookups
    /\ Cardinality(Known) <= misses
    /\ \A t \in Threads : snap[t].hits + snap[t].misses <= lookups
=============================================================================
