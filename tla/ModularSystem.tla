---------------------------- MODULE ModularSystem ----------------------------
(***************************************************************************)
(* solve_modular_power_of_two (core/src/p9_p.rs): a linear system over the  *)
(* integers of n bits.  Rows and columns are combined until the matrix is   *)
(* diagonal, with pivots that are powers of two; transform says which       *)
(* combinations of the columns the columns are now.                        *)
(***************************************************************************)
EXTENDS Integers, FiniteSetsExt, SequencesExt

CONSTANTS
  SystemWidth,  \* bits of a coefficient
  Systems       \* systems to solve: [matrix, rhs]

Modulus == 2 ^ SystemWidth
Residues == 0 .. Modulus - 1

(* The assertions at the start, of a system whose entries are masked: rows of *)
(* one length, and a right side for each.  Its callers have a constant among  *)
(* the columns, and at least as many samples as columns.                     *)
WellFormedSystem(sys) ==
  /\ sys.matrix \in Seq(Seq(Residues)) /\ sys.rhs \in Seq(Residues)
  /\ Len(sys.matrix) = Len(sys.rhs) /\ Len(sys.matrix) > 0 /\ Len(sys.matrix[1]) > 0
  /\ \A i \in DOMAIN sys.matrix : Len(sys.matrix[i]) = Len(sys.matrix[1])

ASSUME SystemAssumption ==
  /\ SystemWidth \in 1 .. 64
  /\ \A sys \in Systems : WellFormedSystem(sys)

VARIABLES
  system,     \* what is to be solved
  matrix, rhs, transform,
  rank,       \* columns done
  solving,    \* "idle", "eliminate", "done"
  solution    \* a sequence, or <<>> if there is none

systemVars == <<system, matrix, rhs, transform, rank, solving, solution>>

Dot(u, v) == SumFunction([j \in DOMAIN u |-> u[j] * v[j]]) % Modulus
Product0(m, x) == [i \in DOMAIN m |-> Dot(m[i], x)]
Swap(s, i, j) == [s EXCEPT ![i] = s[j], ![j] = s[i]]
Less0(u, q, v) == [j \in DOMAIN u |-> (u[j] - q * v[j]) % Modulus] \o <<>>

Identity(n) == [i \in 1 .. n |-> [j \in 1 .. n |-> IF i = j THEN 1 ELSE 0] \o <<>>] \o <<>>
NoSystem == [matrix |-> <<>>, rhs |-> <<>>]
Solving(sys) ==
  /\ system' = sys /\ matrix' = sys.matrix /\ rhs' = sys.rhs
  /\ transform' = Identity(Len(sys.matrix[1]))
  /\ rank' = 0 /\ solving' = "eliminate" /\ solution' = <<>>
NoSolving ==
  /\ system = NoSystem /\ matrix = <<>> /\ rhs = <<>> /\ transform = <<>>
  /\ rank = 0 /\ solving = "idle" /\ solution = <<>>
SystemInit ==
  /\ system \in Systems /\ matrix = system.matrix /\ rhs = system.rhs
  /\ transform = Identity(Len(matrix[1]))
  /\ rank = 0 /\ solving = "eliminate" /\ solution = <<>>
-----------------------------------------------------------------------------
(* The pivot is the first entry, by rows, that the fewest bits divide.       *)
TrailingZeros(n) == Max({v \in 0 .. SystemWidth : n % 2 ^ v = 0})
Entries == {p \in (rank + 1 .. Len(matrix)) \X (rank + 1 .. Len(matrix[1])) : matrix[p[1]][p[2]] # 0}
Precedes(p, q) ==
  LET v == TrailingZeros(matrix[p[1]][p[2]]) u == TrailingZeros(matrix[q[1]][q[2]])
  IN v < u \/ (v = u /\ (p[1] < q[1] \/ (p[1] = q[1] /\ p[2] <= q[2])))
Pivot == CHOOSE p \in Entries : \A q \in Entries : Precedes(p, q)

(* inverse_odd: six steps of Newton's iteration, each doubling the bits. *)
InverseOdd(u) ==
  LET inverse[k \in 0 .. 6] == IF k = 0 THEN 1 ELSE (inverse[k - 1] * (2 - u * inverse[k - 1])) % Modulus
  IN  inverse[6]

(* The pivot moved to the diagonal at r, with its row a multiple that makes   *)
(* it a power of two.                                                        *)
ColumnsSwapped(m, i, j) == [k \in DOMAIN m |-> Swap(m[k], i, j)] \o <<>>
UnitOf(n) == n \div 2 ^ TrailingZeros(n)
RowTimes(u, c) == [j \in DOMAIN u |-> (u[j] * c) % Modulus] \o <<>>
Moved(m, r, p) == ColumnsSwapped(Swap(m, r, p[1]), r, p[2])
Scaled1(m, r) == [m EXCEPT ![r] = RowTimes(@, InverseOdd(UnitOf(m[r][r])))]

(* What has to be taken from rows and columns so that the pivot is alone.    *)
Quotient(n, pivot) == n \div pivot
RowsCleared(m, r) ==
  [i \in DOMAIN m |-> IF i = r THEN m[r] ELSE Less0(m[i], Quotient(m[i][r], m[r][r]), m[r])] \o <<>>
RhsCleared(b, m, r) ==
  [i \in DOMAIN m |-> IF i = r THEN b[r] ELSE (b[i] - Quotient(m[i][r], m[r][r]) * b[r]) % Modulus] \o <<>>
(* t with multiples of column r taken from the others, as row r of m says.   *)
ColumnsCleared(t, m, r) ==
  [i \in DOMAIN t |->
     [j \in DOMAIN t[i] |-> IF j = r THEN t[i][r] ELSE (t[i][j] - Quotient(m[r][j], m[r][r]) * t[i][r]) % Modulus] \o <<>>]
    \o <<>>

(* Mutant of Combined: the columns of transform stay where they are. *)
CombinedInPlace(t, m, r, p) == ColumnsCleared(t, m, r)
Combined(t, m, r, p) == ColumnsCleared(ColumnsSwapped(t, r, p[2]), m, r)
Cleared(m, b, t, r, p) ==
  /\ rhs' = RhsCleared([b EXCEPT ![r] = (@ * InverseOdd(UnitOf(Moved(matrix, r, p)[r][r]))) % Modulus], m, r)
  /\ matrix' = ColumnsCleared(RowsCleared(m, r), RowsCleared(m, r), r)
  /\ transform' = Combined(t, RowsCleared(m, r), r, p)
Eliminate ==
  /\ solving = "eliminate" /\ Entries # {}
  /\ \E p \in {Pivot} :
       Cleared(Scaled1(Moved(matrix, rank + 1, p), rank + 1), Swap(rhs, rank + 1, p[1]), transform, rank + 1, p)
  /\ rank' = rank + 1
  /\ UNCHANGED <<system, solving, solution>>
-----------------------------------------------------------------------------
(* Mutant of Solvable: what the pivots do not reach is not looked at. *)
SolvableSoFar == \A i \in 1 .. rank : rhs[i] % matrix[i][i] = 0
Solvable ==
  /\ \A i \in 1 .. rank : rhs[i] % matrix[i][i] = 0
  /\ \A i \in rank + 1 .. Len(rhs) : rhs[i] = 0
Diagonal == [j \in DOMAIN transform |-> IF j <= rank THEN rhs[j] \div matrix[j][j] ELSE 0]
Substitute0 ==
  /\ solving = "eliminate" /\ Entries = {}
  /\ solving' = "done"
  /\ solution' = IF Solvable THEN Product0(transform, Diagonal) \o <<>> ELSE <<>>
  /\ UNCHANGED <<system, matrix, rhs, transform, rank>>

SystemNext == Eliminate \/ Substitute0
SystemSpec == SystemInit /\ [][SystemNext]_systemVars
-----------------------------------------------------------------------------
(* Where all vectors can be looked at: whatever rows and columns have been    *)
(* combined, the transform takes the solutions of the system there is now    *)
(* to those of the system that was given, all of them and no others.         *)
Vectors(n) == [1 .. n -> Residues]
Small == solving # "idle" /\ Len(transform) <= 2
SolutionsOf(sys) == {x \in Vectors(Len(sys.matrix[1])) : Product0(sys.matrix, x) = sys.rhs}
SolutionsCarried == SolutionsOf(system) = {Product0(transform, z) : z \in SolutionsOf([matrix |-> matrix, rhs |-> rhs])}
SolutionsKept == Small => SolutionsCarried

(* "no even element is ever inverted", and still the answer is a solution if  *)
(* there is one: a solution that is returned satisfies every equation, and    *)
(* none is returned only where there is none.                                *)
Satisfied == Product0(system.matrix, solution) \o <<>> = system.rhs
SystemAnswered ==
  solving = "done" =>
    /\ solution # <<>> => Satisfied
    /\ solution = <<>> /\ Small => SolutionsOf(system) = {}
=============================================================================
