------------------------------ MODULE Simplify ------------------------------
(***************************************************************************)
(* simplify_mba_baseline_with_cache (core/src/simplify.rs) on expressions   *)
(* themselves: reduce, then passes of bitwise-frontier normalisation and of *)
(* the solver, to a fixed point.  FixedPoint is what it promises.          *)
(***************************************************************************)
EXTENDS Solver

CONSTANTS
  SourceVars, \* the variables are 0 .. SourceVars - 1
  Sources,    \* expressions calls are made with
  MaxPasses,  \* MAX_SIMPLIFICATION_PASSES
  MaxAtoms,   \* MAX_FRONTIER_ATOMS
  SizeFactor  \* MAX_TRANSFORMED_AST_FACTOR

ASSUME SimplifyAssumption ==
  /\ MaxPasses \in Nat \ {0} /\ MaxAtoms \in Nat /\ SizeFactor \in Nat
  /\ MaxVars \in Nat /\ BitwiseVars \in Nat /\ SourceVars \in Nat

VARIABLES
  source,  \* the argument of the call
  step,    \* what the call does next
  cur,     \* the expression the pass starts from
  mid,     \* the expression given to the solver
  solved,  \* what the solver returned
  seen, best, pass,
  call,    \* the cache and the trace the solvers share
  answer,
  error,
  view     \* history: the expressions held, as FixedPoint sees them

codeVars == <<source, step, cur, mid, solved, seen, best, pass, call, answer, error>>
simplifyVars == <<codeVars, view>>

Steps == {"reduce", "frontier", "solve", "check", "done", "failed"}
Running == {"reduce", "frontier", "solve", "check"}

Bitwise == {"not", "and", "or", "xor"}
Arithmetic == {"add", "scale", "mul"}

(* arithmetic_bitwise_alternations, under a parent of that domain. *)
Kind(e) == IF e.op \in Bitwise THEN Bitwise ELSE IF e.op \in Arithmetic THEN Arithmetic ELSE {}
RECURSIVE Alternations(_, _)
Alternations(e, parent) ==
  LET here == IF Kind(e) = {} THEN parent ELSE Kind(e)
  IN (IF parent \notin {{}, here} THEN 1 ELSE 0)
       + SumOver(LAMBDA c : Alternations(c, here), e.args)

(* An expression as FixedPoint sees it: its bits on all inputs, one input     *)
(* after the other, its size and its alternations, and which one it is.      *)
InputNumbers == 0 .. 2 ^ (Width * SourceVars) - 1
Input(i) == [v \in 0 .. SourceVars - 1 |-> Word(i \div 2 ^ (Width * v))]
BitsOf(e) == UNION {{i * Width + b : b \in TreeEval(e, Input(i))} : i \in InputNumbers}
RECURSIVE Code(_)
Code(e) == <<Rank(e.op), e.k, Len(e.args)>> \o FlattenSeq([j \in DOMAIN e.args |-> Code(e.args[j])])
NotSeen == [val |-> {}, size |-> 0, alt |-> 0, code |-> <<>>]
Seen(e) ==
  IF e = NoTree THEN NotSeen
  ELSE [val |-> BitsOf(e), size |-> TreeSize(e), alt |-> Alternations(e, {}), code |-> Code(e)]
View(so, c, m, sd, sn, b, a) ==
  [source |-> Seen(so), cur |-> Seen(c), mid |-> Seen(m), solved |-> Seen(sd),
   seen |-> {Seen(e) : e \in sn}, best |-> Seen(b), answer |-> Seen(a)]

(* The variables of an expression are those of the source: no variable that   *)
(* stood for something hidden, or for a copy of another, is left in it.      *)
Speaks(e) == TreeVars(e) \subseteq TreeVars(source)
SimplifyTypeOK ==
  /\ step \in Steps
  /\ pass \in 0 .. MaxPasses /\ (step \in Running => pass < MaxPasses)
  /\ step = "failed" <=> error # "none"
  /\ \A e \in {cur, best} \cup seen : Speaks(e)
  /\ step \in {"solve", "check"} => Speaks(mid)
  /\ step = "check" => Speaks(solved)
  /\ step = "done" => Speaks(answer)
-----------------------------------------------------------------------------
SimplifyInit ==
  /\ source \in Sources /\ cur = source /\ best = source
  /\ mid = NoTree /\ solved = NoTree /\ answer = NoTree
  /\ step = "reduce" /\ seen = {} /\ pass = 0
  /\ call = NewCall /\ error = "none"
  /\ view = View(source, cur, mid, solved, seen, best, answer)

ReduceOnce ==
  /\ step = "reduce"
  /\ cur' = Reduced(source, Width)
  /\ best' = cur' /\ seen' = {cur'}
  /\ step' = "frontier"
  /\ UNCHANGED <<source, mid, solved, pass, call, answer, error>>
-----------------------------------------------------------------------------
(* abstract_bitwise_frontier: the bitwise nodes at the top of e, over atoms.  *)
AtomOf(key, s) ==
  LET Place == SelectInSeq(s.atoms, LAMBDA a : a = key)
  IN IF Place # 0 THEN Answer(V(Place - 1), s)
     ELSE IF Len(s.atoms) = MaxAtoms THEN Fail(key, s, "too many atoms")
     ELSE Answer(V(Len(s.atoms)), [s EXCEPT !.atoms = Append(@, key)])
RECURSIVE Abstracted(_, _)
Abstracted(e, s) ==
  IF e.op \in Bitwise THEN Over(e, s, Abstracted)
  ELSE IF IsConst(e) /\ BitwiseConst(e.k, s.n) THEN Answer(e, s)
  ELSE AtomOf(Reduced(e, s.n), s)

(* normalize_one_bitwise_frontier: e itself if it is given up. *)
Projected(e, atoms, w) ==
  LET n == Len(atoms)
  IN Reduced(Subst(SumOf(TreeSignature(e, 0 .. n - 1, w), n, w),
                   [i \in 0 .. n - 1 |-> atoms[i + 1]]), w)
InBudget(f, e) == IF TreeSize(f) > SizeFactor * TreeSize(e) THEN e ELSE f
Renormalized(a, e) ==
  IF Fails(a) \/ ~\E i \in DOMAIN a.s.atoms : a.s.atoms[i].op \in Arithmetic THEN e
  ELSE InBudget(Projected(a.e, a.s.atoms, a.s.n), e)
NormalForm(e, w) == Renormalized(Abstracted(e, [atoms |-> <<>>, n |-> w, err |-> "none"]), e)

RECURSIVE Rewritten(_, _)
Rewritten(e, w) ==
  IF e.op \in Bitwise THEN NormalForm(e, w)
  ELSE With(e, [j \in DOMAIN e.args |-> Rewritten(e.args[j], w)])

(* Expr::repr, by its length: constants are written in hexadecimal with their *)
(* best sign, a negative one in parentheses, and so is an operand that binds  *)
(* no tighter than its operator.                                             *)
RECURSIVE Digits(_, _)
Digits(n, base) == IF n < base THEN 1 ELSE 1 + Digits(n \div base, base)
ConstLength(k) ==
  IF k < 2 ^ (MachineBits - 1) THEN 2 + Digits(k, 16) ELSE 5 + Digits(AllOnes + 1 - k, 16)
Precedence(op) ==
  CASE op \in {"var", "const"} -> 0 [] op = "not" -> 2 [] op \in {"mul", "scale"} -> 3
    [] op = "add" -> 4 [] op = "and" -> 8 [] op = "xor" -> 9 [] op = "or" -> 10
RECURSIVE Printed(_)
Printed(e) ==
  LET Length(a) == Printed(a) + IF Precedence(e.op) <= Precedence(a.op) THEN 2 ELSE 0
  IN SumOver(Length, e.args)
       + CASE e.op = "var" -> 1 + Digits(e.k, 10)
           [] e.op = "const" -> ConstLength(e.k)
           [] e.op = "scale" -> ConstLength(e.k) + 3
           [] e.op = "not" -> 2
           [] OTHER -> 3 * (Len(e.args) - 1)

(* expr_cost: alternations, then nodes, then the printed length. *)
Cost(e) == <<Alternations(e, {}), TreeSize(e), Printed(e)>>

(* Mutant of CostsLess: only the size counts. *)
SmallerOnly(c, d) == c[2] < d[2]
CostsLess(c, d) == \E i \in 1 .. 3 : c[i] < d[i] /\ \A j \in 1 .. i - 1 : c[j] = d[j]

(* normalize_bitwise_frontier: what a pass goes on with. *)
Preferred(candidate, e) ==
  IF candidate # e /\ TreeSize(candidate) <= SizeFactor * TreeSize(e)
       /\ (candidate = Zero0 \/ CostsLess(Cost(candidate), Cost(e)))
  THEN candidate ELSE e
CandidateFor(f, e, w) == IF f = e THEN e ELSE Preferred(Reduced(f, w), e)
NormalizedFrontier(e, w) == CandidateFor(Rewritten(e, w), e, w)

NormalizeFrontier ==
  /\ step = "frontier"
  /\ mid' = NormalizedFrontier(cur, Width)
  /\ step' = "solve"
  /\ UNCHANGED <<source, cur, solved, seen, best, pass, call, answer, error>>
-----------------------------------------------------------------------------
SolvePass ==
  /\ step = "solve"
  /\ \E r \in {SolveAt(mid, Width, call)} :
       /\ call' = r.s.call
       /\ error' = r.s.err
       /\ IF Fails(r) THEN step' = "failed" /\ UNCHANGED solved
          ELSE step' = "check" /\ solved' = r.e
  /\ UNCHANGED <<source, cur, mid, seen, best, pass, answer>>

Kept(next, b) == IF TreeSize(next) < TreeSize(b) THEN next ELSE b
Ends(e) == step' = "done" /\ answer' = e /\ UNCHANGED cur
EndPass ==
  /\ step = "check"
  /\ best' = Kept(solved, best)
  /\ pass' = pass + 1
  /\ seen' = seen \cup {solved}
  /\ IF solved = cur THEN Ends(solved)
     ELSE IF solved \in seen \/ pass' = MaxPasses THEN Ends(best')
     ELSE step' = "frontier" /\ cur' = solved /\ UNCHANGED answer
  /\ UNCHANGED <<source, mid, solved, call, error>>

Pass == ReduceOnce \/ NormalizeFrontier \/ SolvePass \/ EndPass
SimplifyNext == Pass /\ view' = View(source', cur', mid', solved', seen', best', answer')
SimplifySpec == SimplifyInit /\ [][SimplifyNext]_simplifyVars
-----------------------------------------------------------------------------
(* The same call as an operator, for the callers that only use its result:    *)
(* simplify_to_fixed_point from the k-th pass on, and simplify_mba_baseline.  *)
RECURSIVE Passes(_, _, _, _, _, _)
AfterPass(r, e, b, met, k, w) ==
  IF Fails(r) \/ r.e = e THEN r
  ELSE IF r.e \in met \/ k = MaxPasses THEN [r EXCEPT !.e = Kept(@, b)]
  ELSE Passes(r.e, Kept(r.e, b), met \cup {r.e}, k + 1, w, r.s.call)
Passes(e, b, met, k, w, shared) ==
  AfterPass(SolveAt(NormalizedFrontier(e, w), w, shared), e, b, met, k, w)
FromReduced(e, w) == Passes(e, e, {e}, 1, w, NewCall)
Baseline(e, w) == FromReduced(Reduced(e, w), w)
-----------------------------------------------------------------------------
FP == INSTANCE FixedPoint WITH
  Expr <- [val : SUBSET Nat, size : Nat \ {0}, alt : Nat, code : Seq(Nat)],
  Width <- Width * 2 ^ (Width * SourceVars), NoExpr <- NotSeen,
  input <- view.source, pc <- step, cur <- view.cur, mid <- view.mid, next <- view.solved,
  seen <- view.seen, best <- view.best, result <- view.answer

(* Until a solution is used at another width than it was found at, the call   *)
(* does what the abstract simplifier promises: every pass keeps the value, a *)
(* frontier is rewritten only to cost less, and the smallest is kept.        *)
ImplementsFixedPoint == FP!FPInit /\ [][~call'.mixed => FP!FPNext]_simplifyVars

(* SolveError: "Indicates an inconsistent variable map rather than a hard     *)
(* input".  However solvers nest, hide and share, none meets a variable it    *)
(* cannot restore nor a form it cannot turn back.                            *)
NeverInconsistent == error \notin {"unknown variable", "unrecognized form"}

(* simplify_mba_with_cache: "Every stage is exact", here of the ordinary one. *)
BaselineExact ==
  step = "done" => \A i \in InputNumbers : TreeEval(answer, Input(i)) = TreeEval(source, Input(i))
=============================================================================
