# Rumba in TLA+

Rumba simplifies mixed boolean-arithmetic (MBA) expressions: terms that mix
`+ - *` with `& | ^ ~` over integers of `n` bits. This directory holds TLA+
models of the parts of it that keep state or order steps, the TLC runs that
check them on small instances and TLAPS proofs about them for all instances.
`PROJECT.json` lists components, runs, mutants, findings, hazards and theorems,
and maps every definition to the lines it models.

## The system

| Part | Source | State | Operations | What makes it correct |
|---|---|---|---|---|
| Slot pool | `bindings/c/src/pool.rs` | chain of pools: free mask, items, `complete` flag | `alloc`, `free`, `take` | masks agree with the pointers clients hold; a pointer is found in its pool; slots are reused |
| C API | `bindings/c/src/lib.rs` | thread-local expression and program pools, `LAST_ERROR` | constructors, operators, `reduce`, `simplify`, program calls | each call consumes and returns what it says |
| C++ wrapper | `bindings/c/csrc/rumba.cpp` | one pointer per object | moves, operators, destructor | one owner per slot, no null or stale pointer given to the pool |
| IR program | `core/src/lang.rs` | ordered instructions, def-use map | `push`, `append`, `simplify` (inline, sweep) | values kept, used code kept, dead code removed, map exact |
| Linear cache | `core/src/simplify.rs` | map under a mutex, two atomic tallies | `get`, `insert`, `stats`, `clear` | what is found is right for the asker; work is not repeated; tallies account for lookups |
| Fixed point | `core/src/simplify.rs` | current, best, seen expressions, pass count | a pass: frontier rewrite, then solve | exact, ends, keeps the smallest |
| Baseline diagnostics | `core/src/simplify.rs` | the same, and the edges taken | `diagnose_baseline_steps` | same computation; edges form a chain of sound steps |
| Production pipeline | `core/src/simplify.rs` | thread-local trace session, three candidate results | `simplify_mba_with_cache`: baseline, P7e, P9-L, choice | exact; session scoped to the call |
| MBA solver | `core/src/simplify.rs` | hidden atoms, degree, mask, per solver | `make_polynomial`, `hide_in_var`, `solve_linear`, PCT | exact at the width asked for |
| P9 certifier | `core/src/p9.rs` | DAG, carry states per bit | `certify_equivalent` | "proved" is sound; limits give "unknown" |
| P7b-P7f | `core/src/simplify.rs` | a scope of the trace, relations tried and kept | the closure over hidden words (P7e, in production), experiments on pairs and sums of them | what is kept holds; words that are replaced are gone |
| P8 | `core/src/p8.rs` | an expression | three passes on conjunctions of a word and a negated one, after the closure | exact, and smaller or unchanged |
| P9-P | `core/src/p9_p.rs` | matrix, right side, column transform | a polynomial fitted to samples by a modular linear system | every solution kept, a solution given if there is one; the fit is proved before use |
| P9-Poly, P10 | `core/src/p9_poly.rs`, `p10a.rs` to `p10c.rs` | none | factors and compositions replaced, products collected | exact, smaller or unchanged, within the budgets |
| P11 | `core/src/p11a.rs`, `p11b.rs` | archive of forms by key, keys, proofs tried, counterexamples | searches for a smaller form | exact; an entry of the archive equals its neighbours |
| Expressions, reduction, parser, JIT, bimap, varint | `core/src/*.rs` | none | pure functions | agree with `eval` |
| Python, wasm, CLI | `bindings/python`, `bindings/wasm`, `cli` | none of their own | wrap the core | |

How they meet. A C++ object holds a pointer that the C API got from the pool of
the calling thread. `Program::simplify` calls `simplify_mba` once per assignment.
`simplify_mba` makes a fresh `LocalCache`; a caller may pass its own cache to
`simplify_mba_with_cache`, and an `MbaCache` from several threads. The pipeline
opens the thread's trace session, runs the fixed point, whose solvers each push a
scope to the session and share the cache, takes the session back, and looks in
it for the scope that P7e works on. Solvers are recursive: a subexpression that
is not linear is solved on its own, at the width of the mask in force, and stands
behind a variable. P8, P9-P, P9-Poly, P10 and P11 stand beside the pipeline: the diagnostic
programs in `core/examples` call them on expressions or on scopes of a trace, and
they call the simplifier, the certifier and each other.

What is hard to test: interleavings of threads in the cache; the order of scopes
in the trace; a panic that unwinds between taking and giving back; pushes that
fail half way; moved-from C++ objects; the boundaries between pools; the several
exits of the fixed point. `PROJECT.json` lists them one by one under `hazards`.

## The modules

| Module | Models | Checked by |
|---|---|---|
| `SlotStore` | what a pool promises: values under pointers | refinement in `pool_chain` |
| `Pool` | `Pool::alloc`, `free`, `take` over the chain | `MCPool` |
| `PoolProofs`, `CppHandlesProofs`, `ProgramProofs`, `LinearCacheProofs`, `DiagnoseProofs`, `PipelineProofs` | proofs about the module each is named after, and what it extends | TLAPS |
| `P9Proofs` | proofs about `P9Linear` and what it extends, and about `ModularSystem` | TLAPS |
| `Inductions` | induction and recursion over naturals, sequences, finite sets; sums; powers of two: for the proofs above | TLAPS |
| `CppHandles` | class `Expression` over the C functions | `MCCppHandles` |
| `CppPrograms` | the other classes, `ExpressionRef`, `Instruction` and `Program`, extending `CppHandles` | `MCCppPrograms` |
| `Program` | `push`, `simplify`, `remove_dead` | `MCProgram` |
| `LinearCache` | `MbaCache` and `solve_linear` | `MCLinearCache` |
| `FixedPoint` | `simplify_to_fixed_point`, `simplify_mba_baseline_with_cache` | `MCPipeline` |
| `Diagnose` | `diagnose_baseline_steps`, implementing `FixedPoint` | `MCDiagnose` |
| `Pipeline` | `simplify_mba_with_cache`, extending `FixedPoint` | `MCPipeline` |
| `MbaTerms` | expressions as shared nodes, `eval`, `size`, interning, signatures, `conjunction_sum_from_signature` | `MCProduction` |
| `CarryStates` | `certify_equivalent` | `MCProduction` |
| `P9Linear` | `simplify_linear_if_smaller`, `analyze_linear`, `analyze`, extending `CarryStates` | `MCProduction` |
| `MbaTrees` | expressions as trees, extending `MbaTerms` | `MCProduction` |
| `Reduce` | `Reducer`, extending `MbaTrees` | `MCProduction` |
| `Solver` | `MBASolver`, extending `Reduce` | `MCProduction` |
| `Simplify` | `simplify_mba_baseline_with_cache` on trees, implementing `FixedPoint` | `MCProduction` |
| `Closure` | `production_p7e`, `experiment_bitwise_dependency_closure`, extending `Simplify` | `MCProduction`, `MCExperiments` |
| `Production` | `simplify_mba_with_cache` on trees, composing `Closure` and `P9Linear` | `MCProduction` |
| `Lowbit` | `p8.rs`, extending `Closure` | `MCExperiments` |
| `HiddenAtoms` | the P7b to P7f experiments on one scope, extending `Lowbit` | `MCExperiments` |
| `ModularSystem` | `solve_modular_power_of_two` | `MCExperiments` |
| `Polynomials` | `p9_poly.rs`, the fit of `p9_p.rs`, `p10a.rs` to `p10c.rs`, extending `HiddenAtoms` and `ModularSystem` | `MCExperiments` |
| `Compression` | `p11a.rs`, `p11b.rs`, extending `Polynomials` | `MCExperiments` |
| `Experiments` | what the diagnostic programs do with all of these | `MCExperiments` |

Operators whose comment says "Mutant of" are plausible wrong versions of the
definition they stand before. No specification uses them: each documents the
mistake that a property was checked to catch.

### Pool and SlotStore

Addresses are `0 .. MaxAddr`; a pool is a base address and a number of blocks of
`BlockBits` slots (64 in the code). `AllocIn(k, v)` is `alloc` ending in pool `k`
after passing over the earlier ones, `AllocGrow` is `alloc` that creates the next
pool, twice as large, anywhere it fits, touching its neighbours or not.
`Free(k, p)` and `Take(k, p)` are the calls that find `p` in pool `k` after
looking in the earlier ones, `Panic(p)` those that find it nowhere. `held`,
`returned` and `lost` are history: what clients own, what `take` gave, and what
`free` dropped without running its destructor. `PoolImplementsStore` maps the
chain to `SlotStore`.

Clients in this module are careful: they free and take pointers they hold, and
panic on any other. What C++ clients do is the subject of `CppHandles` and `CppPrograms`, where a
pool is the set of slots in use, which is what `SlotStore` lets an observer see.

### CppHandles, CppPrograms

`ptr[h]` is the pointer of object `h`, `Null`, or `Gone` when there is no object.
One action per operation of `Expression`. Every call into the pool goes through
`Release`, which records whether the pool was given null (the process aborts: a
panic cannot leave an `extern "C"` function) or a slot not in use (undefined
behaviour). `UseNull` says whether clients call operations on objects holding null,
`strayed` records that one did, or assigned to one.

`CppPrograms` adds `Program`, with a pool of its own, and the objects that own nothing.
`ref[r]` has both views of a reference: `root` is the object the client took it from,
followed through moves and given up when the client changes, consumes or destroys that
object; `at` and `good` are the slot it points into and whether what it pointed to is
still there, which the steps compute from what they do to the slots. `Through` is
a call with a reference, `Called` one with a program. Copies of a `Program`, which the compiler makes
of any move too, are `CopyProgram`; `misused` records them.

### Program

An expression is the set of variables it mentions and its value, a XOR of
variables. `Push`, `PushUndefined` and `PushRedeclared` are `push` accepted and
rejected, the rejected ones with the half of the update they leave behind.
`simplify` is a run of steps without pushes in between: `SimplifyBegin` takes the
instructions, `InlineAssign` and `InlineUnknown` process one each, `SweepScan`
and `SweepRemove` are `remove_dead`. `Simplified` is any result of `simplify_mba`
that has the value and no new variable.

### LinearCache

A thread's place in `solve_linear`, `clear` or `stats` is its `pc`. Lookup and
insert are atomic (one map operation under the mutex); tallies are atomic
increments of their own; a miss of too many variables fails after its tally
(`TooManyVariables`). A cached solution is the width it was found at; what it says is
`Solver`'s subject. `Known` is the size `stats` reads.

### FixedPoint, Diagnose, Pipeline

An expression is a value (the set of bits that are one), a size and a number of
alternations. A pass is any
exact frontier rewrite that costs no more, and any exact solve: the printed length,
which decides between rewrites of equal cost, is left to `Simplify`. `Check` is the end
of a pass: stable, seen, limit or next. `Diagnose` is written from the text of the
diagnostic loop, with one action per exit, and is shown to implement
`FixedPoint`. `Pipeline` extends `FixedPoint` with the session and the stages. Its trace is
`first`: for every input, the width of the first scope with atoms, which is all that
`trace.iter().find` can see. A hidden subexpression is smaller than the
expression it is part of. A `Panic` leaves session and trace to the thread, whose host
may catch it and call again; `BeginRefused` is the assertion that then fails (`PanicIsFinal`). Here the stages are any exact ones; `Production` has them
as the code has them.

### MbaTerms, CarryStates, P9Linear

These keep expressions as they are. An expression is a sequence of nodes, each
after its children, and the root; a word is the set of its one bits. `Values`
is `Expr::eval` on all nodes. `Coefficients` gives each conjunction what is left
of its entry of the signature once `sub_coeff` has taken off those of its subsets.

`CarryStates` is the certifier: `OverVariables`, `Unfit` and `OverNodes` are its
early exits, `Begin` interns both expressions in one table, `Explore(p)` is one
turn of the two inner loops (a carry vector and a symbol, in the code's order),
`NextBit` the end of the outer one. `Totals` is `Machine::step`: the
bit of a node is its total modulo two. The vectors are ordered by the
position of their node, where the code orders them by carry slot; a slot is given
to a node when its children are done, so the orders agree.

`P9Linear` has a mode for each caller. `Candidates` are the
projections from the cube {0, 1}. Inputs are expressions as
`normalize_p9_expression` leaves them; `Production` has that function, and checks
that it leaves the size of what the simplifier hands on alone. `reduce` of a candidate keeps its
form but for a conjunction of one variable, and a sum at one bit.

### MbaTrees, Reduce, Solver

The ordinary simplifier rewrites trees, and these modules rewrite the same trees
by the same rules, one operator per function of the code. What the machine's 64
bits are to the code, `MachineBits` is here: constants such as -1 have all of
them, and masks cut them to the width asked for. The order of operands is the
code's (`Below` is the derived `Ord` of `Expr`), because keys of the cache and
equality of expressions depend on it; where the code iterates a hash map, what it
collects is sorted afterwards.

A solver's state is a record, threaded through `MakePolynomial` and the operators
under it as `&mut self` is in the code: the width, the next free variable, the
degree, the hidden expressions. `SolveAt` is `simplify_mba_inner`; `Hide` calls it at
the width of the mask in force. Solvers nested in one another share `call`: the
cache, whether a solution in it was used at another width than it was found at
(`mixed`, history), and the expressions whose solver hid something, which is what
is left of the trace once scopes without atoms are dropped. An error is a field
of the state; after one nothing is done.

### Simplify

One step is one call of the code's outer loop: `ReduceOnce`, then `NormalizeFrontier`,
`SolvePass` and `EndPass` for each pass. Frontier rewrites of equal cost are told
apart by the length of what the code prints (`Printed`: operators, parentheses by
precedence, digits). `view` is history: the expressions held, as
`FixedPoint` sees them (bits on all inputs, size, alternations, and a code that
tells expressions apart). `ImplementsFixedPoint` says that each step is a step
of `FixedPoint`, the specification that `PipelineProofs` and `DiagnoseProofs`
build on: there a pass is any exact one, here it is what the code does.

The exactness properties have a gate: once `mixed` is set nothing is promised, since a solution found
at another width may be wrong. The gate is not vacuous: most calls never mix
widths, and `simplify_widths` shows that without it the value is lost.

### Closure and Production

`Closure` takes the simplifier's result (`base`), finds the first scope of the trace
with that input (`FindScope`), and works in it round by round. `StartRound` opens a round
with the hidden words of the result; `ProveTarget` takes one of them, infers
from samples the bitwise functions of its parents that nothing contradicts, tries
them from the smallest up and keeps the first that the simplifier proves; `EndRound` puts what
was proved for its words and simplifies again; `Conclude` ends when nothing
new was proved, nothing is left, or the passes are used up. `Hashed` is what the hash
gives for samples; the patterned samples are the code's. `doubtful` is to the closure what
`mixed` is to one call: some proof of this closure used a solution at another width.

`Production` composes the stages as the code does: the ordinary simplifier,
the closure, `simplify_linear_if_smaller` on what the closure hands on (`HandOn`), and
the least costly of the three results (`Choose`). The certifier's
other callers start in stage `certified`, on expressions of their own.

### HiddenAtoms, Lowbit

An experiment of `HiddenAtoms` begins with the relations it will try, in the code's order
(`BeginDirect`, `BeginComplement`, `BeginAliases`, `BeginTernary`, `BeginExpected`), takes them
one by one (`TryRelation`) and ends with what is proved put for the words (`EndTrial`). A
relation is a target, what it would be, and the expression that must simplify
to zero. `experiment_guided_ternary_relations` begins with the aliases, as in the
code.

`Lowbit` has the three passes as operators, since each is one call that keeps no
state; `Experiments` runs them in the order of `experiment_pipeline`. `Divisibility` is
`DivisibilityAnalyzer`, `Saturated` the saturation of `SubmaskDomain`. Word terms are the
expressions they print as.

### ModularSystem, Polynomials

A step of `ModularSystem` is one column: the pivot with the fewest trailing zeros, rows
and columns swapped, the pivot made a power of two, the rest of its column and row
cleared. `transform` says what the columns have become; `Substitute0` solves the
diagonal and transforms back. `WellFormedSystem` is what the function asserts of a system and
its masking makes of the entries (`p9_p.rs:99-116`), with at least one row and one column: a fit has the
constant monomial among its columns. What holds of the steps is proved for all such systems, of any size;
TLC looks at all vectors where there are no more than two unknowns (`Small`).
The theorems are about `SystemSpec`, one system on its own; in the runs `Experiments` takes the same steps, from
a system of `MCExperiments` or from one a fit has built.

`Polynomials` keeps one operator per function. Where a function of the code asks the
certifier, the module uses what `ProvedIsEqual` and `CounterexampleReplays` show of it in `production`:
inside the fragment and the limits on variables and nodes it says whether the
expressions agree. Its limit on carry states is not reached by such
expressions and is left out here.

### Compression

P11a is a state machine: `nodes11` is the stack of `compress_node`, `visiting` the node
that is entered next. `EnterNode` computes the key and archives the node, `NextChild` goes
down, `Propose` collects the candidates that cost less than the node and match it on samples,
`Consider` takes or drops the next one, `LeaveNode` returns the best to the parent. `memory`
is what outlives a node: archive, keys, outcomes and number of proofs, counterexamples.
P11b is one operator, `SynthesizeCarry`: the words of its grammar in order, of which the
next that is smaller than the best is given to the prover until the proofs are used up.

### Experiments

One behaviour is one call: an analysis of an expression (`Analyze`, `BeginFit`,
`Compressing`, `Synthesize`), a system on its own, or a call of the simplifier with its
trace (`Trace`), after which one scope of the trace is given to an experiment of `HiddenAtoms` or to
`experiment_pipeline`. The code's tests also put scopes together by hand, with atoms no
solver would leave; `HandScopes` are such scopes.

Two things the trees do not tell are chosen at the beginning or with the call and then kept.
`full`: the later stages of `simplify_mba` may see that something is zero where the baseline
does not; the two extremes (never, always) are tried. `flip`: which of two texts
of expressions with as many nodes comes first; an order on trees and its reverse are tried.

The experiments share one `LocalCache` over several calls in the code; here each call
has its own. The subjects have no constant that narrows the width, so that a solution at
another width, which is the difference this could make, is not met;
`simplify_widths` has the case.

## The runs

| Run | Question | Bounds |
|---|---|---|
| `pool_chain` | do masks, flags and pointers agree in every layout, and is the chain a store? | 3 pools of 1, 2, 4 slots, 8 addresses, 1 value |
| `program_simplify` | is simplify right on every program, what survives rejected pushes, does it end? | 4 identifiers; pushes rejected in programs of at most 1 instruction |
| `program_removes_used` | (violated) is only unused code removed? | 2 identifiers |
| `cache_shared` | is work repeated by a thread, with clears racing; do the tallies account for the lookups? | 2 threads, 3 keys, 3 lookups between clears |
| `diagnose` | chain of sound edges, same computation? | 7 expressions, 3 passes |
| `pipeline_calls` | exact through all stages, session scoped, with errors and panics? no result after a panic? smallest kept, each call ends? | 6 expressions, 3 passes, 2 calls, widths 1 and 2 |
| `production` | does each call keep the value and implement the fixed point; are hidden variables and copies taken back; do the closure's dependencies hold and point to older words; is what the certifier proves equal, and what it refutes different; does nothing unproved replace an expression? | 340 expressions to simplify, 2 passes, 2 rounds of the closure, thousands of pairs of expression and limits to certify, 3 bits, machine words of 4, 2 variables |
| `production_scopes` | (violated) is every stage exact at the width asked for, with a scope that is narrower? | 2 expressions, 3 bits |
| `experiments` | do the relations hold that are proved of hidden words, and are the words gone that they replace; do the low-bit passes, the analyses and the searches return what they were given or a smaller equal; has the archive equal forms under a key; does elimination keep the solutions and answer when there is one? | 9 expressions and 12 scopes by hand, 5 expressions to compress in 2 rounds, 540 systems of 2 and 3 rows, 3 bits, 2 variables |
| `simplify_widths` | (violated) is the ordinary simplifier exact? | 1 expression, 3 bits |
| `handles_any` | one owner per slot, whatever clients do with objects of all classes; do references hold; who aborts? | 3 expressions and slots, 2 programs and slots, 1 reference |
| `handles_moved` | (violated) may a client assign to a moved-from object? | 4 objects, 4 slots |

Why the bounds are enough. Three pools give a pool before and one after the one
that owns a pointer, and eight addresses leave a gap so that pools touch or do
not. Four instructions give a chain of two assignments between two unknowns, and
a diamond. Two threads give every race on one key. Three passes give a cycle of two before the limit and at the
limit. Two values that differ in the high bit only are what a mistake about
the width confuses. Every expression of two operations at three bits has
additions under bitwise operations and back, negative coefficients, and carries out
of each bit but the last; the limits are met on variables, nodes and states. The
expressions to simplify have products of sums, constants that are masks, sums under
bitwise operations on both sides, and sums shared by two operands: they reach
two factors, nested solvers at a narrower width, cached solutions used at both,
frontiers rewritten, refused and tied, sums that are bitwise only after a
variable substitution (of both kinds), hidden constants that are functions of others, and, the eight passes of the code cut to
two, the limit. No cycle of expressions was found among them; `pipeline_calls` has
those. The machine word is one bit
wider than the width asked for, so that a constant that is not masked shows.
The budgets of the experiments (`MCBounds`) are such that most of them are met: proofs and
promotions run out, the archive is full, polynomials are given up as too
large. Two budgets of P11 on the number of candidates are far from any such
subject and are left out. Systems of three bits have pivots of valuation zero, one and two,
rows that vanish, and right sides that cannot be met.
Three expressions are two operands and a result, or a bystander where there is one
operand; two programs are a program and its copy; no step relates two references but those that make one
like another.

Some runs stop: after an abort or a panic of the process, at the end of a call,
or when the bound on lookups or calls is used up. Those have
`CHECK_DEADLOCK FALSE`.

Fairness. Only `pipeline_calls` needs any: weak fairness of the steps of a call that
has begun, which the code runs in one thread with nothing to wait for. That a
call of `Program::simplify` ends is shown without fairness, by `SimplifyEnds`: every step
takes some of a finite amount of work. Nothing is assumed of clients.

## What the violated runs show

- `program_removes_used`: `push v0 = unknown()`, `v1 = v0`, `v2 = unknown(v1)`,
  then a second `v1 = ...` is rejected, but its use set is already replaced; the
  next `simplify` removes `v1` although `v2` uses it. (The run finds a variant
  with two identifiers.)
- `simplify_widths`: in `(3 & s) + (y | s)` with `s = (x ^ y) + x`, `s` is solved at
  two bits under the mask, as `2x + y + 2(x & y)`, where -2 is 2; the solver
  of three bits finds that in the cache and uses it under the `|`. For x = y = 1 the
  result is 6, the source 2. One thread and one call are enough.
- `production_scopes`: the base was first met as a hidden subexpression under a
  narrower mask, P7e works at that width and its smaller, inexact result wins.
  (That such a scope is met needs an input which mentions an expression both
  under a mask and outside it, with the masked mention cancelling in the solve.)
- `handles_moved`: `e = std::move(e) + f` frees null and aborts.

Five more disagreements with the source's words have no run. `Program` has a destructor
and no copy or move of its own, so that a copy, which a move is too, frees the slot a
second time, by then perhaps another program's; the caller of `rumba_program_free`
"promises that p is a valid pointer to a program" (`lib.rs:448`): `CopyProgram`, after
which `SoleOwners` and `NothingStale` promise less. `ptr.drop_in_place()`
is applied to a `*mut c_void` (`pool.rs:104`), so that what a freed expression or program owns
is never released, though `rumba_expr_free` is there to free it (`lib.rs:113`): `FreeDropsValue`. A rejected push
leaves its uses behind, so what it mentions is never dead again, though
`remove_dead` "Removes all unused assignements" (`lang.rs:201`): `UsesExact` and
`NothingDeadLeft` are stated without rejected pushes. A panic the host catches
leaves the trace session open, and each later call of the thread fails an assertion that
speaks of nesting (`simplify.rs:3453`): `PanicIsFinal`. A `simplify` the solver
rejects leaves a C++ object with a null pointer, and the expression is gone,
though `SolveError` is there so that a caller can "keep its original expression"
(`simplify.rs:2147`): `SimplifyFails`.

## The proofs

Each proof module proves, for every value of the constants that satisfies the
module's named assumption, what the runs check on a small instance.

- `PoolProofs`. The inductive invariant adds to the type invariant that the slices of the
  chain do not overlap (`Layout`); without it a slot freed in one pool could lie
  in another. From it: masks and pointers agree, complete pools are full, held
  pointers are found and initialised, and the chain implements `SlotStore`.
- `DiagnoseProofs`. That the current expression has been seen (`SeenCurrent`) is what
  makes the stable exit, which records nothing, a step of the ordinary loop. The
  chain and the numbering of edges rest on two lemmas about appending an edge.
- `PipelineProofs`. First the fixed point. `FPInv`: every expression the loop holds
  has the value of the argument (`AllSame`), and `best` is the least of those seen,
  among them the current one (`BestLeast`). Every exit of the loop then returns an exact
  expression. Nothing is used of `Value` but equality. Then the pipeline, built on
  `FPInv`, which every call establishes again.
  `StagesSame`: the base equals the argument at the width asked for, what comes
  after it at the width of the scope the closure works in. `PipelineExact` follows, and,
  if no scope is narrower, `EveryStageExact`; with narrower scopes that is
  false, as `production_scopes` shows on expressions.
- `CppHandlesProofs`. The invariant says slot by slot that owners and slots in use
  correspond one to one while the process runs (`Owned`, `ProgramsOwned`), and that a reference
  the client still has points into the slot its object owns now (`RefHeld`), though the object may
  have come by it through moves. What the whole wrapper does to Expressions implements
  `CppHandles` (`ExpressionsBehave`), so that its invariant is used as it stands.
- `ProgramProofs`. `ProgramInv` has, beside the type invariant: the instructions are
  distinct and are what is declared (`Placed`), each mentions earlier ones only
  (`DefsFirst`), those already processed mention unknown instructions only
  (`InlinedDone`), the queue of a sweep holds dead assignments (`QueueDead`), and the map is
  exact (`MapExact`). Only the last is gated by `rejected`; the others hold whatever was rejected
  before, and are why `simplify` finds everything it looks up. That
  assignments keep their values (`ValuesSurvive`) needs what `XorOf` of a symmetric
  difference is, for any two sets of variables. `SimplifyReturns` needs that inlining
  and removing an instruction shorten what is left.
- `LinearCacheProofs`. A key a thread has solved is in the map or about to be
  inserted by that thread, and a thread past its lookup has not solved the key
  yet (`SolvedKept`). For the tallies: besides the sum itself, each entry of the map and
  each thread that is solving has a miss of its own, and what a thread has read of the
  tallies is no more than there is (`TalliesKept`).
- `P9Proofs`. Five parts.
  (1) A run of the bit-serial machine feeds it the bits of some words. `ScanInv`: all runs of
  `bit` bits agree and end in `states`, runs one bit longer end in `next` or are still in
  `todo`, and the words kept for a vector do lead to it. So keeping one input for each
  vector is enough for `ProofsCoverEveryRun`, and what is kept is real
  (`CounterexamplesAreReal`).
  (2) A run computes the words. Interning keeps the word of every node
  (`InternCopies`), so the shared nodes have the words of the two expressions (`DagShares`).
  Over the nodes, children first: if the children's totals are the bits of their words and the
  carries are quotients of what the children's low bits add up to, the same holds for the
  node, at this bit (`SlotBit`, `NodeBit`) and then at the next (`MachineStep`). Coefficients
  count as signed numbers here, and the quotients are rounded down. From (1) and (2):
  `ProvedPairsAreEqual`, `CounterexamplesReplay`, `CarriesAreTheQuotients`.
  (3) What the simplifiers return. `FormInv`: candidates are well formed and mention
  variables of the expression only (`Over`), through interpolation, choice and queue; then
  equality on the inputs of both is equality on the inputs of the expression, and
  `ResultsAreExact` follows.
  (4) A linear expression and its own projection. `LinearIsStepwise`: in a sum of multiples of
  constants and bitwise functions, what a bit of the variables adds to the word is
  what it adds at bit zero, shifted, modulo two to the width. Two such functions that agree where
  every variable is zero or one agree everywhere (`CornersDetermine`). `CoefficientsSolve`:
  by induction over the sets of variables, the coefficients below a corner add up to the signature
  there; and a conjunction is one at the corners above its variables and zero elsewhere, so the
  projection has the expression's words at the corners (`ConjunctionSumAtCorner`) and on every
  input (`ProjectionExact`). The candidate the certifier looks at is the projection (`ProjectedInv`), a
  counterexample would tell the two apart (part 2), and `LinearIsNeverRefuted` follows.
  (5) The elimination of `p9_p.rs`. Sums and products are compared modulo two to the width
  (`Congruent`). `InverseForm`: if `inverse * u` is one up to a multiple of m, after
  Newton's step it is up to a multiple of m^2, so six steps, the code's number, are
  right for 64 bits, and an odd factor has an inverse. The pivot has the fewest trailing zeros of
  what is left, so it divides its row and column once it is a power of two. Swapping two rows, multiplying a row by a unit
  and taking multiples of a row from others keep the solutions. Swapping two columns and taking multiples of
  a column from others is a one-to-one change of the variables, which `transform`
  follows (`VariablesChanged`). `SystemInv`: the matrix is diagonal, with
  powers of two, as far as `rank` says, and zero beside it; and the solutions of the system there is
  now are taken by `transform` to those of the system that was given, all of them and no others
  (`SolutionsCarried`, without the bound of `Small`). A diagonal equation with pivot 2^v has a solution just
  if 2^v divides its right side. So the function returns a solution if there is
  one, as its `debug_assert` at the end says (`p9_p.rs:220-229`), and nothing only if there is none.

How induction is done. The library's induction theorems take the predicate as an operator, which
the provers here cannot instantiate. `Inductions` states them with the set of what satisfies the
predicate instead; the base is that a nonempty set of naturals has a least member
(`WFMin`, which takes sets). That a recursive function is defined everywhere is proved
once for recursion by rank (`RankRecursion`) and used for the values of nodes, totals, coefficients
and sums over sets; sums are split, renamed and multiplied (`SumTake`, `SumRenamed`, `SumTimes`). The exponential is built in and the provers know nothing of it: powers of two are met
as numbers of subsets (`PowNext`, from the library's theorem on the cardinality of `SUBSET`).

What is assumed. `ExprsAssumption` says that the expressions given to the certifier and the
simplifiers are well formed: nodes after their children, one operand under a negation or
a coefficient. This is how `DagBuilder` numbers them and what the type `Expr` allows.
`LimitsAssumption` gives limits their types. `SystemAssumption` has the assertions at the start of
`solve_modular_power_of_two` and the widths it accepts, 1 to 64. Only the last bounds the width, and none bounds the
number of nodes, variables, rows or columns, or the coefficients. Nothing else is assumed but the width being
positive, and what the other modules name.

Some of what is proved is not among the properties the runs check, because the theorem says more:
type correctness of `Pool`, `LinearCache`, `FixedPoint`, `Diagnose` and `Pipeline`, `EdgesSound`,
`EveryStageExact`, and `SystemInv`, which TLC has checked beside
`SolutionsKept` on systems of up to two unknowns. `RemovesUnusedUnlessRejected` is the other side of
`program_removes_used`: without a rejected push, what the comment says is so.

Only model-checked: that a call of the ordinary simplifier returns (`PipelineEnds`, liveness under
fairness); and everything about trees: `Reduce` to `Experiments` but `ModularSystem` are written with
recursive operators over expressions, of which the prover can prove nothing.

## Not modelled, and why

The queries of `expr` and `varint` that nothing above calls, the parser and the JIT keep no
state; the JIT is cranelift's. The panic of `find_lambda_int` on the least 64-bit
integer is `Pipeline`'s `Panic`; at small widths its arithmetic has no such case. The
counters of the frontier and the metrics of the experiments decide nothing; the
tracker of P11a (`diagnose_target_subtrees`) only observes. The C API's `rumba_expr_parse` and `rumba_expr_get_child_mut` have no caller in the C++ wrapper; the string
`rumba_expr_repr` returns is never freed, which no state here shows. The Python, wasm and command-line layers clone
values in and out of the core. Mixed widths in one program are a TODO of the
source (`lang.rs:247`); the model has one width. Poisoning of the cache's mutex
is left out: nothing between lock and unlock can panic but an allocation. The
programs under `core/examples` enumerate cases and count what the experiments
make of them; `Experiments` has the calls they make.

## Plan

1. Proofs about `Solver`'s pieces that need no recursion, such as `BitwiseSignature`
   and `FindLambda`, in a module apart from the recursive operators.
2. The pools of several threads, with the end of a thread, which frees what its pools hold.
