---------------------------- MODULE CarryStates ----------------------------
(***************************************************************************)
(* certify_equivalent (core/src/p9.rs): decides whether two expressions    *)
(* without products of words are equal at the width.  It adds and scales   *)
(* bit by bit: a node that adds or scales keeps a carry, and the reachable *)
(* vectors of carries are explored one bit at a time, each with the input  *)
(* words that reach it first.                                              *)
(***************************************************************************)
EXTENDS MbaTerms

CONSTANT NoVerdict

VARIABLES
  expression, candidate,
  limits,       \* P9Limits: [vars, nodes, states, candidates]
  pc,
  nodes,        \* the shared nodes of both
  left, right,  \* their roots
  bit,          \* bit_index
  states,       \* the carry vectors at this bit, and the words that reach them
  todo,         \* pairs of a vector and of a symbol still to explore
  next,         \* next_states
  largest,      \* max_reachable_states
  verdict

scanVars == <<nodes, left, right, bit, states, todo, next, largest>>
certVars == <<expression, candidate, limits, pc, scanVars, verdict>>

Slots(ns) == {i \in DOMAIN ns : ns[i].op \in {"add", "scale"}}
Zero(ns) == [i \in Slots(ns) |-> 0]
Carries == [Slots(nodes) -> Int]
AllVars == VarsOf(expression) \cup VarsOf(candidate)
Symbols == SUBSET AllVars   \* the variables whose bit is one

Proved(n) == [kind |-> "proved", states |-> n]
Unknown(reason, n) == [kind |-> "unknown", reason |-> reason, states |-> n]
Unsupported == [kind |-> "unsupported"]
NotEqual(words) == [kind |-> "differ", values |-> words, bit |-> bit, states |-> largest]

CertTypeOK ==
  /\ pc \in {"start", "offer", "check", "scan", "decided", "done"}
  /\ pc = "decided" => verdict # NoVerdict
  /\ pc = "scan" =>
       /\ bit \in Bits
       /\ left \in DOMAIN nodes /\ right \in DOMAIN nodes
       /\ DOMAIN states \subseteq Carries /\ DOMAIN next \subseteq Carries
       /\ Cardinality(DOMAIN next) <= limits.states
       /\ todo \subseteq (DOMAIN states) \X Symbols
       /\ largest \in Nat \ {0}
       /\ \A c \in DOMAIN states : states[c] \in [AllVars -> SUBSET (0 .. bit - 1)]
       /\ \A c \in DOMAIN next : next[c] \in [AllVars -> SUBSET (0 .. bit)]
-----------------------------------------------------------------------------
NoScan ==
  /\ nodes = <<>> /\ left = 0 /\ right = 0 /\ bit = 0
  /\ states = <<>> /\ todo = {} /\ next = <<>> /\ largest = 0

Decide(v) == verdict' = v /\ pc' = "decided" /\ UNCHANGED <<expression, candidate, limits>>

InFragment(e) == \A i \in DOMAIN e.nodes : e.nodes[i].op # "mul"
Supported == InFragment(expression) /\ InFragment(candidate)
FewVars == Cardinality(AllVars) <= limits.vars

(* The nodes of both, shared, and their roots (DagBuilder). *)
Dag ==
  LET l == Intern(<<>>, expression)
      r == Intern(l.nodes, candidate)
  IN [nodes |-> r.nodes, left |-> l.at[expression.root], right |-> r.at[candidate.root]]

OverVariables ==
  /\ pc = "check" /\ ~FewVars
  /\ Decide(Unknown("variables", 0)) /\ UNCHANGED scanVars
Unfit ==
  /\ pc = "check" /\ FewVars /\ ~Supported
  /\ Decide(Unsupported) /\ UNCHANGED scanVars
OverNodes ==
  /\ pc = "check" /\ FewVars /\ Supported
  /\ Len(Dag.nodes) > limits.nodes
  /\ Decide(Unknown("nodes", 0)) /\ UNCHANGED scanVars

Pairs(S) == (DOMAIN S) \X Symbols
Begin ==
  /\ pc = "check" /\ FewVars /\ Supported
  /\ Len(Dag.nodes) <= limits.nodes
  /\ nodes' = Dag.nodes /\ left' = Dag.left /\ right' = Dag.right
  /\ bit' = 0 /\ largest' = 1
  /\ states' = [c \in {Zero(nodes')} |-> [v \in AllVars |-> {}]]
  /\ todo' = Pairs(states') /\ next' = <<>>
  /\ pc' = "scan"
  /\ UNCHANGED <<expression, candidate, limits, verdict>>

(* get_signed: the coefficient as a signed number. *)
Signed(c) == IF c < 2 ^ (Width - 1) THEN c ELSE c - 2 ^ Width

(* Machine::step: a node's bit is the remainder by two of this total, and,    *)
(* for a node with a carry, the next carry is the quotient, rounded down.    *)
(* bits are those of the children.                                          *)
Total(n, b, symbol, carried, bits) ==
  CASE n.op = "var"   -> IF n.k \in symbol THEN 1 ELSE 0
    [] n.op = "const" -> (n.k \div 2 ^ b) % 2
    [] n.op = "not"   -> 1 - bits[1]
    [] n.op = "and"   -> IF \A j \in DOMAIN bits : bits[j] = 1 THEN 1 ELSE 0
    [] n.op = "or"    -> IF \E j \in DOMAIN bits : bits[j] = 1 THEN 1 ELSE 0
    [] n.op = "xor"   -> SumFunction(bits) % 2
    [] n.op = "add"   -> carried + SumFunction(bits)
    [] n.op = "scale" -> carried + Signed(n.k) * bits[1]
Totals(ns, b, symbol, carry) ==
  LET total[i \in DOMAIN ns] ==
        LET of == ns[i].of
        IN Total(ns[i], b, symbol, IF i \in Slots(ns) THEN carry[i] ELSE 0,
                 [j \in DOMAIN of |-> total[of[j]] % 2])
  IN total

(* Mutant of NextCarry: division truncates, as Rust's does. *)
NextCarryTruncated(ns, total) ==
  [i \in Slots(ns) |-> IF total[i] < 0 THEN -((-total[i]) \div 2) ELSE total[i] \div 2]
NextCarry(ns, total) == [i \in Slots(ns) |-> total[i] \div 2]

(* Mutant of Agree: the lowest bit is not compared. *)
AgreeAboveLowest(total) == bit = 0 \/ total[left] % 2 = total[right] % 2
Agree(total) == total[left] % 2 = total[right] % 2

(* Mutant of Extended: the bit is set one place too high. *)
ExtendedHigh(words, symbol) ==
  [v \in AllVars |-> IF v \in symbol THEN words[v] \cup {bit + 1} ELSE words[v]]
Extended(words, symbol) ==
  [v \in AllVars |-> IF v \in symbol THEN words[v] \cup {bit} ELSE words[v]]

(* Vectors are taken in their order, and symbols by number. *)
Before(p, q) ==
  \/ \E i \in Slots(nodes) : p[1][i] < q[1][i] /\ \A j \in Slots(nodes) : j < i => p[1][j] = q[1][j]
  \/ p[1] = q[1] /\ Num(p[2]) <= Num(q[2])
First(p) == p \in todo /\ \A q \in todo : Before(p, q)

Explore(p) ==
  LET total == Totals(nodes, bit, p[2], p[1])
      words == Extended(states[p[1]], p[2])
      c == NextCarry(nodes, total)
  IN /\ pc = "scan" /\ First(p)
     /\ \/ /\ ~Agree(total)
           /\ Decide(NotEqual(words))
           /\ UNCHANGED scanVars
        \/ /\ Agree(total)
           /\ next' = [s \in DOMAIN next \cup {c} |-> IF s \in DOMAIN next THEN next[s] ELSE words]
           /\ LET n == Cardinality(DOMAIN next') IN
                \/ n > limits.states /\ Decide(Unknown("states", n)) /\ UNCHANGED todo
                \/ /\ n <= limits.states
                   /\ todo' = todo \ {p}
                   /\ UNCHANGED <<expression, candidate, limits, pc, verdict>>
           /\ UNCHANGED <<nodes, left, right, bit, states, largest>>

Larger(m, n) == IF m < n THEN n ELSE m
NextBit ==
  /\ pc = "scan" /\ todo = {}
  /\ largest' = Larger(largest, Cardinality(DOMAIN next))
  /\ \/ /\ bit + 1 < Width
        /\ bit' = bit + 1
        /\ states' = next /\ todo' = Pairs(next) /\ next' = <<>>
        /\ UNCHANGED <<expression, candidate, limits, pc, verdict>>
     \/ /\ bit + 1 = Width
        /\ Decide(Proved(largest'))
        /\ UNCHANGED <<bit, states, todo, next>>
  /\ UNCHANGED <<nodes, left, right>>

Certify ==
  \/ OverVariables \/ Unfit \/ OverNodes \/ Begin \/ NextBit
  \/ \E p \in todo : Explore(p)
-----------------------------------------------------------------------------
(* An expression proved equal to the candidate has its value on all inputs.  *)
ProvedIsEqual ==
  pc = "decided" /\ verdict.kind = "proved" =>
    \A x \in [AllVars -> Words] : Eval(expression, x) = Eval(candidate, x)

(* A counterexample is one for the word evaluator too, at the bit it names,   *)
(* and that is the lowest bit at which any input tells the two apart.        *)
CounterexampleReplays ==
  pc = "decided" /\ verdict.kind = "differ" =>
    LET Apart(x, b) == (b \in Eval(expression, x)) # (b \in Eval(candidate, x))
    IN /\ Apart(verdict.values, verdict.bit)
       /\ \A x \in [AllVars -> Words], b \in 0 .. verdict.bit - 1 : ~Apart(x, b)

(* A carry is what the words so far, as numbers, would carry: the sum or the  *)
(* multiple of the children's low bits, divided by two to the bit.           *)
CarriesAreQuotients ==
  pc = "scan" => \A c \in DOMAIN states :
    LET v == Values(nodes, states[c])
        Low(i) == Num(v[i] \cap 0 .. bit - 1)
    IN \A i \in Slots(nodes) :
         c[i] = (IF nodes[i].op = "add" THEN SumOver(Low, nodes[i].of)
                 ELSE Signed(nodes[i].k) * Low(nodes[i].of[1])) \div 2 ^ bit
=============================================================================
