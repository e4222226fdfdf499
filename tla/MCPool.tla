---------------------------- MODULE MCPool ----------------------------
(* Instances of Pool.  MCPool_chain.cfg: pools of one, two and four slots   *)
(* in eight addresses, one left over, so that the second and third pool lie *)
(* on either side of the first, touching it or not.                         *)
EXTENDS Pool
=============================================================================
