---------------------------- MODULE MCPipeline ----------------------------
(* Instances of Pipeline: two values that differ at the full width of two    *)
(* bits and agree on the low one, in three sizes.                            *)
EXTENDS Pipeline

ThreeSizes == [val : {{0}, {0, 1}}, size : {1, 2, 3}, alt : {0}]
=============================================================================
