---------------------------- MODULE MCNodesFile ----------------------------
(***************************************************************************)
(* NodesFile for TLC: two processes, a boot node and another.              *)
(***************************************************************************)
EXTENDS NodesFile, TLC

Symmetry == Permutations(Proc)
=============================================================================
