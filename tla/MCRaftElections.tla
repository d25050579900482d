------------------------------- MODULE MCRaftElections -----------------------
(***************************************************************************)
(* Elections on a small instance: any node may be a candidate at any time, *)
(* and a node may be restarted.                                            *)
(***************************************************************************)
EXTENDS RaftElections, TLC

CONSTANTS n1, n2, n3

NodeSymmetry == Permutations(Nodes)
==============================================================================
