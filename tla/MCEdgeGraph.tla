---------------------------- MODULE MCEdgeGraph ----------------------------
(* Values for checking EdgeGraph.                                          *)
EXTENDS EdgeGraph, TLC

CONSTANTS a, b, c, w1, w2

Symmetry == Permutations({a, b, c} \cap FirstNodes) \cup Permutations(Writers)
=============================================================================
