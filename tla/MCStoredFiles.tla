--------------------------- MODULE MCStoredFiles ---------------------------
(* Values for checking StoredFiles: one node owner, two nodes, the first   *)
(* key on the first node and every other key on the second.                *)
EXTENDS StoredFiles, TLC

CONSTANTS k1, k2, n1, n2, u1, r1, r2, a1, a2

MCNodeOf == [k \in Keys |-> IF k = k1 THEN n1 ELSE n2]
MCOneNode == [k \in Keys |-> n1]
MCOwnerOf == [n \in Nodes |-> u1]
(* Every file has its own name: its path in an archive is its own.         *)
MCPathOf == [k \in Keys |-> k]
Symmetry == Permutations(Requests)
=============================================================================
