----------------------------- MODULE MCNodeSave -----------------------------
(* Instances of NodeSave for TLC.  The first body links the one target,    *)
(* the second nothing.  Requests, and statuses, are interchangeable.       *)
EXTENDS NodeSave, TLC

CONSTANTS b1, b2, m, r1, r2, s1, s2

MCLinksOf == (b1 :> {m}) @@ (b2 :> {})
MCSymmetry == Permutations({r1, r2}) \cup Permutations({s1, s2})
=============================================================================
