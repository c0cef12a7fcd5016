---------------------------- MODULE MCTaskSeries ----------------------------
(* Instances of TaskSeries for TLC.  Ids and requests are interchangeable. *)
EXTENDS TaskSeries, TLC

CONSTANTS t1, t2, t3, r1, r2

MCSymmetry == Permutations({t1, t2, t3}) \cup Permutations({r1, r2})
=============================================================================
