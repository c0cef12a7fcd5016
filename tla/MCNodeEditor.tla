---------------------------- MODULE MCNodeEditor ----------------------------
(* Instances of NodeEditor for TLC.                                        *)
EXTENDS NodeEditor, TLC

CONSTANTS t0, t1, t2

MCTexts == {t0, t1, t2}
(* The texts that are not the first one are interchangeable.               *)
MCSymmetry == Permutations({t1, t2})
============================================================================
