----------------------------- MODULE MCAccounts -----------------------------
(* Instances of Accounts for TLC.                                          *)
EXTENDS Accounts

CONSTANTS a1, a2, i1, i2, r1, r2
=============================================================================
