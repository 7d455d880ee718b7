---------------------------- MODULE MCCredStore ----------------------------
(* Credentials for TLC to run CredStore on.  No action tells two names, or *)
(* two values that are not empty, apart.                                   *)
EXTENDS CredStore, TLC

CONSTANTS A, B, v1, v2

MCKeys == {A, B}
MCValues == {"empty", v1, v2}
MCSymmetry == Permutations(MCKeys) \union Permutations({v1, v2})
=============================================================================
