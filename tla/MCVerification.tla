---------------------------- MODULE MCVerification ----------------------------
(* Any three requests about two masters.                                      *)
EXTENDS Verification, TLC

Symmetry == Permutations(Requests) \cup Permutations(Masters)
=============================================================================
