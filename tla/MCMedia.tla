------------------------------- MODULE MCMedia -------------------------------
(* Any three uploads of two images to two orders.                            *)
EXTENDS Media, TLC

Symmetry == Permutations(Requests) \cup Permutations(Images) \cup Permutations(Orders)
=============================================================================
