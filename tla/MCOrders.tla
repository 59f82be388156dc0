------------------------------ MODULE MCOrders ------------------------------
(* Two orders, two masters who may come to share a name.                   *)
EXTENDS Orders, TLC

Symmetry == Permutations(Requests) \cup Permutations(Ids)
=============================================================================
