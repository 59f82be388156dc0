------------------------------ MODULE MCWallet ------------------------------
(* Instances of Wallet: a response and a top-up under one key on a wallet  *)
(* that pays a single fee, a response and a top-up that validation refuses *)
(* and a top-up without a key that the column can hold only once.          *)
EXTENDS Wallet

CONSTANTS p1, p2, k1, OpeningP1

MCOpening == [p \in Profiles |-> IF p = p1 THEN OpeningP1 ELSE 3]

Respond(p, k, ok) ==
    [op |-> "respond", profile |-> p, amount |-> 0, key |-> k, wellFormed |-> ok]
TopUp(p, a, k) ==
    [op |-> "topup", profile |-> p, amount |-> a, key |-> k, wellFormed |-> TRUE]

MCCalls == {Respond(p1, k1, TRUE), TopUp(p1, 4, k1), Respond(p1, NoKey, FALSE),
            TopUp(p2, 8, NoKey), TopUp(p1, -5, NoKey)}

\* A response and its retry under the same key.
MCRetriedCalls == {Respond(p1, k1, TRUE)}
=============================================================================
