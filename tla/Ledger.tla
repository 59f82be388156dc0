------------------------------- MODULE Ledger -------------------------------
(***************************************************************************)
(* What the wallet of a profile promises, with every operation atomic:    *)
(* a top-up credits the balance and logs one line of the statement, an     *)
(* order response is paid with exactly one fee and never on credit, and a  *)
(* committed operation leaves its idempotency key behind.  Module Wallet   *)
(* implements it statement by statement.                                   *)
(***************************************************************************)
EXTENDS Integers

CONSTANTS Profiles,     \* rows of the profiles table
          Keys,         \* non-empty Idempotency-Key values
          NoKey,        \* the header is absent
          MaxBalance,   \* largest value of the wallet_balance column
          OpeningBalance

VARIABLES balance,      \* profiles.wallet_balance
          topped,       \* sum of the top-up lines of transactions
          charged,      \* number of fee lines of transactions
          responses,    \* number of rows of responses
          usedKeys      \* keys with a row in idempotency_keys

ledgerVars == <<balance, topped, charged, responses, usedKeys>>

responseFeeTJS == 4

LedgerInit ==
    /\ balance = OpeningBalance
    /\ topped = [p \in Profiles |-> 0]
    /\ charged = [p \in Profiles |-> 0]
    /\ responses = [p \in Profiles |-> 0]
    /\ usedKeys = {}

Remember(k) == usedKeys' = usedKeys \cup ({k} \ {NoKey})

Credit(p, amount, k) ==
    /\ amount > 0
    /\ balance[p] + amount <= MaxBalance
    /\ balance' = [balance EXCEPT ![p] = @ + amount]
    /\ topped' = [topped EXCEPT ![p] = @ + amount]
    /\ Remember(k)
    /\ UNCHANGED <<charged, responses>>

Charge(p, k) ==
    /\ balance[p] >= responseFeeTJS
    /\ balance' = [balance EXCEPT ![p] = @ - responseFeeTJS]
    /\ charged' = [charged EXCEPT ![p] = @ + 1]
    /\ responses' = [responses EXCEPT ![p] = @ + 1]
    /\ Remember(k)
    /\ UNCHANGED topped

LedgerNext ==
    \E p \in Profiles, k \in Keys \cup {NoKey} :
        \/ \E amount \in 1..MaxBalance : Credit(p, amount, k)
        \/ Charge(p, k)

LedgerSpec == LedgerInit /\ [][LedgerNext]_ledgerVars
=============================================================================
