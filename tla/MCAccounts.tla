------------------------------ MODULE MCAccounts ------------------------------
(* Two first logins of a master beside the editing of the listing; a login   *)
(* and two edits; a customer who first logs in without a name.               *)
EXTENDS Accounts

CONSTANTS master, customer, r1, r2, r3

Login(k, named) == [kind |-> "login", key |-> k, named |-> named]
Listing(k) == [kind |-> "listing", key |-> k, named |-> FALSE]

Workload(a, b, c) == [r \in {r1, r2, r3} |-> CASE r = r1 -> a [] r = r2 -> b [] r = r3 -> c]

MCWorkloads ==
    {Workload(Login(master, TRUE), Login(master, TRUE), Listing(master)),
     Workload(Login(master, TRUE), Listing(master), Listing(master)),
     Workload(Login(customer, FALSE), Login(customer, TRUE), Login(master, TRUE))}
=============================================================================
