------------------------------ MODULE ConnPool ------------------------------
(***************************************************************************)
(* The database/sql connection pool as the handlers use it.  SQLite runs   *)
(* with SetMaxOpenConns(1), Postgres with 10 (main.go).  No query carries  *)
(* a deadline, so a goroutine waits for a free connection for as long as   *)
(* it takes.                                                               *)
(*                                                                         *)
(* A handler is the sequence of its database sections.  A "single" section *)
(* needs one connection at a time: a transaction from Begin to its end, or *)
(* a run of statements, each of which gives its connection back before the *)
(* next asks for one (the run is taken as holding it throughout).  A       *)
(* "nested" section is chats() (chats.go): it keeps the rows of one query  *)
(* open and runs further queries on the pool between two rows.             *)
(***************************************************************************)
EXTENDS Integers, Sequences, FiniteSets

CONSTANTS Handlers,   \* goroutines serving requests
          MaxConns,   \* db.SetMaxOpenConns
          MaxInner,   \* bound: inner queries of one listing
          Route       \* which endpoint each goroutine serves

ASSUME ConnPoolAssumption ==
    /\ IsFiniteSet(Handlers)
    /\ MaxConns \in Nat \ {0}
    /\ MaxInner \in Nat \ {0}
    /\ Route \in [Handlers -> {"chats", "select", "topup", "response", "order"}]

VARIABLES section,  \* index of the handler's current section, 0 when idle
          phase,    \* what the handler is doing in it
          inner     \* inner queries a nested section still has to run

poolVars == <<section, phase, inner>>
-----------------------------------------------------------------------------
(* The endpoints.                                                          *)

\* GET /api/chats.
ChatsProgram == <<"nested">>

\* POST /api/orders/{id}/select-master: the reads and the UPDATE, ensureChat's
\* lookup, its INSERT, the listing it is read back from, the order again.
SelectProgram == <<"single", "nested", "single", "nested", "single">>

\* POST /api/wallet/topup: the caller's profile and the replay lookup, then the
\* transaction, which reads the wallet back through its own connection.
TopUpProgramReadingPool == <<"single", "nested">>
TopUpProgram == <<"single", "single">>

\* POST /api/orders/{id}/responses: the caller, the listing, the replay lookup
\* and the order, then the transaction.
ResponseProgram == <<"single", "single">>

\* GET /api/orders/{id}: the order, its views counter, the responses.
OrderProgram == <<"single">>

Program(h) == CASE Route[h] = "chats"    -> ChatsProgram
                [] Route[h] = "select"   -> SelectProgram
                [] Route[h] = "topup"    -> TopUpProgram
                [] Route[h] = "response" -> ResponseProgram
                [] Route[h] = "order"    -> OrderProgram

Nested(h) == section[h] \in DOMAIN Program(h) /\ Program(h)[section[h]] = "nested"

\* The handlers that list chats at some point.
Listers == {h \in Handlers : \E i \in DOMAIN Program(h) : Program(h)[i] = "nested"}
-----------------------------------------------------------------------------
(* The pool.                                                               *)

Holders == {h \in Handlers : phase[h] \in {"holding", "inner"}}
Doubled == {h \in Handlers : phase[h] = "inner"}
Free == MaxConns - Cardinality(Holders) - Cardinality(Doubled)

ConnAvailable == Free > 0

\* Rows are open and the listing wants a second connection.
WantsInner(h) == phase[h] = "holding" /\ inner[h] > 0

PoolInit ==
    /\ section = [h \in Handlers |-> 0]
    /\ phase = [h \in Handlers |-> "idle"]
    /\ inner = [h \in Handlers |-> 0]

Arrive(h) ==
    /\ phase[h] = "idle"
    /\ section' = [section EXCEPT ![h] = 1]
    /\ phase' = [phase EXCEPT ![h] = "waiting"]
    /\ UNCHANGED inner

\* The pool hands out a free connection.  chats() asks at least for the demo
\* customer, then for the order, master and messages of each row.
Acquire(h) ==
    /\ phase[h] = "waiting"
    /\ ConnAvailable
    /\ phase' = [phase EXCEPT ![h] = "holding"]
    /\ IF Nested(h)
       THEN \E n \in 1..MaxInner : inner' = [inner EXCEPT ![h] = n]
       ELSE UNCHANGED inner
    /\ UNCHANGED section

AcquireInner(h) ==
    /\ WantsInner(h)
    /\ ConnAvailable
    /\ phase' = [phase EXCEPT ![h] = "inner"]
    /\ UNCHANGED <<section, inner>>

ReleaseInner(h) ==
    /\ phase[h] = "inner"
    /\ phase' = [phase EXCEPT ![h] = "holding"]
    /\ inner' = [inner EXCEPT ![h] = @ - 1]
    /\ UNCHANGED section

\* The statement, transaction or listing ends; the handler goes on to its next
\* section or answers.
Release(h) ==
    /\ phase[h] = "holding"
    /\ inner[h] = 0
    /\ IF section[h] < Len(Program(h))
       THEN /\ section' = [section EXCEPT ![h] = @ + 1]
            /\ phase' = [phase EXCEPT ![h] = "waiting"]
       ELSE /\ section' = [section EXCEPT ![h] = 0]
            /\ phase' = [phase EXCEPT ![h] = "idle"]
    /\ UNCHANGED inner

PoolNext ==
    \E h \in Handlers :
        Arrive(h) \/ Acquire(h) \/ AcquireInner(h) \/ ReleaseInner(h) \/ Release(h)

PoolSpec == PoolInit /\ [][PoolNext]_poolVars

\* Goroutines run on.  A released connection goes to a waiter the pool picks
\* without preference, so no waiter is passed over for ever.
PoolFairness ==
    \A h \in Handlers :
        /\ WF_poolVars(Release(h)) /\ WF_poolVars(ReleaseInner(h))
        /\ SF_poolVars(Acquire(h)) /\ SF_poolVars(AcquireInner(h))

FairPoolSpec == PoolSpec /\ PoolFairness
-----------------------------------------------------------------------------
(* Correctness.                                                            *)

\* While connections are out, some handler can go on: a connection is free, or
\* a holder is not waiting for a second one.
NeverStuck ==
    Holders # {} => Free > 0 \/ \E h \in Holders : ~WantsInner(h)

\* Every request is answered in the end, whatever the others do.
EveryRequestServed ==
    \A h \in Handlers : (phase[h] = "waiting") ~> (phase[h] = "idle")
=============================================================================
