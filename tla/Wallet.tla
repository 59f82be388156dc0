------------------------------- MODULE Wallet -------------------------------
(***************************************************************************)
(* The money-moving requests of the backend: POST /api/wallet/topup        *)
(* (wallet.go) and POST /api/orders/{id}/responses, with the legacy        *)
(* POST /api/responses (responses.go), and the Idempotency-Key record they *)
(* share (idempotency.go).                                                 *)
(*                                                                         *)
(* A request is a goroutine that issues one SQL statement per step.  The   *)
(* replay lookup and the validation run on the pool, outside the           *)
(* transaction; the transaction holds one connection from Begin to its     *)
(* end.  Isolation is Read Committed: an UPDATE waits for the row lock of  *)
(* a transaction that has changed the row, and an INSERT waits for a       *)
(* transaction that has inserted the same key.  SQLite is MaxConns = 1.    *)
(*                                                                         *)
(* A wallet statement is abstracted to totals per profile: `topped' sums   *)
(* the top-up lines, `charged' counts the fee lines.                       *)
(***************************************************************************)
EXTENDS Integers, FiniteSets

CONSTANTS Profiles,        \* rows of the profiles table
          Requests,        \* HTTP requests; a retry is another request
          Keys,            \* non-empty Idempotency-Key values
          NoKey,           \* the header is absent
          NoResult,        \* no row in idempotency_keys
          Calls,           \* what a request may ask for
          OpeningBalance,  \* wallet_balance when the server starts
          MaxBalance,      \* largest value of the wallet_balance column
          MaxConns         \* db.SetMaxOpenConns

ASSUME WalletAssumption ==
    /\ NoKey \notin Keys
    /\ NoResult \notin Requests
    /\ Calls \subseteq [op : {"topup", "respond"}, profile : Profiles,
                        amount : Int, key : Keys \cup {NoKey}, wellFormed : BOOLEAN]
    /\ MaxBalance \in Nat
    /\ OpeningBalance \in [Profiles -> 0..MaxBalance]
    /\ MaxConns \in Nat \ {0}

VARIABLES balance,    \* committed profiles.wallet_balance
          topped,     \* committed top-up lines of transactions, summed
          charged,    \* committed fee lines of transactions, counted
          responses,  \* committed rows of responses
          keyStore,   \* committed rows of idempotency_keys: whose result is stored
          pc,         \* the next statement of each request
          call,       \* what the request asked for
          newBalance, \* the row version its UPDATE wrote
          answer,     \* what the client was told
          applied,    \* history: requests whose transaction committed
          retries,    \* history: requests sent when their key had a result
          blind       \* history: requests whose replay lookup failed

tables  == <<balance, topped, charged, responses, keyStore>>
history == <<applied, retries, blind>>
vars    == <<tables, pc, call, newBalance, answer, history>>

responseFeeTJS == 4
-----------------------------------------------------------------------------
(* Connections and locks.                                                  *)

\* Statements a transaction has still to run once it has changed the row.
Locking == {"rows", "store", "commit"}

InTx(r) == pc[r] \in {"update"} \cup Locking

Connected == {r \in Requests : InTx(r)}

ConnFree == Cardinality(Connected) < MaxConns

RowFreeAlways(p) == TRUE
RowFree(p) == \A r \in Requests : pc[r] \in Locking => call[r].profile # p

\* The unique index of idempotency_keys makes an INSERT wait for an open
\* transaction that has inserted the same key.
KeyFreeOwnPool(r) == ConnFree
KeyFree(r) ==
    \/ call[r].key = NoKey
    \/ keyStore[call[r].key] # NoResult
    \/ \A s \in Requests \ {r} : pc[s] = "commit" => call[s].key # call[r].key

-----------------------------------------------------------------------------
(* Decisions of the handlers.                                              *)

AmountAcceptedAny(c) == TRUE
AmountAccepted(c) == c.amount > 0

Valid(c) == c.wellFormed /\ (c.op = "topup" => AmountAccepted(c))

AffordableAlways(p) == TRUE
Affordable(p) == balance[p] >= responseFeeTJS

Delta(c) == IF c.op = "topup" THEN c.amount ELSE -responseFeeTJS

UpdateSucceeds(r) ==
    LET p == call[r].profile
    IN  IF call[r].op = "topup" THEN balance[p] + call[r].amount <= MaxBalance
                                ELSE Affordable(p)

\* ON CONFLICT(key) DO NOTHING: the first committed result stays.
StoredLastWins(r) ==
    IF call[r].key = NoKey THEN keyStore ELSE [keyStore EXCEPT ![call[r].key] = r]
StoredAnyKey(r) ==
    IF keyStore[call[r].key] # NoResult
    THEN keyStore ELSE [keyStore EXCEPT ![call[r].key] = r]
Stored(r) ==
    IF call[r].key = NoKey \/ keyStore[call[r].key] # NoResult
    THEN keyStore
    ELSE [keyStore EXCEPT ![call[r].key] = r]

ReplayableNever(r) == FALSE
Replayable(r) == call[r].key # NoKey /\ keyStore[call[r].key] # NoResult

Finish(r, outcome) ==
    /\ pc' = [pc EXCEPT ![r] = "done"]
    /\ answer' = [answer EXCEPT ![r] = outcome]
-----------------------------------------------------------------------------
Init ==
    /\ balance = OpeningBalance
    /\ topped = [p \in Profiles |-> 0]
    /\ charged = [p \in Profiles |-> 0]
    /\ responses = [p \in Profiles |-> 0]
    /\ keyStore = [k \in Keys \cup {NoKey} |-> NoResult]
    /\ pc = [r \in Requests |-> "idle"]
    /\ call \in [Requests -> Calls]
    /\ newBalance = [r \in Requests |-> 0]
    /\ answer = [r \in Requests |-> "none"]
    /\ applied = {} /\ retries = {} /\ blind = {}

\* The client sends the request; the caller's identity and role hold, and the
\* body of a response decodes.
Send(r) ==
    /\ pc[r] = "idle"
    /\ pc' = [pc EXCEPT ![r] = "replay"]
    /\ retries' = IF keyStore[call[r].key] # NoResult THEN retries \cup {r} ELSE retries
    /\ UNCHANGED <<tables, call, newBalance, answer, applied, blind>>

\* idempotentReplay: one SELECT on the pool, before the transaction.
Replay(r) ==
    /\ pc[r] = "replay"
    /\ call[r].key # NoKey => ConnFree
    /\ IF Replayable(r)
       THEN Finish(r, "replayed")
       ELSE pc' = [pc EXCEPT ![r] = "validate"] /\ UNCHANGED answer
    /\ UNCHANGED <<tables, call, newBalance, history>>

\* Any error of that SELECT counts as "not found".
ReplayLookupFails(r) ==
    /\ pc[r] = "replay"
    /\ call[r].key # NoKey
    /\ pc' = [pc EXCEPT ![r] = "validate"]
    /\ blind' = blind \cup {r}
    /\ UNCHANGED <<tables, call, newBalance, answer, applied, retries>>

Validate(r) ==
    /\ pc[r] = "validate"
    /\ call[r].op = "respond" => ConnFree
    /\ IF Valid(call[r])
       THEN pc' = [pc EXCEPT ![r] = "begin"] /\ UNCHANGED answer
       ELSE Finish(r, "rejected")
    /\ UNCHANGED <<tables, call, newBalance, history>>

Begin(r) ==
    /\ pc[r] = "begin"
    /\ ConnFree
    /\ pc' = [pc EXCEPT ![r] = "update"]
    /\ UNCHANGED <<tables, call, newBalance, answer, history>>

\* UPDATE profiles SET wallet_balance = ...; no row changed, or a value the
\* column cannot hold, rolls the transaction back.
UpdateBalance(r) ==
    /\ pc[r] = "update"
    /\ RowFree(call[r].profile)
    /\ IF UpdateSucceeds(r)
       THEN /\ newBalance' =
                 [newBalance EXCEPT ![r] = balance[call[r].profile] + Delta(call[r])]
            /\ pc' = [pc EXCEPT ![r] = "rows"]
            /\ UNCHANGED answer
       ELSE Finish(r, "refused") /\ UNCHANGED newBalance
    /\ UNCHANGED <<tables, call, history>>

\* INSERT INTO responses and transactions, then the rows read back through
\* the transaction for the answer.
InsertRows(r) ==
    /\ pc[r] = "rows"
    /\ pc' = [pc EXCEPT ![r] = "store"]
    /\ UNCHANGED <<tables, call, newBalance, answer, history>>

StoreKeyOutsideTx(r) ==
    /\ pc[r] = "store"
    /\ KeyFree(r)
    /\ keyStore' = Stored(r)
    /\ pc' = [pc EXCEPT ![r] = "commit"]
    /\ UNCHANGED <<balance, topped, charged, responses, call, newBalance, answer, history>>
StoreKey(r) ==
    /\ pc[r] = "store"
    /\ KeyFree(r)
    /\ pc' = [pc EXCEPT ![r] = "commit"]
    /\ UNCHANGED <<tables, call, newBalance, answer, history>>

\* What a commit makes visible.
Committed(r) ==
    LET p == call[r].profile
        n == IF call[r].op = "topup" THEN 0 ELSE 1
    IN  /\ balance' = [balance EXCEPT ![p] = newBalance[r]]
        /\ topped' = [topped EXCEPT ![p] = IF n = 0 THEN @ + call[r].amount ELSE @]
        /\ charged' = [charged EXCEPT ![p] = @ + n]
        /\ responses' = [responses EXCEPT ![p] = @ + n]
        /\ keyStore' = Stored(r)
        /\ applied' = applied \cup {r}

Commit(r) ==
    /\ pc[r] = "commit"
    /\ Committed(r)
    /\ pc' = [pc EXCEPT ![r] = "reply"]
    /\ UNCHANGED <<call, newBalance, answer, retries, blind>>

\* The commit takes effect, but its acknowledgement is lost between database
\* and server: the handler takes the error for a failed request.
CommitUnacknowledged(r) ==
    /\ pc[r] = "commit"
    /\ Committed(r)
    /\ Finish(r, "error")
    /\ UNCHANGED <<call, newBalance, retries, blind>>

Reply(r) ==
    /\ pc[r] = "reply"
    /\ Finish(r, "ok")
    /\ UNCHANGED <<tables, call, newBalance, history>>

\* A statement fails; the deferred Rollback ends the transaction.
FailIgnoringCommit(r) ==
    /\ pc[r] \in {"validate", "begin"} \/ InTx(r)
    /\ Finish(r, IF pc[r] = "commit" THEN "ok" ELSE "error")
    /\ UNCHANGED <<tables, call, newBalance, history>>
Fail(r) ==
    /\ pc[r] \in {"validate", "begin"} \/ InTx(r)
    /\ Finish(r, "error")
    /\ UNCHANGED <<tables, call, newBalance, history>>

\* The server stops.  Open transactions vanish; the client of an unanswered
\* request cannot tell whether it took effect, and may send it again.
Crash ==
    /\ \E r \in Requests : pc[r] \notin {"idle", "done"}
    /\ pc' = [r \in Requests |-> IF pc[r] = "idle" THEN "idle" ELSE "done"]
    /\ answer' = [r \in Requests |->
                    IF pc[r] \in {"idle", "done"} THEN answer[r] ELSE "lost"]
    /\ UNCHANGED <<tables, call, newBalance, history>>

Step(r) ==
    \/ Replay(r) \/ Validate(r) \/ Begin(r) \/ UpdateBalance(r)
    \/ InsertRows(r) \/ StoreKey(r) \/ Commit(r) \/ Reply(r)

Terminated == (\A r \in Requests : pc[r] = "done") /\ UNCHANGED vars

Next ==
    \/ \E r \in Requests : Send(r) \/ Step(r) \/ ReplayLookupFails(r) \/ Fail(r)
                         \/ CommitUnacknowledged(r)
    \/ Crash
    \/ Terminated

Spec == Init /\ [][Next]_vars

\* A goroutine that can run its next statement does run it, and the database
\* ends every lock wait; clients, failures and crashes owe nothing.
FairSpec == Spec /\ \A r \in Requests : WF_vars(Step(r))
-----------------------------------------------------------------------------
(* Correctness.                                                            *)

PCs == {"idle", "replay", "validate", "begin", "update", "reply", "done"} \cup Locking
Answers == {"none", "ok", "replayed", "rejected", "refused", "error", "lost"}

\* Types.  The empty key never gets a stored result: storeIdempotencyResult
\* returns early for it.
TypeOK ==
    /\ balance \in [Profiles -> Int]
    /\ topped \in [Profiles -> Int]
    /\ charged \in [Profiles -> Nat]
    /\ responses \in [Profiles -> Nat]
    /\ keyStore \in [Keys \cup {NoKey} -> Requests \cup {NoResult}]
    /\ keyStore[NoKey] = NoResult
    /\ pc \in [Requests -> PCs]
    /\ call \in [Requests -> Calls]
    /\ newBalance \in [Requests -> Int]
    /\ answer \in [Requests -> Answers]
    /\ applied \subseteq Requests
    /\ retries \subseteq Requests
    /\ blind \subseteq Requests

\* The guarded debit never takes a wallet below zero, whatever requests run
\* concurrently on it, and no credit exceeds what the column holds.
BalanceInRange == \A p \in Profiles : balance[p] \in 0..MaxBalance

\* The balance is the opening balance plus the wallet statement, and every
\* response has been paid for with one fee: no concurrent request, failed
\* statement or crash loses one side of an operation.
Conservation ==
    \A p \in Profiles :
        /\ balance[p] = OpeningBalance[p] + topped[p] - responseFeeTJS * charged[p]
        /\ responses[p] = charged[p]

\* "either both the money movement and the idempotency record land, or
\* neither does" (idempotency.go).
KeyLandsWithMoney ==
    /\ \A r \in applied : call[r].key # NoKey => keyStore[call[r].key] # NoResult
    /\ \A k \in Keys : keyStore[k] # NoResult =>
          keyStore[k] \in applied /\ call[keyStore[k]].key = k

\* A request sent after its key got a result moves no money, unless the
\* replay lookup itself failed: the sequential retry the key exists for.
RetryReplays == retries \cap applied \subseteq blind

\* What the client is told is what happened: "ok" only for its own committed
\* transaction, a refusal only for a request that moved nothing, a replay only
\* when the result was there.  An error or a lost answer leaves doubt.
AnswersTruthful ==
    \A r \in Requests :
        /\ answer[r] = "ok" => r \in applied
        /\ answer[r] \in {"rejected", "refused"} => r \notin applied
        /\ answer[r] = "replayed" =>
              r \notin applied /\ keyStore[call[r].key] \in applied

\* The first committed result of a key is the one every later replay returns.
FirstResultStays ==
    [][\A k \in Keys : keyStore[k] # NoResult => keyStore'[k] = keyStore[k]]_vars

\* The documented promise of createResponse: a retry with the same key
\* replays the original result instead of debiting twice (here with no error
\* of the lookup to blame).
AtMostOncePerKey ==
    \A r, s \in applied \ blind :
        call[r] = call[s] /\ call[r].key # NoKey => r = s

\* Every request that was sent is answered: no wait for a connection, a row or
\* a key lasts for ever.
EveryRequestEnds ==
    \A r \in Requests : (pc[r] = "replay") ~> (pc[r] = "done")

L == INSTANCE Ledger WITH usedKeys <- {k \in Keys : keyStore[k] # NoResult}

\* Each transaction is one atomic step of the ledger, and nothing else is.
ImplementsLedger == L!LedgerSpec
=============================================================================
