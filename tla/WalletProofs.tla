---------------------------- MODULE WalletProofs ----------------------------
(***************************************************************************)
(* Machine-checked safety of module Wallet, for any set of profiles,       *)
(* requests, keys and calls and for any number of connections.             *)
(*                                                                         *)
(* The invariants of Wallet are not inductive: that a commit conserves     *)
(* money depends on the row version an open transaction wrote being still  *)
(* the committed balance plus its delta, which holds because at most one   *)
(* transaction is past the UPDATE of a given profile.                      *)
(***************************************************************************)
EXTENDS Wallet, TLAPS

\* Two transactions that have changed the same profile are the same.
RowLockExclusive ==
    \A r, s \in Requests :
        /\ pc[r] \in Locking
        /\ pc[s] \in Locking
        /\ call[r].profile = call[s].profile
        => r = s

\* A transaction past its UPDATE wrote the committed balance plus its delta.
VersionCurrent ==
    \A r \in Requests : pc[r] \in Locking =>
        /\ newBalance[r] = balance[call[r].profile] + Delta(call[r])
        /\ newBalance[r] \in 0..MaxBalance

\* Only valid calls reach the transaction.
ValidInTx ==
    \A r \in Requests :
        pc[r] \in {"begin", "update", "reply"} \cup Locking => Valid(call[r])

\* Where a request is in its handler says whether it committed and answered.
Progress ==
    \A r \in Requests :
        /\ r \in applied => pc[r] \in {"reply", "done"}
        /\ pc[r] = "reply" => r \in applied
        /\ pc[r] # "done" => answer[r] = "none"

\* A retry is past the lookup only when the lookup failed.
RetryLooked ==
    \A r \in retries :
        /\ keyStore[call[r].key] # NoResult
        /\ pc[r] \notin {"idle", "replay", "done"} => r \in blind
        /\ r \in applied => r \in blind

\* A transaction commits, whether or not the server learns of it.
Commits(r) == Commit(r) \/ CommitUnacknowledged(r)

IInv ==
    /\ TypeOK
    /\ BalanceInRange
    /\ Conservation
    /\ KeyLandsWithMoney
    /\ AnswersTruthful
    /\ RowLockExclusive
    /\ VersionCurrent
    /\ ValidInTx
    /\ Progress
    /\ RetryLooked
-----------------------------------------------------------------------------
\* The fields of a call.
LEMMA CallType ==
    ASSUME NEW c \in Calls
    PROVE  /\ c.op \in {"topup", "respond"}
           /\ c.profile \in Profiles
           /\ c.amount \in Int
           /\ c.key \in Keys \cup {NoKey}
BY WalletAssumption

\* Recording a result keeps the table typed and every earlier result.
LEMMA StoredKeepsResults ==
    ASSUME TypeOK, NEW r \in Requests
    PROVE  /\ Stored(r) \in [Keys \cup {NoKey} -> Requests \cup {NoResult}]
           /\ Stored(r)[NoKey] = NoResult
           /\ \A k \in Keys \cup {NoKey} :
                /\ keyStore[k] # NoResult => Stored(r)[k] = keyStore[k]
                /\ Stored(r)[k] # keyStore[k] => Stored(r)[k] = r /\ k = call[r].key
           /\ call[r].key # NoKey => Stored(r)[call[r].key] # NoResult
<1>1. call[r].key \in Keys \cup {NoKey}
  BY CallType DEF TypeOK
<1> QED
  BY <1>1, WalletAssumption DEF Stored, TypeOK

\* The server starts in a good state.
LEMMA InitIInv == Init => IInv
BY WalletAssumption
   DEF Init, IInv, TypeOK, BalanceInRange, Conservation, KeyLandsWithMoney,
       AnswersTruthful, RowLockExclusive, VersionCurrent, ValidInTx, Progress,
       RetryLooked, PCs, Answers, Locking, responseFeeTJS
-----------------------------------------------------------------------------
(* One lemma per action.                                                  *)

\* A request arrives; a retry is one whose key has a result by then.
LEMMA SendIInv ==
    ASSUME IInv, NEW r \in Requests, Send(r)
    PROVE  IInv'
<1> USE DEF Send, tables, history, Finish, Locking, IInv
<1>1. TypeOK'
  BY DEF TypeOK, PCs, Answers, Locking, Replayable
<1>2. BalanceInRange' /\ Conservation'
  BY DEF BalanceInRange, Conservation
<1>3. KeyLandsWithMoney'
  BY DEF KeyLandsWithMoney
<1>4. AnswersTruthful' /\ Progress'
  BY CallType DEF AnswersTruthful, Progress, KeyLandsWithMoney, TypeOK, PCs, Answers, Replayable, InTx
<1>5. RowLockExclusive'
  BY DEF RowLockExclusive, TypeOK, PCs
<1>6. VersionCurrent'
  BY DEF VersionCurrent, TypeOK, PCs, Delta
<1>7. ValidInTx'
  BY DEF ValidInTx, TypeOK, PCs, Valid, AmountAccepted, Progress, InTx
<1>8. RetryLooked'
  BY CallType DEF RetryLooked, TypeOK, PCs, Replayable, Progress, InTx
<1> QED
  BY <1>1, <1>2, <1>3, <1>4, <1>5, <1>6, <1>7, <1>8 DEF IInv

\* A replayed request answers with a result that is there.
LEMMA ReplayIInv ==
    ASSUME IInv, NEW r \in Requests, Replay(r)
    PROVE  IInv'
<1> USE DEF Replay, tables, history, Finish, Locking, IInv
<1>1. TypeOK'
  BY DEF TypeOK, PCs, Answers, Locking, Replayable
<1>2. BalanceInRange' /\ Conservation'
  BY DEF BalanceInRange, Conservation
<1>3. KeyLandsWithMoney'
  BY DEF KeyLandsWithMoney
<1>4. AnswersTruthful' /\ Progress'
  BY CallType DEF AnswersTruthful, Progress, KeyLandsWithMoney, TypeOK, PCs, Answers, Replayable, InTx
<1>5. RowLockExclusive'
  BY DEF RowLockExclusive, TypeOK, PCs
<1>6. VersionCurrent'
  BY DEF VersionCurrent, TypeOK, PCs, Delta
<1>7. ValidInTx'
  BY DEF ValidInTx, TypeOK, PCs, Valid, AmountAccepted, Progress, InTx
<1>8. RetryLooked'
  BY CallType DEF RetryLooked, TypeOK, PCs, Replayable, Progress, InTx
<1> QED
  BY <1>1, <1>2, <1>3, <1>4, <1>5, <1>6, <1>7, <1>8 DEF IInv

\* A failed lookup is remembered in blind.
LEMMA ReplayLookupFailsIInv ==
    ASSUME IInv, NEW r \in Requests, ReplayLookupFails(r)
    PROVE  IInv'
<1> USE DEF ReplayLookupFails, tables, history, Finish, Locking, IInv
<1>1. TypeOK'
  BY DEF TypeOK, PCs, Answers, Locking, Replayable
<1>2. BalanceInRange' /\ Conservation'
  BY DEF BalanceInRange, Conservation
<1>3. KeyLandsWithMoney'
  BY DEF KeyLandsWithMoney
<1>4. AnswersTruthful' /\ Progress'
  BY CallType DEF AnswersTruthful, Progress, KeyLandsWithMoney, TypeOK, PCs, Answers, Replayable, InTx
<1>5. RowLockExclusive'
  BY DEF RowLockExclusive, TypeOK, PCs
<1>6. VersionCurrent'
  BY DEF VersionCurrent, TypeOK, PCs, Delta
<1>7. ValidInTx'
  BY DEF ValidInTx, TypeOK, PCs, Valid, AmountAccepted, Progress, InTx
<1>8. RetryLooked'
  BY CallType DEF RetryLooked, TypeOK, PCs, Replayable, Progress, InTx
<1> QED
  BY <1>1, <1>2, <1>3, <1>4, <1>5, <1>6, <1>7, <1>8 DEF IInv

\* Only a valid call passes.
LEMMA ValidateIInv ==
    ASSUME IInv, NEW r \in Requests, Validate(r)
    PROVE  IInv'
<1> USE DEF Validate, tables, history, Finish, Locking, IInv
<1>1. TypeOK'
  BY DEF TypeOK, PCs, Answers, Locking, Replayable
<1>2. BalanceInRange' /\ Conservation'
  BY DEF BalanceInRange, Conservation
<1>3. KeyLandsWithMoney'
  BY DEF KeyLandsWithMoney
<1>4. AnswersTruthful' /\ Progress'
  BY CallType DEF AnswersTruthful, Progress, KeyLandsWithMoney, TypeOK, PCs, Answers, Replayable, InTx
<1>5. RowLockExclusive'
  BY DEF RowLockExclusive, TypeOK, PCs
<1>6. VersionCurrent'
  BY DEF VersionCurrent, TypeOK, PCs, Delta
<1>7. ValidInTx'
  BY DEF ValidInTx, TypeOK, PCs, Valid, AmountAccepted, Progress, InTx
<1>8. RetryLooked'
  BY CallType DEF RetryLooked, TypeOK, PCs, Replayable, Progress, InTx
<1> QED
  BY <1>1, <1>2, <1>3, <1>4, <1>5, <1>6, <1>7, <1>8 DEF IInv

\* Begin takes a connection and changes no row.
LEMMA BeginIInv ==
    ASSUME IInv, NEW r \in Requests, Begin(r)
    PROVE  IInv'
<1> USE DEF Begin, tables, history, Finish, Locking, IInv
<1>1. TypeOK'
  BY DEF TypeOK, PCs, Answers, Locking, Replayable
<1>2. BalanceInRange' /\ Conservation'
  BY DEF BalanceInRange, Conservation
<1>3. KeyLandsWithMoney'
  BY DEF KeyLandsWithMoney
<1>4. AnswersTruthful' /\ Progress'
  BY CallType DEF AnswersTruthful, Progress, KeyLandsWithMoney, TypeOK, PCs, Answers, Replayable, InTx
<1>5. RowLockExclusive'
  BY DEF RowLockExclusive, TypeOK, PCs
<1>6. VersionCurrent'
  BY DEF VersionCurrent, TypeOK, PCs, Delta
<1>7. ValidInTx'
  BY DEF ValidInTx, TypeOK, PCs, Valid, AmountAccepted, Progress, InTx
<1>8. RetryLooked'
  BY CallType DEF RetryLooked, TypeOK, PCs, Replayable, Progress, InTx
<1> QED
  BY <1>1, <1>2, <1>3, <1>4, <1>5, <1>6, <1>7, <1>8 DEF IInv

\* Inserting inside the transaction changes nothing anyone sees.
LEMMA InsertRowsIInv ==
    ASSUME IInv, NEW r \in Requests, InsertRows(r)
    PROVE  IInv'
<1> USE DEF InsertRows, tables, history, Finish, Locking, IInv
<1>1. TypeOK'
  BY DEF TypeOK, PCs, Answers, Locking, Replayable
<1>2. BalanceInRange' /\ Conservation'
  BY DEF BalanceInRange, Conservation
<1>3. KeyLandsWithMoney'
  BY DEF KeyLandsWithMoney
<1>4. AnswersTruthful' /\ Progress'
  BY CallType DEF AnswersTruthful, Progress, KeyLandsWithMoney, TypeOK, PCs, Answers, Replayable, InTx
<1>5. RowLockExclusive'
  BY DEF RowLockExclusive, TypeOK, PCs
<1>6. VersionCurrent'
  BY DEF VersionCurrent, TypeOK, PCs, Delta
<1>7. ValidInTx'
  BY DEF ValidInTx, TypeOK, PCs, Valid, AmountAccepted, Progress, InTx
<1>8. RetryLooked'
  BY CallType DEF RetryLooked, TypeOK, PCs, Replayable, Progress, InTx
<1> QED
  BY <1>1, <1>2, <1>3, <1>4, <1>5, <1>6, <1>7, <1>8 DEF IInv

\* Nor does storing the key before the commit.
LEMMA StoreKeyIInv ==
    ASSUME IInv, NEW r \in Requests, StoreKey(r)
    PROVE  IInv'
<1> USE DEF StoreKey, tables, history, Finish, Locking, IInv
<1>1. TypeOK'
  BY DEF TypeOK, PCs, Answers, Locking, Replayable
<1>2. BalanceInRange' /\ Conservation'
  BY DEF BalanceInRange, Conservation
<1>3. KeyLandsWithMoney'
  BY DEF KeyLandsWithMoney
<1>4. AnswersTruthful' /\ Progress'
  BY CallType DEF AnswersTruthful, Progress, KeyLandsWithMoney, TypeOK, PCs, Answers, Replayable, InTx
<1>5. RowLockExclusive'
  BY DEF RowLockExclusive, TypeOK, PCs
<1>6. VersionCurrent'
  BY DEF VersionCurrent, TypeOK, PCs, Delta
<1>7. ValidInTx'
  BY DEF ValidInTx, TypeOK, PCs, Valid, AmountAccepted, Progress, InTx
<1>8. RetryLooked'
  BY CallType DEF RetryLooked, TypeOK, PCs, Replayable, Progress, InTx
<1> QED
  BY <1>1, <1>2, <1>3, <1>4, <1>5, <1>6, <1>7, <1>8 DEF IInv

\* Only a committed request replies "ok".
LEMMA ReplyIInv ==
    ASSUME IInv, NEW r \in Requests, Reply(r)
    PROVE  IInv'
<1> USE DEF Reply, tables, history, Finish, Locking, IInv
<1>1. TypeOK'
  BY DEF TypeOK, PCs, Answers, Locking, Replayable
<1>2. BalanceInRange' /\ Conservation'
  BY DEF BalanceInRange, Conservation
<1>3. KeyLandsWithMoney'
  BY DEF KeyLandsWithMoney
<1>4. AnswersTruthful' /\ Progress'
  BY CallType DEF AnswersTruthful, Progress, KeyLandsWithMoney, TypeOK, PCs, Answers, Replayable, InTx
<1>5. RowLockExclusive'
  BY DEF RowLockExclusive, TypeOK, PCs
<1>6. VersionCurrent'
  BY DEF VersionCurrent, TypeOK, PCs, Delta
<1>7. ValidInTx'
  BY DEF ValidInTx, TypeOK, PCs, Valid, AmountAccepted, Progress, InTx
<1>8. RetryLooked'
  BY CallType DEF RetryLooked, TypeOK, PCs, Replayable, Progress, InTx
<1> QED
  BY <1>1, <1>2, <1>3, <1>4, <1>5, <1>6, <1>7, <1>8 DEF IInv

\* A failed statement leaves nothing behind.
LEMMA FailIInv ==
    ASSUME IInv, NEW r \in Requests, Fail(r)
    PROVE  IInv'
<1> USE DEF Fail, tables, history, Finish, Locking, IInv
<1>1. TypeOK'
  BY DEF TypeOK, PCs, Answers, Locking, Replayable
<1>2. BalanceInRange' /\ Conservation'
  BY DEF BalanceInRange, Conservation
<1>3. KeyLandsWithMoney'
  BY DEF KeyLandsWithMoney
<1>4. AnswersTruthful' /\ Progress'
  BY CallType DEF AnswersTruthful, Progress, KeyLandsWithMoney, TypeOK, PCs, Answers, Replayable, InTx
<1>5. RowLockExclusive'
  BY DEF RowLockExclusive, TypeOK, PCs
<1>6. VersionCurrent'
  BY DEF VersionCurrent, TypeOK, PCs, Delta
<1>7. ValidInTx'
  BY DEF ValidInTx, TypeOK, PCs, Valid, AmountAccepted, Progress, InTx
<1>8. RetryLooked'
  BY CallType DEF RetryLooked, TypeOK, PCs, Replayable, Progress, InTx
<1> QED
  BY <1>1, <1>2, <1>3, <1>4, <1>5, <1>6, <1>7, <1>8 DEF IInv

\* The UPDATE takes the row lock of its profile and writes a version that is
\* in range: the guard of the debit, the sign of the credit.
LEMMA UpdateBalanceIInv ==
    ASSUME IInv, NEW r \in Requests, UpdateBalance(r)
    PROVE  IInv'
<1> USE DEF UpdateBalance, tables, history, Finish, Locking, IInv
<1>1. call[r] \in Calls /\ call[r].profile \in Profiles /\ call[r].amount \in Int
  BY CallType DEF TypeOK
<1>2. TypeOK'
  BY <1>1 DEF TypeOK, PCs, Answers, Delta, responseFeeTJS
<1>3. BalanceInRange' /\ Conservation'
  BY DEF BalanceInRange, Conservation
<1>4. KeyLandsWithMoney'
  BY DEF KeyLandsWithMoney
<1>5. AnswersTruthful' /\ Progress'
  BY DEF AnswersTruthful, Progress, TypeOK
<1>6. RowLockExclusive'
  BY DEF RowLockExclusive, RowFree, TypeOK
<1>7. VersionCurrent'
  <2>1. ASSUME UpdateSucceeds(r)
        PROVE  balance[call[r].profile] + Delta(call[r]) \in 0..MaxBalance
    <3>1. Valid(call[r])
      BY DEF ValidInTx
    <3> QED
      BY <1>1, <2>1, <3>1, WalletAssumption
         DEF UpdateSucceeds, Valid, AmountAccepted, Affordable, Delta,
             responseFeeTJS, BalanceInRange
  <2> QED
    BY <2>1 DEF VersionCurrent, TypeOK, Delta
<1>8. ValidInTx'
  BY DEF ValidInTx, TypeOK, Valid, AmountAccepted
<1>9. RetryLooked'
  BY DEF RetryLooked, TypeOK, Progress
<1> QED
  BY <1>2, <1>3, <1>4, <1>5, <1>6, <1>7, <1>8, <1>9 DEF IInv

\* The commit publishes the row version, the statement line, the response and
\* the key together; no other transaction holds the row.
LEMMA CommitIInv ==
    ASSUME IInv, NEW r \in Requests, Commits(r)
    PROVE  IInv'
<1> DEFINE p == call[r].profile
<1> USE DEF Commits, Commit, CommitUnacknowledged, Committed, Finish, IInv
<1>1. /\ call[r] \in Calls /\ p \in Profiles /\ call[r].amount \in Int
      /\ call[r].op \in {"topup", "respond"} /\ call[r].key \in Keys \cup {NoKey}
  BY CallType DEF TypeOK
<1>2. /\ newBalance[r] = balance[p] + Delta(call[r])
      /\ newBalance[r] \in 0..MaxBalance
  BY DEF VersionCurrent, Locking
<1>3. TypeOK'
  <2>1. CASE Commit(r)
    BY <1>1, <2>1, StoredKeepsResults DEF TypeOK, PCs
  <2>2. CASE CommitUnacknowledged(r)
    BY <1>1, <2>2, StoredKeepsResults DEF TypeOK, PCs, Answers
  <2> QED
    BY <2>1, <2>2
<1>4. BalanceInRange'
  BY <1>2 DEF BalanceInRange, TypeOK
<1>5. Conservation'
  <2> SUFFICES ASSUME NEW q \in Profiles
               PROVE  /\ balance'[q] = OpeningBalance[q] + topped'[q]
                                         - responseFeeTJS * charged'[q]
                      /\ responses'[q] = charged'[q]
    BY DEF Conservation, responseFeeTJS
  <2>1. /\ balance[q] = OpeningBalance[q] + topped[q] - 4 * charged[q]
        /\ responses[q] = charged[q]
        /\ topped[q] \in Int /\ charged[q] \in Nat /\ OpeningBalance[q] \in Int
    <3>1. topped[q] \in Int /\ charged[q] \in Nat
      BY DEF TypeOK
    <3>2. OpeningBalance[q] \in Int
      BY WalletAssumption
    <3>3. /\ balance[q] = OpeningBalance[q] + topped[q] - 4 * charged[q]
          /\ responses[q] = charged[q]
      BY DEF Conservation, responseFeeTJS
    <3> QED
      BY <3>1, <3>2, <3>3
  <2>2. CASE q # p
    <3>1. /\ balance'[q] = balance[q] /\ topped'[q] = topped[q]
          /\ charged'[q] = charged[q] /\ responses'[q] = responses[q]
      BY <1>1, <2>2 DEF TypeOK
    <3> QED
      BY <2>1, <3>1 DEF responseFeeTJS
  <2>3. CASE q = p /\ call[r].op = "topup"
    BY <1>1, <1>2, <2>1, <2>3 DEF TypeOK, Delta, responseFeeTJS
  <2>4. CASE q = p /\ call[r].op = "respond"
    BY <1>1, <1>2, <2>1, <2>4 DEF TypeOK, Delta, responseFeeTJS
  <2> QED
    BY <1>1, <2>2, <2>3, <2>4
<1>6. KeyLandsWithMoney'
  BY <1>1, StoredKeepsResults, WalletAssumption DEF KeyLandsWithMoney, TypeOK
<1>7. AnswersTruthful'
  <2>1. answer[r] = "none"
    BY DEF Progress
  <2>2. \A s \in Requests : answer[s] = "replayed" =>
           keyStore'[call[s].key] \in applied'
    <3> SUFFICES ASSUME NEW s \in Requests, answer[s] = "replayed"
                 PROVE  keyStore'[call[s].key] \in applied'
      OBVIOUS
    <3>1. call[s].key \in Keys \cup {NoKey}
      BY CallType DEF TypeOK
    <3>2. keyStore[call[s].key] \in applied
      BY DEF AnswersTruthful
    <3>3. keyStore[call[s].key] # NoResult
      BY <3>2, WalletAssumption DEF TypeOK
    <3> QED
      BY <3>1, <3>2, <3>3, StoredKeepsResults
  <2>3. CASE Commit(r)
    BY <2>1, <2>2, <2>3 DEF AnswersTruthful, TypeOK
  <2>4. CASE CommitUnacknowledged(r)
    BY <2>1, <2>2, <2>4 DEF AnswersTruthful, TypeOK
  <2> QED
    BY <2>3, <2>4
<1>8. RowLockExclusive'
  BY DEF RowLockExclusive, Locking, TypeOK
<1>9. VersionCurrent'
  <2> SUFFICES ASSUME NEW s \in Requests, pc'[s] \in Locking
               PROVE  /\ newBalance[s] = balance'[call[s].profile] + Delta(call[s])
                      /\ newBalance[s] \in 0..MaxBalance
    BY DEF VersionCurrent, Delta
  <2>1. s # r /\ pc[s] \in Locking
    BY DEF TypeOK, Locking
  <2>2. call[s].profile # p
    BY <2>1 DEF RowLockExclusive, Locking
  <2>3. /\ balance'[call[s].profile] = balance[call[s].profile]
        /\ newBalance[s] = balance[call[s].profile] + Delta(call[s])
        /\ newBalance[s] \in 0..MaxBalance
    <3>1. balance'[call[s].profile] = balance[call[s].profile]
      <4>1. call[s].profile \in Profiles
        BY CallType DEF TypeOK
      <4>2. balance \in [Profiles -> Int] /\ balance' = [balance EXCEPT ![p] = newBalance[r]]
        BY DEF TypeOK
      <4> HIDE DEF Commits, p
      <4> QED
        BY <2>2, <4>1, <4>2
    <3> QED
      BY <2>1, <3>1 DEF VersionCurrent
  <2> QED
    BY <2>3
<1>10. ValidInTx'
  BY DEF ValidInTx, TypeOK, Valid, AmountAccepted, Locking
<1>11. Progress'
  BY DEF Progress, TypeOK
<1>12. RetryLooked'
  <2> SUFFICES ASSUME NEW s \in retries
               PROVE  /\ keyStore'[call[s].key] # NoResult
                      /\ pc'[s] \notin {"idle", "replay", "done"} => s \in blind
                      /\ s \in applied' => s \in blind
    BY DEF RetryLooked
  <2>1. s \in Requests /\ call[s].key \in Keys \cup {NoKey}
    BY CallType DEF TypeOK
  <2> QED
    BY <2>1, StoredKeepsResults DEF RetryLooked, TypeOK
<1> QED
  BY <1>3, <1>4, <1>5, <1>6, <1>7, <1>8, <1>9, <1>10, <1>11, <1>12 DEF IInv

\* A crash ends every open transaction and leaves the tables alone.
LEMMA CrashIInv ==
    ASSUME IInv, Crash
    PROVE  IInv'
<1> USE DEF Crash, tables, history, IInv
<1>1. TypeOK'
  BY DEF TypeOK, PCs, Answers
<1>2. BalanceInRange' /\ Conservation' /\ KeyLandsWithMoney'
  BY DEF BalanceInRange, Conservation, KeyLandsWithMoney
<1>3. AnswersTruthful' /\ Progress'
  BY DEF AnswersTruthful, Progress, TypeOK, PCs
<1>4. RowLockExclusive' /\ VersionCurrent'
  BY DEF RowLockExclusive, VersionCurrent, Locking, TypeOK
<1>5. ValidInTx'
  BY DEF ValidInTx, Locking, TypeOK
<1>6. RetryLooked'
  BY DEF RetryLooked, TypeOK
<1> QED
  BY <1>1, <1>2, <1>3, <1>4, <1>5, <1>6 DEF IInv

\* Stuttering.
LEMMA StutterIInv == IInv /\ UNCHANGED vars => IInv'
BY DEF IInv, vars, tables, history, TypeOK, BalanceInRange, Conservation,
       KeyLandsWithMoney, AnswersTruthful, RowLockExclusive, VersionCurrent,
       ValidInTx, Progress, RetryLooked, Delta, Valid, AmountAccepted

\* Every step of the system keeps the invariant.
LEMMA NextIInv == IInv /\ [Next]_vars => IInv'
<1> SUFFICES ASSUME IInv, [Next]_vars
             PROVE  IInv'
  OBVIOUS
<1>1. ASSUME NEW r \in Requests, Step(r)
      PROVE  IInv'
  BY <1>1, ReplayIInv, ValidateIInv, BeginIInv, UpdateBalanceIInv, InsertRowsIInv,
     StoreKeyIInv, CommitIInv, ReplyIInv DEF Step, Commits
<1>2. ASSUME NEW r \in Requests,
             Send(r) \/ ReplayLookupFails(r) \/ Fail(r) \/ CommitUnacknowledged(r)
      PROVE  IInv'
  BY <1>2, SendIInv, ReplayLookupFailsIInv, FailIInv, CommitIInv DEF Commits
<1> QED
  BY <1>1, <1>2, CrashIInv, StutterIInv DEF Next, Terminated
-----------------------------------------------------------------------------
(* The results.                                                            *)

\* The inductive invariant holds in every reachable state.
THEOREM Inductive == Spec => []IInv
BY InitIInv, NextIInv, PTL DEF Spec

\* Types: in particular no result is ever stored under the empty key.
THEOREM TypeCorrect == Spec => []TypeOK
<1>1. IInv => TypeOK
  BY DEF IInv
<1> QED
  BY <1>1, Inductive, PTL

\* No wallet is ever overdrawn, with any number of concurrent requests.
THEOREM NeverOverdrawn == Spec => []BalanceInRange
<1>1. IInv => BalanceInRange
  BY DEF IInv
<1> QED
  BY <1>1, Inductive, PTL

\* The balance always equals the opening balance plus the wallet statement,
\* and every response is paid for, through failures and crashes.
THEOREM MoneyConserved == Spec => []Conservation
<1>1. IInv => Conservation
  BY DEF IInv
<1> QED
  BY <1>1, Inductive, PTL

\* The idempotency record and the money movement land together.
THEOREM KeyAtomicity == Spec => []KeyLandsWithMoney
<1>1. IInv => KeyLandsWithMoney
  BY DEF IInv
<1> QED
  BY <1>1, Inductive, PTL

\* A sequential retry moves no money unless its lookup failed.
THEOREM RetriesReplay == Spec => []RetryReplays
<1>1. IInv => RetryReplays
  BY DEF IInv, RetryLooked, RetryReplays
<1> QED
  BY <1>1, Inductive, PTL

\* No client is told "ok" or refused against what was committed.
THEOREM AnswersAreTruthful == Spec => []AnswersTruthful
<1>1. IInv => AnswersTruthful
  BY DEF IInv
<1> QED
  BY <1>1, Inductive, PTL

\* Only a commit changes what the ledger sees.
LEMMA OnlyCommitsChangeTables ==
    [Next]_vars => (\E r \in Requests : Commits(r)) \/ UNCHANGED tables
BY DEF Commits, Next, Step, Send, Replay, ReplayLookupFails, Validate, Begin, UpdateBalance,
       InsertRows, StoreKey, Reply, Fail, Crash, Terminated, vars, tables

\* A result, once stored, is never replaced.
THEOREM FirstResultIsFinal == Spec => FirstResultStays
<1>1. IInv /\ [Next]_vars => [\A k \in Keys : keyStore[k] # NoResult =>
                                 keyStore'[k] = keyStore[k]]_vars
  <2> SUFFICES ASSUME IInv, [Next]_vars, NEW k \in Keys, keyStore[k] # NoResult
               PROVE  keyStore'[k] = keyStore[k]
    OBVIOUS
  <2>1. ASSUME NEW r \in Requests, Commits(r)
        PROVE  keyStore'[k] = keyStore[k]
    BY <2>1, StoredKeepsResults DEF Commits, Commit, CommitUnacknowledged, Committed, IInv
  <2>2. (\E r \in Requests : Commits(r)) \/ UNCHANGED keyStore
    BY OnlyCommitsChangeTables DEF tables
  <2> QED
    BY <2>1, <2>2
<1> QED
  BY <1>1, Inductive, PTL DEF Spec, FirstResultStays

\* A commit is one atomic operation of the ledger.
LEMMA CommitIsLedgerStep ==
    ASSUME IInv, NEW r \in Requests, Commits(r)
    PROVE  L!LedgerNext
<1> DEFINE p == call[r].profile
           k == call[r].key
<1> USE DEF IInv, Commits, Commit, CommitUnacknowledged, Committed
<1>1. /\ call[r] \in Calls /\ p \in Profiles /\ call[r].amount \in Int
      /\ call[r].op \in {"topup", "respond"} /\ k \in Keys \cup {NoKey}
  BY CallType DEF TypeOK
<1>2. /\ newBalance[r] = balance[p] + Delta(call[r])
      /\ newBalance[r] \in 0..MaxBalance
  BY DEF VersionCurrent, Locking
<1>3. Valid(call[r])
  BY DEF ValidInTx, Locking
<1>4. balance[p] \in 0..MaxBalance
  BY <1>1 DEF BalanceInRange
<1>5. L!Remember(k)
  <2>1. \A j \in Keys : Stored(r)[j] # NoResult <=>
            keyStore[j] # NoResult \/ j \in {k} \ {NoKey}
    BY <1>1, StoredKeepsResults, WalletAssumption DEF TypeOK
  <2>2. keyStore' = Stored(r)
    OBVIOUS
  <2> QED
    BY <1>1, <2>1, <2>2 DEF L!Remember
<1>6. CASE call[r].op = "topup"
  <2>1. call[r].amount \in 1..MaxBalance /\ balance[p] + call[r].amount <= MaxBalance
    BY <1>1, <1>2, <1>3, <1>4, <1>6, WalletAssumption DEF Delta, Valid, AmountAccepted
  <2>2. /\ balance' = [balance EXCEPT ![p] = @ + call[r].amount]
        /\ topped' = [topped EXCEPT ![p] = @ + call[r].amount]
    BY <1>2, <1>6 DEF Delta
  <2>3. UNCHANGED <<charged, responses>>
    BY <1>1, <1>6 DEF TypeOK
  <2>4. L!Credit(p, call[r].amount, k)
    BY <1>5, <2>1, <2>2, <2>3 DEF L!Credit
  <2> HIDE DEF p, k
  <2> QED
    BY <1>1, <2>1, <2>4 DEF L!LedgerNext, L!Credit, L!Charge, L!Remember
<1>7. CASE call[r].op = "respond"
  <2>1. balance[p] >= 4 /\ newBalance[r] = balance[p] - 4
    BY <1>2, <1>4, <1>7, WalletAssumption DEF Delta, responseFeeTJS
  <2>2. /\ balance' = [balance EXCEPT ![p] = @ - 4]
        /\ charged' = [charged EXCEPT ![p] = @ + 1]
        /\ responses' = [responses EXCEPT ![p] = @ + 1]
    BY <1>7, <2>1
  <2>3. UNCHANGED topped
    BY <1>1, <1>7 DEF TypeOK
  <2>4. L!Charge(p, k)
    BY <1>5, <2>1, <2>2, <2>3 DEF L!Charge, L!responseFeeTJS
  <2> HIDE DEF p, k
  <2> QED
    BY <1>1, <2>4 DEF L!LedgerNext, L!Credit, L!Charge, L!Remember
<1> QED
  BY <1>1, <1>6, <1>7

\* Statement by statement, with concurrency, failures and crashes, the wallet
\* implements the atomic ledger.
THEOREM Refinement == Spec => ImplementsLedger
<1>1. Init => L!LedgerInit
  BY DEF Init, L!LedgerInit
<1>2. IInv /\ [Next]_vars => [L!LedgerNext]_(L!ledgerVars)
  BY CommitIsLedgerStep, OnlyCommitsChangeTables DEF L!ledgerVars, tables
<1> QED
  BY <1>1, <1>2, Inductive, PTL DEF Spec, ImplementsLedger, L!LedgerSpec
=============================================================================
