---------------------------- MODULE OrdersProofs ----------------------------
(***************************************************************************)
(* Machine-checked safety of module Orders, for any sets of orders,        *)
(* masters and names and any finite set of requests.                       *)
(*                                                                         *)
(* The requests judge the order by what they read and write it later, so   *)
(* the invariants rest on what stays true in between: a selected master is *)
(* never unset, a response is never withdrawn and a chat is never deleted. *)
(***************************************************************************)
EXTENDS Orders, FiniteSetTheorems, TLAPS

\* What a request may be doing, by its kind.
KindOfStep ==
    \A r \in Requests :
        /\ pc[r] \in {"lookup", "insert"} => op[r].kind = "select"
        /\ pc[r] = "credit" => op[r].kind # "select"
        /\ pc[r] = "read" /\ op[r].kind = "select" => target[r] \in Masters

\* A check made on what was read still holds when the UPDATE runs.
ChecksLast ==
    \A r \in Requests :
        /\ op[r].kind = "select" /\ pc[r] \in {"update", "lookup", "insert"}
              => ResponseFound(r)
        /\ op[r].kind = "complete" /\ pc[r] = "update" => MayComplete(r)
        /\ pc[r] # "done" => answer[r] = "none"

\* A selection about to answer holds a chat of its order.
ChatInHand ==
    \A r \in Requests :
        pc[r] = "answer" /\ op[r].kind = "select" => <<op[r].id, given[r]>> \in chats

\* Chats are only opened with masters who responded to their order.
ChatsResponded == \A i \in Ids, m \in Masters : <<i, m>> \in chats => m \in responded[i]

\* Nor is one returned for another order or with anybody else.
AnswerHoldsChat ==
    \A r \in Requests :
        answer[r] = "ok" /\ op[r].kind = "select" =>
            <<op[r].id, given[r]>> \in chats /\ given[r] \in responded[op[r].id]

\* Past the UPDATE, or over without a refusal.
PastUpdate(r) ==
    \/ pc[r] \in {"lookup", "insert", "answer"}
    \/ pc[r] = "done" /\ answer[r] \in {"ok", "error", "lost"}

\* A selected master was written by a selection of that master.
ChosenBySomeone ==
    \A i \in Ids : selected[i] # NoMaster => \E r \in Requests : Chose(r, i) /\ PastUpdate(r)

\* Completions that have passed the statement crediting master m.
PastCredit(m) == {r \in completed : target[r] = m /\ pc[r] # "credit"}

\* A completion is recorded by the request that made it, which credits once.
CreditsCounted ==
    /\ \A r \in completed : op[r].kind = "complete" /\ pc[r] \in {"credit", "answer", "done"}
    /\ \A r \in Requests : pc[r] = "credit" /\ op[r].kind = "complete" => r \in completed
    /\ \A m \in Masters : jobs[m] <= Cardinality(PastCredit(m))

IInv ==
    /\ TypeOK
    /\ FinishedHasMaster
    /\ SelectedMasterResponded
    /\ AnswerHoldsChat
    /\ KindOfStep
    /\ ChecksLast
    /\ ChatInHand
    /\ ChatsResponded
    /\ ChosenBySomeone
    /\ CreditsCounted
-----------------------------------------------------------------------------
\* The server starts in a good state.
LEMMA InitIInv == Init => IInv
<1> SUFFICES ASSUME Init
             PROVE  IInv
  OBVIOUS
<1>1. CreditsCounted
  <2>1. completed = {} /\ \A r \in Requests : pc[r] # "credit"
    BY DEF Init
  <2>2. \A m \in Masters : jobs[m] = 0 /\ Cardinality(PastCredit(m)) = 0
    <3> TAKE m \in Masters
    <3>1. PastCredit(m) = {}
      BY <2>1 DEF PastCredit
    <3> QED
      BY <3>1, FS_EmptySet DEF Init
  <2> QED
    BY <2>1, <2>2 DEF CreditsCounted
<1> QED
  BY <1>1, OrdersAssumption
     DEF Init, IInv, TypeOK, FinishedHasMaster, SelectedMasterResponded,
         AnswerHoldsChat, KindOfStep, ChecksLast, ChatInHand, ChatsResponded,
         ChosenBySomeone, ActsOnMaster,
         Statuses, Final, PCs, Answers, Kinds

\* A step that leaves the counters, the completions and their masters alone and
\* takes no request back to its credit keeps the count.
LEMMA CountKept ==
    ASSUME TypeOK, CreditsCounted, jobs' = jobs, completed' = completed,
           \A r \in completed : /\ target'[r] = target[r]
                                /\ pc'[r] = "credit" => pc[r] = "credit"
    PROVE  \A m \in Masters : jobs'[m] <= Cardinality(PastCredit(m)')
<1> SUFFICES ASSUME NEW m \in Masters
             PROVE  jobs'[m] <= Cardinality(PastCredit(m)')
  OBVIOUS
<1>1. PastCredit(m) \subseteq PastCredit(m)'
  BY DEF PastCredit
<1>2. IsFiniteSet(PastCredit(m)')
  BY OrdersAssumption, FS_Subset DEF PastCredit, TypeOK
<1>3. /\ Cardinality(PastCredit(m)) <= Cardinality(PastCredit(m)')
      /\ Cardinality(PastCredit(m)) \in Nat /\ Cardinality(PastCredit(m)') \in Nat
  BY <1>1, <1>2, FS_Subset, FS_CardinalityType
<1> QED
  BY <1>3 DEF CreditsCounted, TypeOK

\* A step that selects nobody, and takes no selection back before its UPDATE,
\* leaves every selected master with the selection that wrote it.
LEMMA ChoosersStay ==
    ASSUME ChosenBySomeone, selected' = selected, op' = op,
           \A r \in Requests : op[r].kind = "select" /\ PastUpdate(r)
                                 => target'[r] = target[r] /\ PastUpdate(r)'
    PROVE  ChosenBySomeone'
BY DEF ChosenBySomeone, Chose
-----------------------------------------------------------------------------
(* One lemma per action.                                                  *)

\* A new order starts active, with nobody selected.
LEMMA CreateOrderIInv ==
    ASSUME IInv, NEW i \in Ids, CreateOrder(i)
    PROVE  IInv'
<1> USE OrdersAssumption DEF CreateOrder, requestVars, IInv
<1>1. TypeOK'
  BY DEF TypeOK, ActsOnMaster, Statuses
<1>2. FinishedHasMaster' /\ SelectedMasterResponded' /\ AnswerHoldsChat'
  BY DEF FinishedHasMaster, SelectedMasterResponded, AnswerHoldsChat, TypeOK
<1>3. KindOfStep' /\ ChecksLast' /\ ChatInHand' /\ ChatsResponded'
  BY DEF KindOfStep, ChecksLast, ChatInHand, ChatsResponded, ResponseFound, MayComplete
<1>4. CreditsCounted'
  BY CountKept DEF CreditsCounted
<1>9. ChosenBySomeone'
  BY ChoosersStay DEF PastUpdate
<1> QED
  BY <1>1, <1>2, <1>3, <1>4, <1>9

\* A response only adds to the masters that may be selected.
LEMMA RespondIInv ==
    ASSUME IInv, NEW i \in Ids, NEW m \in Masters, Respond(i, m)
    PROVE  IInv'
<1> USE OrdersAssumption DEF Respond, requestVars, IInv
<1>1. TypeOK'
  BY DEF TypeOK, ActsOnMaster
<1>2. \A j \in Ids : responded[j] \subseteq responded'[j]
  BY DEF TypeOK
<1>3. FinishedHasMaster' /\ SelectedMasterResponded' /\ AnswerHoldsChat'
  BY <1>2 DEF FinishedHasMaster, SelectedMasterResponded, AnswerHoldsChat
<1>4. KindOfStep' /\ ChatInHand' /\ ChatsResponded'
  BY <1>2 DEF KindOfStep, ChatInHand, ChatsResponded, TypeOK
<1>5. ChecksLast'
  BY <1>2 DEF ChecksLast, ResponseFound, MayComplete, TypeOK
<1>6. CreditsCounted'
  BY CountKept DEF CreditsCounted
<1>9. ChosenBySomeone'
  BY ChoosersStay DEF PastUpdate
<1> QED
  BY <1>1, <1>3, <1>4, <1>5, <1>6, <1>9

\* A name matters to the chat that is found, never to whose order it is.
LEMMA RenameIInv ==
    ASSUME IInv, NEW m \in Masters, Rename(m)
    PROVE  IInv'
<1> USE OrdersAssumption DEF Rename, requestVars, IInv
<1>1. TypeOK'
  BY DEF TypeOK, ActsOnMaster
<1>2. FinishedHasMaster' /\ SelectedMasterResponded' /\ AnswerHoldsChat'
  BY DEF FinishedHasMaster, SelectedMasterResponded, AnswerHoldsChat
<1>3. KindOfStep' /\ ChecksLast' /\ ChatInHand' /\ ChatsResponded'
  BY DEF KindOfStep, ChecksLast, ChatInHand, ChatsResponded, ResponseFound, MayComplete
<1>4. CreditsCounted'
  BY CountKept DEF CreditsCounted
<1>9. ChosenBySomeone'
  BY ChoosersStay DEF PastUpdate
<1> QED
  BY <1>1, <1>2, <1>3, <1>4, <1>9

\* A request is sent; a selection names its master.
LEMMA SendIInv ==
    ASSUME IInv, NEW r \in Requests, Send(r)
    PROVE  IInv'
<1> USE OrdersAssumption DEF Send, Goto, IInv
<1>1. TypeOK'
  BY DEF TypeOK, ActsOnMaster, PCs
<1>2. FinishedHasMaster' /\ SelectedMasterResponded' /\ AnswerHoldsChat'
  BY DEF FinishedHasMaster, SelectedMasterResponded, AnswerHoldsChat
<1>3. KindOfStep' /\ ChecksLast' /\ ChatInHand' /\ ChatsResponded'
  BY DEF KindOfStep, ChecksLast, ChatInHand, ChatsResponded, ResponseFound, MayComplete, TypeOK
<1>4. CreditsCounted'
  <2>1. r \notin completed
    BY DEF CreditsCounted
  <2>2. \A s \in completed : target'[s] = target[s] /\ pc'[s] = pc[s]
    BY <2>1 DEF TypeOK
  <2> QED
    BY <2>1, <2>2, CountKept DEF CreditsCounted, TypeOK
<1>9. ChosenBySomeone'
  BY ChoosersStay DEF PastUpdate, TypeOK
<1> QED
  BY <1>1, <1>2, <1>3, <1>4, <1>9

\* The read either rejects the request or leaves its check true.
LEMMA ReadIInv ==
    ASSUME IInv, NEW r \in Requests, Read(r)
    PROVE  IInv'
<1> USE OrdersAssumption DEF Read, Goto, Finish, IInv
<1>0. /\ target' \in [Requests -> Masters \cup {NoMaster}]
      /\ \A s \in Requests \ {r} : target'[s] = target[s] /\ pc'[s] = pc[s]
      /\ op[r].kind = "select" => target'[r] = target[r]
      /\ op[r].kind # "select" => target'[r] = selected[op[r].id]
      /\ pc' \in [Requests -> PCs] /\ pc'[r] \in {"update", "done"}
      /\ pc'[r] = "update" =>
            /\ op[r].kind = "complete" => MayComplete(r)
            /\ op[r].kind = "select" => ResponseFound(r)
      /\ answer' \in [Requests -> Answers]
      /\ \A s \in Requests \ {r} : answer'[s] = answer[s]
      /\ pc'[r] # "done" => answer'[r] = answer[r]
      /\ answer'[r] # "ok"
  BY DEF TypeOK, PCs, Answers, ChecksLast
<1>1. TypeOK'
  BY <1>0 DEF TypeOK, ActsOnMaster, MayComplete, KindOfStep, Kinds
<1>2. FinishedHasMaster' /\ SelectedMasterResponded' /\ AnswerHoldsChat'
  BY <1>0 DEF FinishedHasMaster, SelectedMasterResponded, AnswerHoldsChat
<1>3. KindOfStep' /\ ChecksLast' /\ ChatInHand' /\ ChatsResponded'
  BY <1>0 DEF KindOfStep, ChecksLast, ChatInHand, ChatsResponded, ResponseFound, MayComplete
<1>4. CreditsCounted'
  BY <1>0, CountKept DEF CreditsCounted, TypeOK
<1>9. ChosenBySomeone'
  BY <1>0, ChoosersStay DEF PastUpdate, TypeOK
<1> QED
  BY <1>1, <1>2, <1>3, <1>4, <1>9

\* The UPDATE: a selection writes a master who responded, a completion finds
\* that some master has been selected ever since it looked.
LEMMA UpdateIInv ==
    ASSUME IInv, NEW r \in Requests, Update(r)
    PROVE  IInv'
<1> USE OrdersAssumption DEF IInv
<1>0. /\ pc[r] = "update" /\ op[r].id \in Ids /\ op[r].kind \in Kinds
      /\ UNCHANGED <<responded, name, chats, jobs, op, target, given, answer>>
  <2>1. op[r].id \in Ids /\ op[r].kind \in Kinds
    BY DEF TypeOK
  <2> QED
    BY <2>1 DEF Update, Goto, Kinds
<1>1. CASE op[r].kind = "select"
  <2>0. /\ status' = [status EXCEPT ![op[r].id] = "selected"]
        /\ selected' = [selected EXCEPT ![op[r].id] = target[r]]
        /\ pc' = [pc EXCEPT ![r] = "lookup"]
        /\ UNCHANGED completed
    BY <1>1 DEF Update, Goto
  <2>1. target[r] \in Masters /\ target[r] \in responded[op[r].id]
    BY <1>0, <1>1 DEF TypeOK, ActsOnMaster, ChecksLast, ResponseFound
  <2>2. TypeOK'
    BY <1>0, <1>1, <2>0, <2>1 DEF TypeOK, ActsOnMaster, Statuses, PCs
  <2>3. FinishedHasMaster' /\ SelectedMasterResponded' /\ AnswerHoldsChat'
    BY <1>0, <2>0, <2>1
       DEF FinishedHasMaster, SelectedMasterResponded, AnswerHoldsChat, TypeOK
  <2>4. KindOfStep' /\ ChecksLast' /\ ChatInHand' /\ ChatsResponded'
    BY <1>0, <1>1, <2>0, <2>1
       DEF KindOfStep, ChecksLast, ChatInHand, ChatsResponded, ResponseFound,
           MayComplete, TypeOK
  <2>5. r \notin completed
    BY <1>0 DEF CreditsCounted
  <2>6. CreditsCounted'
    BY <1>0, <1>1, <2>0, <2>5, CountKept DEF CreditsCounted, TypeOK
  <2>7. ChosenBySomeone'
    <3> SUFFICES ASSUME NEW i \in Ids, selected'[i] # NoMaster
                 PROVE  \E s \in Requests : Chose(s, i)' /\ PastUpdate(s)'
      BY DEF ChosenBySomeone
    <3>1. CASE i = op[r].id
      <4>1. Chose(r, i)' /\ PastUpdate(r)'
        BY <1>0, <1>1, <2>0, <3>1 DEF Chose, PastUpdate, TypeOK
      <4> QED
        BY <4>1
    <3>2. CASE i # op[r].id
      <4>1. selected'[i] = selected[i]
        BY <2>0, <3>2 DEF TypeOK
      <4>2. PICK s \in Requests : Chose(s, i) /\ PastUpdate(s)
        BY <4>1 DEF ChosenBySomeone
      <4>3. s # r
        BY <1>0, <4>2 DEF PastUpdate
      <4> QED
        BY <1>0, <2>0, <4>1, <4>2, <4>3 DEF Chose, PastUpdate, TypeOK
    <3> QED
      BY <3>1, <3>2
  <2> QED
    BY <2>2, <2>3, <2>4, <2>6, <2>7
<1>2. CASE op[r].kind = "complete"
  <2>0. /\ status' = [status EXCEPT ![op[r].id] = "completed"]
        /\ completed' = completed \cup {r}
        /\ pc' = [pc EXCEPT ![r] = "credit"]
        /\ UNCHANGED selected
    BY <1>2 DEF Update, Goto
  <2>1. target[r] \in Masters /\ selected[op[r].id] # NoMaster
    BY <1>0, <1>2 DEF TypeOK, ActsOnMaster, ChecksLast, MayComplete
  <2>2. TypeOK'
    BY <1>0, <1>2, <2>0, <2>1 DEF TypeOK, ActsOnMaster, Statuses, Final, PCs
  <2>3. FinishedHasMaster' /\ SelectedMasterResponded' /\ AnswerHoldsChat'
    BY <1>0, <2>0, <2>1
       DEF FinishedHasMaster, SelectedMasterResponded, AnswerHoldsChat, TypeOK
  <2>4. KindOfStep' /\ ChecksLast' /\ ChatInHand' /\ ChatsResponded'
    BY <1>0, <1>2, <2>0
       DEF KindOfStep, ChecksLast, ChatInHand, ChatsResponded, ResponseFound,
           MayComplete, TypeOK
  <2>5. CreditsCounted'
    <3>1. \A m \in Masters : PastCredit(m)' = PastCredit(m)
      BY <1>0, <2>0 DEF PastCredit, CreditsCounted, TypeOK
    <3> QED
      BY <1>0, <1>2, <2>0, <3>1 DEF CreditsCounted, TypeOK
  <2>6. ChosenBySomeone'
    BY <1>0, <2>0, ChoosersStay DEF PastUpdate, TypeOK
  <2> QED
    BY <2>2, <2>3, <2>4, <2>5, <2>6
<1>3. CASE op[r].kind = "cancel"
  <2>0. /\ status' = [status EXCEPT ![op[r].id] = "cancelled"]
        /\ pc' = [pc EXCEPT ![r] = "credit"]
        /\ UNCHANGED <<selected, completed>>
    BY <1>3 DEF Update, Goto
  <2>1. TypeOK'
    BY <1>0, <1>3, <2>0 DEF TypeOK, ActsOnMaster, Statuses, Final, PCs
  <2>2. FinishedHasMaster' /\ SelectedMasterResponded' /\ AnswerHoldsChat'
    BY <1>0, <2>0
       DEF FinishedHasMaster, SelectedMasterResponded, AnswerHoldsChat, TypeOK
  <2>3. KindOfStep' /\ ChecksLast' /\ ChatInHand' /\ ChatsResponded'
    BY <1>0, <1>3, <2>0
       DEF KindOfStep, ChecksLast, ChatInHand, ChatsResponded, ResponseFound,
           MayComplete, TypeOK
  <2>4. r \notin completed
    BY <1>0 DEF CreditsCounted
  <2>5. CreditsCounted'
    BY <1>0, <1>3, <2>0, <2>4, CountKept DEF CreditsCounted, TypeOK
  <2>6. ChosenBySomeone'
    BY <1>0, <2>0, ChoosersStay DEF PastUpdate, TypeOK
  <2> QED
    BY <2>1, <2>2, <2>3, <2>5, <2>6
<1> QED
  BY <1>0, <1>1, <1>2, <1>3 DEF Kinds

\* The counter goes up by one, with the completion it is for.
LEMMA CreditIInv ==
    ASSUME IInv, NEW r \in Requests, Credit(r)
    PROVE  IInv'
<1> USE OrdersAssumption DEF IInv
<1>0. /\ pc[r] = "credit" /\ pc' = [pc EXCEPT ![r] = "answer"]
      /\ UNCHANGED <<status, selected, responded, name, chats, op, target, given,
                     completed, answer>>
  BY DEF Credit, Goto
<1>1. \/ jobs' = jobs
      \/ /\ op[r].kind = "complete" /\ target[r] \in Masters
         /\ jobs' = [jobs EXCEPT ![target[r]] = jobs[target[r]] + 1]
  BY DEF Credit, Credits
<1>2. TypeOK'
  <2>1. jobs' \in [Masters -> Nat]
    <3>1. target[r] \in Masters => jobs[target[r]] + 1 \in Nat
      BY DEF TypeOK
    <3> QED
      BY <1>1, <3>1 DEF TypeOK
  <2> QED
    BY <1>0, <2>1 DEF TypeOK, ActsOnMaster, PCs
<1>3. FinishedHasMaster' /\ SelectedMasterResponded' /\ AnswerHoldsChat'
  BY <1>0 DEF FinishedHasMaster, SelectedMasterResponded, AnswerHoldsChat
<1>4. KindOfStep' /\ ChecksLast' /\ ChatInHand' /\ ChatsResponded'
  BY <1>0
     DEF KindOfStep, ChecksLast, ChatInHand, ChatsResponded, ResponseFound, MayComplete,
         TypeOK
<1>5. CreditsCounted'
  <2>1. /\ \A s \in completed : op'[s].kind = "complete"
                                /\ pc'[s] \in {"credit", "answer", "done"}
        /\ \A s \in Requests : pc'[s] = "credit" /\ op'[s].kind = "complete" => s \in completed
    BY <1>0 DEF CreditsCounted, TypeOK
  <2>2. CASE jobs' = jobs
    BY <1>0, <2>1, <2>2, CountKept DEF CreditsCounted, TypeOK
  <2>3. CASE /\ op[r].kind = "complete" /\ target[r] \in Masters
             /\ jobs' = [jobs EXCEPT ![target[r]] = jobs[target[r]] + 1]
    <3> SUFFICES ASSUME NEW m \in Masters
                 PROVE  jobs'[m] <= Cardinality(PastCredit(m)')
      BY <1>0, <2>1 DEF CreditsCounted
    <3>1. IsFiniteSet(PastCredit(m))
      BY FS_Subset DEF PastCredit, TypeOK
    <3>2. CASE m = target[r]
      <4>1. r \in completed /\ r \notin PastCredit(m)
        BY <1>0, <2>3 DEF CreditsCounted, PastCredit
      <4>2. PastCredit(m)' = PastCredit(m) \cup {r}
        BY <1>0, <3>2, <4>1 DEF PastCredit, TypeOK
      <4>3. /\ Cardinality(PastCredit(m)') = Cardinality(PastCredit(m)) + 1
            /\ Cardinality(PastCredit(m)) \in Nat
        BY <3>1, <4>1, <4>2, FS_AddElement, FS_CardinalityType
      <4>4. jobs'[m] = jobs[m] + 1 /\ jobs[m] \in Nat
        BY <2>3, <3>2 DEF TypeOK
      <4> QED
        BY <4>3, <4>4 DEF CreditsCounted
    <3>3. CASE m # target[r]
      <4>1. PastCredit(m)' = PastCredit(m)
        BY <1>0, <3>3 DEF PastCredit, TypeOK
      <4>2. jobs'[m] = jobs[m]
        BY <2>3, <3>3 DEF TypeOK
      <4> QED
        BY <4>1, <4>2 DEF CreditsCounted
    <3> QED
      BY <3>2, <3>3
  <2> QED
    BY <1>1, <2>2, <2>3
<1>9. ChosenBySomeone'
  BY <1>0, ChoosersStay DEF PastUpdate, KindOfStep, TypeOK
<1> QED
  BY <1>2, <1>3, <1>4, <1>5, <1>9

\* A chat that is found belongs to the order of the selection.
LEMMA LookupIInv ==
    ASSUME IInv, NEW r \in Requests, Lookup(r)
    PROVE  IInv'
<1> USE OrdersAssumption DEF IInv
<1>0. /\ pc[r] = "lookup"
      /\ UNCHANGED <<status, selected, responded, name, chats, jobs, op, target,
                     completed, answer>>
      /\ \/ /\ pc' = [pc EXCEPT ![r] = "answer"]
            /\ \E m \in Masters : /\ <<op[r].id, m>> \in chats
                                  /\ given' = [given EXCEPT ![r] = m]
         \/ pc' = [pc EXCEPT ![r] = "insert"] /\ UNCHANGED given
  BY DEF Lookup, Goto, MatchingChats
<1>1. TypeOK'
  BY <1>0 DEF TypeOK, ActsOnMaster, PCs
<1>2. FinishedHasMaster' /\ SelectedMasterResponded'
  BY <1>0 DEF FinishedHasMaster, SelectedMasterResponded
<1>3. AnswerHoldsChat'
  BY <1>0 DEF AnswerHoldsChat, ChecksLast, TypeOK
<1>4. KindOfStep' /\ ChecksLast' /\ ChatInHand' /\ ChatsResponded'
  BY <1>0
     DEF KindOfStep, ChecksLast, ChatInHand, ChatsResponded, ResponseFound, MayComplete,
         TypeOK
<1>5. CreditsCounted'
  BY <1>0, CountKept DEF CreditsCounted, TypeOK
<1>9. ChosenBySomeone'
  BY <1>0, ChoosersStay DEF PastUpdate, TypeOK
<1> QED
  BY <1>1, <1>2, <1>3, <1>4, <1>5, <1>9

\* The chat is inserted for the selection's own pair, or its request fails.
LEMMA InsertChatIInv ==
    ASSUME IInv, NEW r \in Requests, InsertChat(r)
    PROVE  IInv'
<1> USE OrdersAssumption DEF IInv
<1>0. /\ pc[r] = "insert"
      /\ UNCHANGED <<status, selected, responded, name, jobs, op, target, completed>>
      /\ \/ /\ pc' = [pc EXCEPT ![r] = "done"]
            /\ answer' = [answer EXCEPT ![r] = "error"]
            /\ UNCHANGED <<chats, given>>
         \/ /\ chats' = chats \cup {<<op[r].id, target[r]>>}
            /\ given' = [given EXCEPT ![r] = target[r]]
            /\ pc' = [pc EXCEPT ![r] = "answer"] /\ UNCHANGED answer
  BY DEF InsertChat, Goto, Finish
<1>1. target[r] \in Masters /\ op[r].id \in Ids
  BY <1>0 DEF TypeOK, ActsOnMaster
<1>2. TypeOK'
  <2>1. chats' \subseteq Ids \X Masters
    BY <1>0, <1>1 DEF TypeOK
  <2>2. given' \in [Requests -> Masters \cup {NoMaster}]
    BY <1>0, <1>1 DEF TypeOK
  <2>3. /\ pc' \in [Requests -> PCs] /\ answer' \in [Requests -> Answers]
        /\ pc'[r] \in {"answer", "done"} /\ \A s \in Requests \ {r} : pc'[s] = pc[s]
    BY <1>0 DEF TypeOK, PCs, Answers
  <2> QED
    BY <1>0, <2>1, <2>2, <2>3 DEF TypeOK, ActsOnMaster
<1>3. FinishedHasMaster' /\ SelectedMasterResponded'
  BY <1>0 DEF FinishedHasMaster, SelectedMasterResponded
<1>4. AnswerHoldsChat'
  BY <1>0, <1>1 DEF AnswerHoldsChat, ChecksLast, TypeOK
<1>5. KindOfStep' /\ ChecksLast' /\ ChatInHand' /\ ChatsResponded'
  BY <1>0, <1>1
     DEF KindOfStep, ChecksLast, ChatInHand, ChatsResponded, ResponseFound, MayComplete,
         TypeOK
<1>6. CreditsCounted'
  BY <1>0, CountKept DEF CreditsCounted, TypeOK
<1>9. ChosenBySomeone'
  BY <1>0, ChoosersStay DEF PastUpdate, TypeOK
<1> QED
  BY <1>2, <1>3, <1>4, <1>5, <1>6, <1>9

\* A request that answers, fails or is cut off keeps what it has written.
LEMMA EndIInv ==
    ASSUME IInv, UNCHANGED <<status, selected, responded, name, chats, jobs, op,
                             target, given, completed>>,
           pc' \in [Requests -> PCs], answer' \in [Requests -> Answers],
           \A r \in Requests :
              \/ pc'[r] = pc[r] /\ answer'[r] = answer[r]
              \/ /\ pc'[r] = "done" /\ answer'[r] \in {"ok", "error", "lost"}
                 /\ answer'[r] = "ok" => pc[r] = "answer"
              \/ pc[r] = "credit" /\ pc'[r] = "answer" /\ answer'[r] = answer[r]
              \/ pc[r] = "lookup" /\ pc'[r] = "insert" /\ answer'[r] = answer[r]
    PROVE  IInv'
<1> USE OrdersAssumption DEF IInv
<1>1. TypeOK'
  BY DEF TypeOK, ActsOnMaster
<1>2. FinishedHasMaster' /\ SelectedMasterResponded'
  BY DEF FinishedHasMaster, SelectedMasterResponded
<1>3. AnswerHoldsChat'
  BY DEF AnswerHoldsChat, ChatInHand, ChatsResponded, ChecksLast, TypeOK
<1>4. KindOfStep' /\ ChecksLast' /\ ChatInHand' /\ ChatsResponded'
  BY DEF KindOfStep, ChecksLast, ChatInHand, ChatsResponded, ResponseFound, MayComplete, TypeOK
<1>5. CreditsCounted'
  BY CountKept DEF CreditsCounted, TypeOK
<1>9. ChosenBySomeone'
  BY ChoosersStay DEF PastUpdate, ChecksLast, TypeOK
<1> QED
  BY <1>1, <1>2, <1>3, <1>4, <1>5, <1>9

\* The last read succeeds and the request answers.
LEMMA AnswerIInv ==
    ASSUME IInv, NEW r \in Requests, Answer(r)
    PROVE  IInv'
BY EndIInv DEF Answer, Finish, IInv, TypeOK, PCs, Answers

\* A statement fails.
LEMMA FailIInv ==
    ASSUME IInv, NEW r \in Requests, Fail(r)
    PROVE  IInv'
<1>1. /\ UNCHANGED <<status, selected, responded, name, chats, jobs, op, target,
                     given, completed>>
      /\ \/ /\ pc[r] = "credit" /\ pc' = [pc EXCEPT ![r] = "answer"]
            /\ UNCHANGED answer
         \/ /\ pc[r] = "lookup" /\ pc' = [pc EXCEPT ![r] = "insert"]
            /\ UNCHANGED answer
         \/ /\ pc' = [pc EXCEPT ![r] = "done"]
            /\ answer' = [answer EXCEPT ![r] = "error"]
  BY DEF Fail, Goto, Finish
<1> QED
  BY <1>1, EndIInv DEF IInv, TypeOK, PCs, Answers

\* The server stops.
LEMMA CrashIInv ==
    ASSUME IInv, Crash
    PROVE  IInv'
BY EndIInv DEF Crash, IInv, TypeOK, PCs, Answers

\* Every step keeps the invariant.
LEMMA NextIInv == IInv /\ [Next]_vars => IInv'
<1> SUFFICES ASSUME IInv, [Next]_vars
             PROVE  IInv'
  OBVIOUS
<1>1. CASE UNCHANGED vars
  BY <1>1, EndIInv DEF vars, requestVars, IInv, TypeOK
<1>2. CASE Next
  BY <1>2, CreateOrderIInv, RespondIInv, RenameIInv, SendIInv, ReadIInv, UpdateIInv,
     CreditIInv, LookupIInv, InsertChatIInv, AnswerIInv, FailIInv, CrashIInv
     DEF Next, Step
<1> QED
  BY <1>1, <1>2
-----------------------------------------------------------------------------
(* Results.                                                                *)

\* The strengthened invariant holds in every reachable state.
THEOREM Inductive == Spec => []IInv
BY InitIInv, NextIInv, PTL DEF Spec

\* Types; selections and completions under way act on a real master.
THEOREM TypeCorrect == Spec => []TypeOK
BY Inductive, PTL DEF IInv

\* No order is completed without a master, under any interleaving, failed
\* statement or crash (updateOrderStatus, orders.go).
THEOREM CompletedHasMaster == Spec => []FinishedHasMaster
BY Inductive, PTL DEF IInv

\* Only masters who responded are ever selected (selectMasterForOrder).
THEOREM SelectedResponded == Spec => []SelectedMasterResponded
BY Inductive, PTL DEF IInv

\* A selected master lacks a chat only for a cause that the client was told of,
\* or that took another responder's chat for the master's (selectMasterForOrder,
\* ensureChat).
THEOREM MissingChatsExplained == Spec => []ChatMissingHasCause
<1>1. IInv => ChatMissingHasCause
  <2> SUFFICES ASSUME IInv, NEW i \in Ids,
                      selected[i] # NoMaster, <<i, selected[i]>> \notin chats
               PROVE  /\ \E r \in Requests :
                            /\ Chose(r, i)
                            /\ \/ pc[r] \in {"lookup", "insert"}
                               \/ answer[r] \in {"error", "lost"}
                               \/ OthersChat(r)
                      /\ \A r \in Requests : Chose(r, i) /\ answer[r] = "ok" => OthersChat(r)
    BY DEF ChatMissingHasCause
  <2>1. ASSUME NEW r \in Requests, Chose(r, i), <<i, given[r]>> \in chats
        PROVE  OthersChat(r)
    <3>1. given[r] \in Masters
      BY <2>1 DEF IInv, TypeOK
    <3> QED
      BY <2>1, <3>1 DEF IInv, ChatsResponded, Chose, OthersChat
  <2>2. \A r \in Requests : Chose(r, i) /\ answer[r] = "ok" => OthersChat(r)
    BY <2>1 DEF Chose, IInv, AnswerHoldsChat
  <2>3. PICK r \in Requests : Chose(r, i) /\ PastUpdate(r)
    BY DEF IInv, ChosenBySomeone
  <2>4. \/ pc[r] \in {"lookup", "insert"}
        \/ answer[r] \in {"error", "lost"}
        \/ OthersChat(r)
    BY <2>1, <2>2, <2>3 DEF PastUpdate, Chose, IInv, ChatInHand
  <2> QED
    BY <2>2, <2>3, <2>4
<1> QED
  BY <1>1, Inductive, PTL

\* The completed_jobs counters never run ahead of the completions.
THEOREM JobsAreEarned == Spec => []JobsEarned
<1>1. IInv => JobsEarned
  <2> SUFFICES ASSUME IInv, NEW m \in Masters
               PROVE  jobs[m] <= Cardinality({r \in completed : target[r] = m})
    BY DEF JobsEarned
  <2> DEFINE Earned == {r \in completed : target[r] = m}
  <2>1. PastCredit(m) \subseteq Earned
    BY DEF PastCredit
  <2>2. IsFiniteSet(Earned)
    BY OrdersAssumption, FS_Subset DEF IInv, TypeOK
  <2>3. /\ Cardinality(PastCredit(m)) <= Cardinality(Earned)
        /\ Cardinality(PastCredit(m)) \in Nat /\ Cardinality(Earned) \in Nat
    BY <2>1, <2>2, FS_Subset, FS_CardinalityType
  <2> QED
    BY <2>3 DEF IInv, CreditsCounted, TypeOK
<1> QED
  BY <1>1, Inductive, PTL
=============================================================================
