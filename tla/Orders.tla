------------------------------- MODULE Orders -------------------------------
(***************************************************************************)
(* The life of an order: it is created (orders.go, createOrder), masters   *)
(* respond to it, its customer selects a master, which opens a chat        *)
(* (selectMasterForOrder, ensureChat in chats.go), and completes or        *)
(* cancels it (orderStatusHandler, updateOrderStatus).  Master listings    *)
(* start with a blank name and are renamed by their owners (masters.go).   *)
(*                                                                         *)
(* The select and status requests run statement by statement outside any   *)
(* transaction: each statement may interleave with other requests, fail,   *)
(* or be the last one before a crash.  The customer is the order's owner.  *)
(***************************************************************************)
EXTENDS Integers, FiniteSets

CONSTANTS Ids,        \* order ids
          Masters,    \* rows of the masters directory
          Linked,     \* those with a profile
          Names,      \* non-empty listing names
          Blank,      \* the name of a listing not filled in yet
          NoMaster,   \* selected_master_id IS NULL
          Requests    \* select-master and status requests

ASSUME OrdersAssumption ==
    /\ Linked \subseteq Masters
    /\ NoMaster \notin Masters
    /\ Blank \notin Names
    /\ IsFiniteSet(Requests)

VARIABLES status,     \* orders.status, "none" before the INSERT
          selected,   \* orders.selected_master_id
          responded,  \* masters with a row in responses, per order
          name,       \* masters.name
          chats,      \* rows of chats, UNIQUE(order_id, master_id)
          jobs,       \* profiles.completed_jobs gained, per master
          pc,         \* the next statement of each request
          op,         \* what it was asked: kind and order
          target,     \* the master it acts on: selected, or read from the order
          given,      \* the master of the chat it returned
          answer,     \* what the client was told
          completed   \* history: requests that set the order completed

requestVars == <<pc, op, target, given, answer>>
vars == <<status, selected, responded, name, chats, jobs, requestVars, completed>>

Kinds == {"select", "complete", "cancel"}
Final == {"completed", "cancelled"}
-----------------------------------------------------------------------------
(* Decisions.                                                              *)

AnyCompletion(r) == TRUE
MayComplete(r) == selected[op[r].id] # NoMaster

MayCancel(r) == status[op[r].id] \notin Final

AnyResponse(r) == TRUE
ResponseFound(r) == target[r] \in responded[op[r].id]

\* chatByOrderAndMaster compares names and skips blank ones.
MatchingChatsOfAnyOrder(r) ==
    {m \in Masters : /\ \E i \in Ids : <<i, m>> \in chats
                     /\ name[m] # Blank
                     /\ name[m] = name[target[r]]}
MatchingChats(r) ==
    {m \in Masters : /\ <<op[r].id, m>> \in chats
                     /\ name[m] # Blank
                     /\ name[m] = name[target[r]]}

\* Only a completion credits the master.
CreditsAny(r) == op[r].kind # "select"
Credits(r) == op[r].kind = "complete"

Finish(r, outcome) ==
    /\ pc' = [pc EXCEPT ![r] = "done"]
    /\ answer' = [answer EXCEPT ![r] = outcome]

Goto(r, next) == pc' = [pc EXCEPT ![r] = next] /\ UNCHANGED answer
-----------------------------------------------------------------------------
Init ==
    /\ status = [i \in Ids |-> "none"]
    /\ selected = [i \in Ids |-> NoMaster]
    /\ responded = [i \in Ids |-> {}]
    /\ name = [m \in Masters |-> Blank]
    /\ chats = {}
    /\ jobs = [m \in Masters |-> 0]
    /\ pc = [r \in Requests |-> "idle"]
    /\ op \in [Requests -> [kind : Kinds, id : Ids]]
    /\ target = [r \in Requests |-> NoMaster]
    /\ given = [r \in Requests |-> NoMaster]
    /\ answer = [r \in Requests |-> "none"]
    /\ completed = {}

\* POST /api/orders, with the fields validated.
CreateOrder(i) ==
    /\ status[i] = "none"
    /\ status' = [status EXCEPT ![i] = "active"]
    /\ UNCHANGED <<selected, responded, name, chats, jobs, requestVars, completed>>

\* The transaction of createResponse, seen from the order: it asks only that
\* the order exists.
Respond(i, m) ==
    /\ status[i] # "none"
    /\ m \notin responded[i]
    /\ responded' = [responded EXCEPT ![i] = @ \cup {m}]
    /\ UNCHANGED <<status, selected, name, chats, jobs, requestVars, completed>>

\* PATCH /api/masters/me; a name is never blanked again.
Rename(m) ==
    /\ \E n \in Names \ {name[m]} : name' = [name EXCEPT ![m] = n]
    /\ UNCHANGED <<status, selected, responded, chats, jobs, requestVars, completed>>

\* The client sends the request; a selection names a master's response.
Send(r) ==
    /\ pc[r] = "idle"
    /\ IF op[r].kind = "select"
       THEN \E m \in Masters : target' = [target EXCEPT ![r] = m]
       ELSE UNCHANGED target
    /\ Goto(r, "read")
    /\ UNCHANGED <<status, selected, responded, name, chats, jobs, op, given, completed>>

\* The order is read and judged by what was read.
Read(r) ==
    /\ pc[r] = "read"
    /\ IF \/ status[op[r].id] = "none"
          \/ op[r].kind = "complete" /\ ~MayComplete(r)
          \/ op[r].kind = "cancel" /\ ~MayCancel(r)
          \/ op[r].kind = "select" /\ ~ResponseFound(r)
       THEN Finish(r, "rejected")
       ELSE Goto(r, "update")
    /\ target' = IF op[r].kind = "select" THEN target
                 ELSE [target EXCEPT ![r] = selected[op[r].id]]
    /\ UNCHANGED <<status, selected, responded, name, chats, jobs, op, given, completed>>

\* UPDATE orders, by id only.
Update(r) ==
    LET i == op[r].id
    IN  /\ pc[r] = "update"
        /\ CASE op[r].kind = "select" ->
                  /\ status' = [status EXCEPT ![i] = "selected"]
                  /\ selected' = [selected EXCEPT ![i] = target[r]]
                  /\ Goto(r, "lookup")
                  /\ UNCHANGED completed
             [] op[r].kind = "complete" ->
                  /\ status' = [status EXCEPT ![i] = "completed"]
                  /\ completed' = completed \cup {r}
                  /\ Goto(r, "credit")
                  /\ UNCHANGED selected
             [] op[r].kind = "cancel" ->
                  /\ status' = [status EXCEPT ![i] = "cancelled"]
                  /\ Goto(r, "credit")
                  /\ UNCHANGED <<selected, completed>>
        /\ UNCHANGED <<responded, name, chats, jobs, op, target, given>>

\* completed_jobs of the master read with the order, if it has a profile.
Credit(r) ==
    /\ pc[r] = "credit"
    /\ jobs' = IF Credits(r) /\ target[r] \in Linked
               THEN [jobs EXCEPT ![target[r]] = @ + 1] ELSE jobs
    /\ Goto(r, "answer")
    /\ UNCHANGED <<status, selected, responded, name, chats, op, target, given, completed>>

\* ensureChat: a chat of this order under the master's name is taken.
Lookup(r) ==
    /\ pc[r] = "lookup"
    /\ IF MatchingChats(r) # {}
       THEN /\ \E m \in MatchingChats(r) : given' = [given EXCEPT ![r] = m]
            /\ Goto(r, "answer")
       ELSE Goto(r, "insert") /\ UNCHANGED given
    /\ UNCHANGED <<status, selected, responded, name, chats, jobs, op, target, completed>>

\* The INSERT meets the unique index if the pair already has a chat.
InsertChat(r) ==
    LET chat == <<op[r].id, target[r]>>
    IN  /\ pc[r] = "insert"
        /\ IF chat \in chats
           THEN Finish(r, "error") /\ UNCHANGED <<chats, given>>
           ELSE /\ chats' = chats \cup {chat}
                /\ given' = [given EXCEPT ![r] = target[r]]
                /\ Goto(r, "answer")
        /\ UNCHANGED <<status, selected, responded, name, jobs, op, target, completed>>

Answer(r) ==
    /\ pc[r] = "answer"
    /\ Finish(r, "ok")
    /\ UNCHANGED <<status, selected, responded, name, chats, jobs, op, target, given,
                   completed>>

\* A statement fails.  A failed credit is ignored and a failed listing counts
\* as "no chat"; elsewhere the request ends with what it has done so far.
Fail(r) ==
    /\ CASE pc[r] = "credit" -> Goto(r, "answer")
         [] pc[r] = "lookup" -> Goto(r, "insert")
         [] pc[r] \in {"read", "update", "insert", "answer"} -> Finish(r, "error")
         [] OTHER -> FALSE
    /\ UNCHANGED <<status, selected, responded, name, chats, jobs, op, target, given,
                   completed>>

\* The server stops between two statements.
Crash ==
    /\ \E r \in Requests : pc[r] \notin {"idle", "done"}
    /\ pc' = [r \in Requests |-> IF pc[r] = "idle" THEN "idle" ELSE "done"]
    /\ answer' = [r \in Requests |->
                    IF pc[r] \in {"idle", "done"} THEN answer[r] ELSE "lost"]
    /\ UNCHANGED <<status, selected, responded, name, chats, jobs, op, target, given,
                   completed>>

Step(r) ==
    \/ Send(r) \/ Read(r) \/ Update(r) \/ Credit(r) \/ Lookup(r) \/ InsertChat(r)
    \/ Answer(r) \/ Fail(r)

Next ==
    \/ \E i \in Ids : CreateOrder(i) \/ \E m \in Masters : Respond(i, m)
    \/ \E m \in Masters : Rename(m)
    \/ \E r \in Requests : Step(r)
    \/ Crash

Spec == Init /\ [][Next]_vars
-----------------------------------------------------------------------------
(* Correctness.                                                            *)

Statuses == {"none", "active", "selected"} \cup Final
PCs == {"idle", "read", "update", "credit", "lookup", "insert", "answer", "done"}
Answers == {"none", "ok", "rejected", "error", "lost"}

\* What is left to do for a selection, or for a completion past its check.
ActsOnMaster(r) ==
    \/ pc[r] \in {"lookup", "insert"}
    \/ pc[r] \in {"update", "credit"} /\ op[r].kind # "cancel"

\* Types; a selection or a completion under way acts on a real master.
TypeOK ==
    /\ status \in [Ids -> Statuses]
    /\ selected \in [Ids -> Masters \cup {NoMaster}]
    /\ responded \in [Ids -> SUBSET Masters]
    /\ name \in [Masters -> Names \cup {Blank}]
    /\ chats \subseteq Ids \X Masters
    /\ jobs \in [Masters -> Nat]
    /\ pc \in [Requests -> PCs]
    /\ op \in [Requests -> [kind : Kinds, id : Ids]]
    /\ target \in [Requests -> Masters \cup {NoMaster}]
    /\ given \in [Requests -> Masters \cup {NoMaster}]
    /\ answer \in [Requests -> Answers]
    /\ completed \subseteq Requests
    /\ \A r \in Requests : ActsOnMaster(r) => target[r] \in Masters

\* An order is never completed without a master, however the read of the
\* completion interleaves with selections ("you can't complete a job with no
\* one assigned").
FinishedHasMaster ==
    \A i \in Ids : status[i] \in {"selected", "completed"} => selected[i] # NoMaster

\* The selected master is one who responded to the order, however selections
\* interleave between the check of the response and the UPDATE.
SelectedMasterResponded ==
    \A i \in Ids : selected[i] # NoMaster => selected[i] \in responded[i]

\* A master's counter never exceeds the completions of orders that had this
\* master selected when the completion read them.
JobsEarned ==
    \A m \in Masters :
        jobs[m] <= Cardinality({r \in completed : target[r] = m})

\* A selection of the order's present master.
Chose(r, i) == op[r].kind = "select" /\ op[r].id = i /\ target[r] = selected[i]

\* It was given the order's chat with somebody else who responded.
OthersChat(r) ==
    /\ given[r] # target[r]
    /\ <<op[r].id, given[r]>> \in chats /\ given[r] \in responded[op[r].id]

\* An order that lacks a chat with its selected master has a selection of that
\* master to show for it, one that is still at it, failed, was lost or took the
\* chat of another responder for the master's; and of those that were answered
\* "ok" every one did the latter.  No race, rename or repetition loses a chat in
\* any other way, and no chat of another order is ever taken.
ChatMissingHasCause ==
    \A i \in Ids : selected[i] # NoMaster /\ <<i, selected[i]>> \notin chats =>
        /\ \E r \in Requests : /\ Chose(r, i)
                              /\ \/ pc[r] \in {"lookup", "insert"}
                                 \/ answer[r] \in {"error", "lost"}
                                 \/ OthersChat(r)
        /\ \A r \in Requests : Chose(r, i) /\ answer[r] = "ok" => OthersChat(r)
-----------------------------------------------------------------------------
(* What the documents and the client say of the program.                   *)

\* There is one chat per order and master ("a chat per pair (order, master)",
\* docs/FUNCTIONALITY_AUDIT.md): a selection returns the chat of its own pair.
SelectionReturnsOwnChat ==
    \A r \in Requests :
        answer[r] = "ok" /\ op[r].kind = "select" => given[r] = target[r]

\* A completed or cancelled order stays what it is.
FinalIsFinal ==
    [][\A i \in Ids : status[i] \in Final => status'[i] = status[i]]_vars
=============================================================================
