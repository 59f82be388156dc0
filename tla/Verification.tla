----------------------------- MODULE Verification -----------------------------
(***************************************************************************)
(* Verification of masters (verification.go).  A master uploads documents; *)
(* an upload inserts the document and then takes the verified flag away in *)
(* a second statement.  The approval, which masters give themselves for    *)
(* now, sets the flag and then approves every document, again as two       *)
(* statements.  No transaction holds either pair together.                 *)
(*                                                                         *)
(* Every request starts by reading the master's profile                    *)
(* (currentUserProfile), and ends by answering a status computed from the  *)
(* flag it read then and the documents it reads now.                       *)
(***************************************************************************)
EXTENDS FiniteSets

CONSTANTS Masters,   \* profiles of masters
          Requests   \* requests; an upload brings one document

Kinds == {"upload", "approve", "status"}

VARIABLES verified,    \* profiles.is_verified
          docs,        \* status of the document each upload inserted
          pc,          \* the next statement of each request
          op,          \* what it asks: kind and master
          seen,        \* the flag in the profile it holds
          answer,      \* what the client was told
          cut,         \* history: requests ended before their second write,
                       \* until another one makes up for it
          overlapped,  \* history: masters with an upload inside an approval or
                       \* the other way round
          disturbed    \* history: requests that ran while another one wrote to
                       \* the same master, or whose read of documents failed

tables == <<verified, docs>>
history == <<cut, overlapped, disturbed>>
vars == <<tables, pc, op, seen, answer, history>>

Master(r) == op[r].master
Documents(m) == {r \in Requests : docs[r] # "none" /\ Master(r) = m}
Running(r) == pc[r] \notin {"idle", "done"}

Goto(r, next) == pc' = [pc EXCEPT ![r] = next] /\ UNCHANGED answer

Finish(r, outcome) ==
    /\ pc' = [pc EXCEPT ![r] = "done"]
    /\ answer' = [answer EXCEPT ![r] = outcome]

\* A write of r to its master disturbs the others at work on it.
Disturb(r) ==
    disturbed' = disturbed \cup {o \in Requests \ {r} : Running(o) /\ Master(o) = Master(r)}

\* What earlier requests left half done no longer matters.
MakeUp(r) == cut' = {o \in cut : Master(o) # Master(r)}

\* Another request of the master is between its two writes.
Between(r, where) == \E o \in Requests : pc[o] = where /\ Master(o) = Master(r)
-----------------------------------------------------------------------------
Init ==
    /\ verified = [m \in Masters |-> FALSE]
    /\ docs = [r \in Requests |-> "none"]
    /\ pc = [r \in Requests |-> "idle"]
    /\ op \in [Requests -> [kind : Kinds, master : Masters]]
    /\ seen = [r \in Requests |-> FALSE]
    /\ answer = [r \in Requests |-> "none"]
    /\ cut = {} /\ overlapped = {} /\ disturbed = {}

Send(r) ==
    /\ pc[r] = "idle"
    /\ Goto(r, "profile")
    /\ UNCHANGED <<tables, op, seen, history>>

\* verificationMasterProfile, then the handler's method.
AfterProfileAnyMethod(r) == IF op[r].kind = "approve" THEN "verify" ELSE "insert"
AfterProfile(r) ==
    CASE op[r].kind = "upload" -> "insert"
      [] op[r].kind = "approve" -> "verify"
      [] op[r].kind = "status" -> "status"

ReadProfile(r) ==
    /\ pc[r] = "profile"
    /\ seen' = [seen EXCEPT ![r] = verified[Master(r)]]
    /\ Goto(r, AfterProfile(r))
    /\ UNCHANGED <<tables, op, history>>

\* A customer, a bad body, a blank type or address.
Reject(r) ==
    /\ pc[r] \in {"profile", "insert"}
    /\ Finish(r, "rejected")
    /\ UNCHANGED <<tables, op, seen, history>>
-----------------------------------------------------------------------------
(* uploadVerificationDocument.                                             *)

InsertDocument(r) ==
    /\ pc[r] = "insert"
    /\ docs' = [docs EXCEPT ![r] = "pending"]
    /\ overlapped' = IF Between(r, "approve") THEN overlapped \cup {Master(r)} ELSE overlapped
    /\ Disturb(r)
    /\ Goto(r, "reset")
    /\ UNCHANGED <<verified, op, seen, cut>>

ResetFlag(r) ==
    /\ pc[r] = "reset"
    /\ verified' = [verified EXCEPT ![Master(r)] = FALSE]
    /\ MakeUp(r)
    /\ Disturb(r)
    /\ Goto(r, "read")
    /\ UNCHANGED <<docs, op, seen, overlapped>>

\* verificationDocumentByID finds the document just inserted.
ReadBack(r) ==
    /\ pc[r] = "read"
    /\ Goto(r, "status")
    /\ UNCHANGED <<tables, op, seen, history>>
-----------------------------------------------------------------------------
(* verifyMaster.                                                           *)

SetFlag(r) ==
    /\ pc[r] = "verify"
    /\ verified' = [verified EXCEPT ![Master(r)] = TRUE]
    /\ overlapped' = IF Between(r, "reset") THEN overlapped \cup {Master(r)} ELSE overlapped
    /\ Disturb(r)
    /\ Goto(r, "approve")
    /\ UNCHANGED <<docs, op, seen, cut>>

\* The documents the UPDATE reaches, and the flag of the profile in hand.
ApprovedEveryone(r) == {o \in Requests : docs[o] # "none"}
Approved(r) == Documents(Master(r))

FlagInHandUnchanged(r) == seen[r]
FlagInHand(r) == TRUE

ApproveDocuments(r) ==
    /\ pc[r] = "approve"
    /\ docs' = [o \in Requests |-> IF o \in Approved(r) THEN "approved" ELSE docs[o]]
    /\ seen' = [seen EXCEPT ![r] = FlagInHand(r)]
    /\ MakeUp(r)
    /\ Disturb(r)
    /\ Goto(r, "status")
    /\ UNCHANGED <<verified, op, overlapped>>
-----------------------------------------------------------------------------
\* verificationStatus
Status(flag, documents) ==
    IF flag THEN "verified"
    ELSE IF documents # {} THEN "pending_verification" ELSE "new"

AnswerStatus(r) ==
    /\ pc[r] = "status"
    /\ Finish(r, Status(seen[r], Documents(Master(r))))
    /\ UNCHANGED <<tables, op, seen, history>>

\* An error of the documents' query counts as "no documents" ...
AnswerWithoutDocuments(r) ==
    /\ pc[r] = "status"
    /\ Finish(r, Status(seen[r], {}))
    /\ disturbed' = disturbed \cup {r}
    /\ UNCHANGED <<tables, op, seen, cut, overlapped>>

\* ... and any other failed statement ends the request.
SecondWrite == {"reset", "approve"}

Fail(r) ==
    /\ pc[r] \in {"profile", "insert", "read", "verify"} \cup SecondWrite
    /\ cut' = IF pc[r] \in SecondWrite THEN cut \cup {r} ELSE cut
    /\ Finish(r, "error")
    /\ UNCHANGED <<tables, op, seen, overlapped, disturbed>>

\* The server stops.
Crash ==
    /\ \E r \in Requests : Running(r)
    /\ pc' = [r \in Requests |-> IF Running(r) THEN "done" ELSE pc[r]]
    /\ answer' = [r \in Requests |-> IF Running(r) THEN "lost" ELSE answer[r]]
    /\ cut' = cut \cup {r \in Requests : pc[r] \in SecondWrite}
    /\ UNCHANGED <<tables, op, seen, overlapped, disturbed>>
-----------------------------------------------------------------------------
Step(r) ==
    \/ Send(r) \/ ReadProfile(r) \/ Reject(r)
    \/ InsertDocument(r) \/ ResetFlag(r) \/ ReadBack(r)
    \/ SetFlag(r) \/ ApproveDocuments(r)
    \/ AnswerStatus(r) \/ AnswerWithoutDocuments(r) \/ Fail(r)

Next == Crash \/ \E r \in Requests : Step(r)

Spec == Init /\ [][Next]_vars
-----------------------------------------------------------------------------
(* Properties.                                                             *)

PCs == {"idle", "profile", "insert", "reset", "read", "verify", "approve", "status", "done"}
Statuses == {"new", "pending_verification", "verified"}

\* Types; only uploads insert documents, and each writes what its kind writes.
TypeOK ==
    /\ verified \in [Masters -> BOOLEAN]
    /\ docs \in [Requests -> {"none", "pending", "approved"}]
    /\ pc \in [Requests -> PCs]
    /\ op \in [Requests -> [kind : Kinds, master : Masters]]
    /\ seen \in [Requests -> BOOLEAN]
    /\ answer \in [Requests -> Statuses \cup {"none", "rejected", "error", "lost"}]
    /\ cut \subseteq Requests
    /\ overlapped \subseteq Masters
    /\ disturbed \subseteq Requests
    /\ \A r \in Requests :
           /\ docs[r] # "none" => op[r].kind = "upload" /\ pc[r] \notin {"idle", "profile", "insert"}
           /\ pc[r] \in {"insert", "reset", "read"} => op[r].kind = "upload"
           /\ pc[r] \in {"verify", "approve"} => op[r].kind = "approve"
           /\ pc[r] \in {"reset", "read"} => docs[r] # "none"

\* A request of this kind will still do its second write, or was kept from it.
Owes(r, m, kind) ==
    Master(r) = m /\ op[r].kind = kind /\ (pc[r] \in SecondWrite \/ r \in cut)

\* A verified master has no document waiting for review, unless its upload has
\* yet to take the flag away, an approval has yet to approve, or one of them was
\* cut short and nothing has made up for it.
VerifiedCovers(m) ==
    verified[m] =>
        \A u \in Documents(m) :
            docs[u] = "approved" \/ Owes(u, m, "upload") \/ \E a \in Requests : Owes(a, m, "approve")

\* A master whose documents were all approved is verified, unless an upload and
\* an approval overlapped.
ApprovalLasts(m) ==
    Documents(m) # {} /\ ~verified[m] /\ m \notin overlapped =>
        \E u \in Documents(m) : docs[u] = "pending"

\* The flag customers see and the documents tell the same story, but for the
\* two statements' gap, which lasts for ever after a failure, a crash or an
\* overlap.
FlagMatchesDocuments == \A m \in Masters : VerifiedCovers(m) /\ ApprovalLasts(m)

\* The status as it is.
Truth(m) == Status(verified[m], Documents(m))

\* An undisturbed request is answering with a status.
AnswersUndisturbed(r) ==
    answer'[r] # answer[r] /\ answer'[r] \in Statuses /\ r \notin disturbed'

\* A request that nobody disturbed answers the master's status as it is, what it
\* has written itself included.  Nothing is promised of uploads that found the
\* flag set: they take it away and answer by the flag they found.
AnswersTrue ==
    [][\A r \in Requests :
          AnswersUndisturbed(r) /\ ~(op[r].kind = "upload" /\ seen[r])
          => answer'[r] = Truth(Master(r))]_vars
=============================================================================
