-------------------------- MODULE VerificationProofs --------------------------
(***************************************************************************)
(* What holds of uploads and approvals for any masters and any requests.   *)
(*                                                                         *)
(* FlagMatchesDocuments is not inductive: that nothing overlapped must say *)
(* what a request between its writes may rely on (NoOverlap), and for the  *)
(* answers what an undisturbed request knows (HandIsTrue).                 *)
(***************************************************************************)
EXTENDS Verification, TLAPS

\* Where no upload and approval overlapped, none are between their writes
\* together; an approval finds the flag it set, an upload its document.
NoOverlap ==
    \A r \in Requests : Master(r) \notin overlapped =>
        /\ pc[r] = "reset" => docs[r] = "pending" /\ ~Between(r, "approve")
        /\ pc[r] = "approve" => verified[Master(r)]

\* What a request holds is the truth while nobody disturbs it.
HandIsTrue ==
    \A r \in Requests \ disturbed :
        /\ pc[r] = "approve" => verified[Master(r)]
        /\ pc[r] = "status" /\ op[r].kind # "upload" => seen[r] = verified[Master(r)]
        /\ pc[r] \in {"read", "status"} /\ op[r].kind = "upload" =>
               ~verified[Master(r)] /\ docs[r] # "none"

IInv == TypeOK /\ FlagMatchesDocuments /\ NoOverlap /\ HandIsTrue

\* A master without documents, and nobody at work.
LEMMA InitIInv == Init => IInv
<1> SUFFICES ASSUME Init PROVE IInv
  OBVIOUS
<1>1. TypeOK
  BY DEF Init, TypeOK, PCs, Kinds
<1>2. FlagMatchesDocuments
  BY DEF Init, FlagMatchesDocuments, VerifiedCovers, ApprovalLasts, Documents
<1>3. NoOverlap /\ HandIsTrue
  BY DEF Init, NoOverlap, HandIsTrue
<1> QED
  BY <1>1, <1>2, <1>3 DEF IInv

\* A request that writes nothing and is not between its writes moves on.
LEMMA ReadingIInv ==
    ASSUME IInv, NEW r \in Requests,
           UNCHANGED <<tables, op, cut, overlapped>>,
           disturbed \subseteq disturbed', disturbed' \subseteq Requests,
           NEW next \in PCs \ SecondWrite, pc' = [pc EXCEPT ![r] = next],
           pc[r] \notin SecondWrite,
           TypeOK', HandIsTrue'
    PROVE  IInv'
<1> USE DEF tables, SecondWrite
<1>1. \A q \in Requests : pc'[q] \in SecondWrite <=> pc[q] \in SecondWrite /\ pc'[q] = pc[q]
  BY DEF IInv, TypeOK
<1>2. \A m \in Masters : Documents(m)' = Documents(m)
  BY DEF Documents, Master
<1>3. \A m \in Masters : VerifiedCovers(m)' /\ ApprovalLasts(m)'
  BY <1>1, <1>2 DEF IInv, TypeOK, FlagMatchesDocuments, VerifiedCovers, ApprovalLasts,
     Owes, Master
<1>4. NoOverlap'
  BY <1>1 DEF IInv, TypeOK, NoOverlap, Between, Master
<1> QED
  BY <1>3, <1>4 DEF IInv, FlagMatchesDocuments


LEMMA SendIInv ==
    ASSUME IInv, NEW r \in Requests, Send(r)
    PROVE  IInv'
<1>1. TypeOK'
  BY DEF IInv, TypeOK, PCs, Send, Goto, tables, history
<1>2. HandIsTrue'
  BY DEF IInv, TypeOK, HandIsTrue, Send, Goto, tables, history, Master
<1> QED
  BY <1>1, <1>2, ReadingIInv DEF Send, Goto, tables, history, IInv, TypeOK, PCs, SecondWrite

\* The profile is read; what follows depends on the kind.
LEMMA ReadProfileIInv ==
    ASSUME IInv, NEW r \in Requests, ReadProfile(r)
    PROVE  IInv'
<1>1. AfterProfile(r) \in {"insert", "verify", "status"}
  BY DEF IInv, TypeOK, Kinds, AfterProfile
<1>2. TypeOK'
  BY <1>1 DEF IInv, TypeOK, PCs, Kinds, ReadProfile, AfterProfile, Goto, tables, history, Master
<1>3. HandIsTrue'
  BY <1>1 DEF IInv, TypeOK, Kinds, HandIsTrue, ReadProfile, AfterProfile, Goto, tables,
     history, Master
<1> QED
  BY <1>1, <1>2, <1>3, ReadingIInv
     DEF ReadProfile, Goto, tables, history, IInv, TypeOK, PCs, SecondWrite

LEMMA RejectIInv ==
    ASSUME IInv, NEW r \in Requests, Reject(r)
    PROVE  IInv'
<1>1. TypeOK'
  BY DEF IInv, TypeOK, PCs, Reject, Finish, tables, history
<1>2. HandIsTrue'
  BY DEF IInv, TypeOK, HandIsTrue, Reject, Finish, tables, history, Master
<1> QED
  BY <1>1, <1>2, ReadingIInv
     DEF Reject, Finish, tables, history, IInv, TypeOK, PCs, SecondWrite

LEMMA ReadBackIInv ==
    ASSUME IInv, NEW r \in Requests, ReadBack(r)
    PROVE  IInv'
<1>1. TypeOK'
  BY DEF IInv, TypeOK, PCs, ReadBack, Goto, tables, history
<1>2. HandIsTrue'
  BY DEF IInv, TypeOK, HandIsTrue, ReadBack, Goto, tables, history, Master
<1> QED
  BY <1>1, <1>2, ReadingIInv
     DEF ReadBack, Goto, tables, history, IInv, TypeOK, PCs, SecondWrite

\* The status is answered, with the documents or without.
LEMMA AnswerIInv ==
    ASSUME IInv, NEW r \in Requests, AnswerStatus(r) \/ AnswerWithoutDocuments(r)
    PROVE  IInv'
<1>1. /\ UNCHANGED <<tables, op, seen, cut, overlapped>>
      /\ pc[r] = "status" /\ pc' = [pc EXCEPT ![r] = "done"]
      /\ \E a \in Statuses : answer' = [answer EXCEPT ![r] = a]
      /\ disturbed \subseteq disturbed' /\ disturbed' \subseteq Requests
  BY DEF AnswerStatus, AnswerWithoutDocuments, Finish, Status, Statuses, history, IInv, TypeOK
<1>2. TypeOK'
  BY <1>1 DEF IInv, TypeOK, PCs, tables
<1>3. HandIsTrue'
  BY <1>1 DEF IInv, TypeOK, HandIsTrue, tables, Master
<1> QED
  BY <1>1, <1>2, <1>3, ReadingIInv DEF IInv, TypeOK, PCs, SecondWrite

\* The document is there, and the flag not yet taken away: an approval between
\* its writes overlaps.
LEMMA InsertDocumentIInv ==
    ASSUME IInv, NEW r \in Requests, InsertDocument(r)
    PROVE  IInv'
<1> USE DEF InsertDocument, Goto, Disturb, Running
<1>1. TypeOK'
  BY DEF IInv, TypeOK, PCs, Kinds, Master
<1>2. \A m \in Masters : VerifiedCovers(m)'
  BY DEF IInv, TypeOK, FlagMatchesDocuments, VerifiedCovers, Owes, Master, Documents, SecondWrite
<1>3. \A m \in Masters : ApprovalLasts(m)'
  BY DEF IInv, TypeOK, FlagMatchesDocuments, ApprovalLasts, Master, Documents
<1>4. NoOverlap'
  BY DEF IInv, TypeOK, NoOverlap, Between, Master
<1>5. HandIsTrue'
  BY DEF IInv, TypeOK, HandIsTrue, Master
<1> QED
  BY <1>1, <1>2, <1>3, <1>4, <1>5 DEF IInv, FlagMatchesDocuments

\* The flag is taken away: nothing is owed any more, and without an overlap the
\* document is still pending.
LEMMA ResetFlagIInv ==
    ASSUME IInv, NEW r \in Requests, ResetFlag(r)
    PROVE  IInv'
<1> USE DEF ResetFlag, Goto, Disturb, Running, MakeUp
<1>1. TypeOK'
  BY DEF IInv, TypeOK, PCs, Master
<1>2. \A m \in Masters : VerifiedCovers(m)'
  <2> TAKE m \in Masters
  <2>1. CASE m = Master(r)
    BY <2>1 DEF IInv, TypeOK, VerifiedCovers, Master
  <2>2. CASE m # Master(r)
    BY <2>2 DEF IInv, TypeOK, FlagMatchesDocuments, VerifiedCovers, Owes, Master, Documents
  <2> QED
    BY <2>1, <2>2
<1>3. \A m \in Masters : ApprovalLasts(m)'
  BY DEF IInv, TypeOK, FlagMatchesDocuments, ApprovalLasts, NoOverlap, Master, Documents
<1>4. NoOverlap'
  BY DEF IInv, TypeOK, NoOverlap, Between, Master
<1>5. HandIsTrue'
  BY DEF IInv, TypeOK, HandIsTrue, Master
<1> QED
  BY <1>1, <1>2, <1>3, <1>4, <1>5 DEF IInv, FlagMatchesDocuments

\* The flag is set, and the approval owes the documents.
LEMMA SetFlagIInv ==
    ASSUME IInv, NEW r \in Requests, SetFlag(r)
    PROVE  IInv'
<1> USE DEF SetFlag, Goto, Disturb, Running
<1>1. TypeOK'
  BY DEF IInv, TypeOK, PCs, Kinds, Master
<1>2. \A m \in Masters : VerifiedCovers(m)'
  <2> TAKE m \in Masters
  <2>1. CASE m = Master(r)
    BY <2>1 DEF IInv, TypeOK, VerifiedCovers, Owes, Master, SecondWrite
  <2>2. CASE m # Master(r)
    BY <2>2 DEF IInv, TypeOK, FlagMatchesDocuments, VerifiedCovers, Owes, Master, Documents
  <2> QED
    BY <2>1, <2>2
<1>3. \A m \in Masters : ApprovalLasts(m)'
  BY DEF IInv, TypeOK, FlagMatchesDocuments, ApprovalLasts, Master, Documents
<1>4. NoOverlap'
  BY DEF IInv, TypeOK, NoOverlap, Between, Master
<1>5. HandIsTrue'
  BY DEF IInv, TypeOK, HandIsTrue, Master
<1> QED
  BY <1>1, <1>2, <1>3, <1>4, <1>5 DEF IInv, FlagMatchesDocuments

\* Every document is approved, under the flag if nothing overlapped.
LEMMA ApproveDocumentsIInv ==
    ASSUME IInv, NEW r \in Requests, ApproveDocuments(r)
    PROVE  IInv'
<1> USE DEF ApproveDocuments, Goto, Disturb, Running, MakeUp, Approved, FlagInHand
<1>1. TypeOK'
  BY DEF IInv, TypeOK, PCs, Master, Documents
<1>2. \A m \in Masters : VerifiedCovers(m)'
  <2> TAKE m \in Masters
  <2>1. CASE m = Master(r)
    BY <2>1 DEF IInv, TypeOK, VerifiedCovers, Documents, Master
  <2>2. CASE m # Master(r)
    BY <2>2 DEF IInv, TypeOK, FlagMatchesDocuments, VerifiedCovers, Owes, Master, Documents
  <2> QED
    BY <2>1, <2>2
<1>3. \A m \in Masters : ApprovalLasts(m)'
  <2> TAKE m \in Masters
  <2>1. CASE m = Master(r)
    BY <2>1 DEF IInv, TypeOK, ApprovalLasts, NoOverlap, Master
  <2>2. CASE m # Master(r)
    <3>1. Documents(m)' = Documents(m) /\ \A u \in Documents(m) : docs'[u] = docs[u]
      BY <2>2 DEF IInv, TypeOK, Documents, Master
    <3> QED
      BY <3>1 DEF IInv, FlagMatchesDocuments, ApprovalLasts
  <2> QED
    BY <2>1, <2>2
<1>4. NoOverlap'
  BY DEF IInv, TypeOK, NoOverlap, Between, Master, Documents
<1>5. HandIsTrue'
  BY DEF IInv, TypeOK, HandIsTrue, Master, Documents
<1> QED
  BY <1>1, <1>2, <1>3, <1>4, <1>5 DEF IInv, FlagMatchesDocuments

\* Requests end where they are; those between their writes leave something owed.
LEMMA EndIInv ==
    ASSUME IInv,
           UNCHANGED <<tables, op, seen, overlapped, disturbed>>,
           NEW Ended \in SUBSET Requests,
           \A r \in Ended : pc[r] # "idle",
           pc' = [r \in Requests |-> IF r \in Ended THEN "done" ELSE pc[r]],
           answer' \in [Requests -> Statuses \cup {"none", "rejected", "error", "lost"}],
           cut' = cut \cup {r \in Ended : pc[r] \in SecondWrite}
    PROVE  IInv'
<1> USE DEF tables
<1>1. TypeOK'
  BY DEF IInv, TypeOK, PCs
<1>2. \A m \in Masters : VerifiedCovers(m)' /\ ApprovalLasts(m)'
  BY DEF IInv, TypeOK, FlagMatchesDocuments, VerifiedCovers, ApprovalLasts, Owes, Master,
     Documents, SecondWrite
<1>3. NoOverlap' /\ HandIsTrue'
  BY DEF IInv, TypeOK, NoOverlap, HandIsTrue, Between, Master
<1> QED
  BY <1>1, <1>2, <1>3 DEF IInv, FlagMatchesDocuments

LEMMA FailIInv ==
    ASSUME IInv, NEW r \in Requests, Fail(r)
    PROVE  IInv'
<1> DEFINE Ended == {r}
<1>1. /\ pc' = [q \in Requests |-> IF q \in Ended THEN "done" ELSE pc[q]]
      /\ answer' \in [Requests -> Statuses \cup {"none", "rejected", "error", "lost"}]
      /\ cut' = cut \cup {q \in Ended : pc[q] \in SecondWrite}
      /\ \A q \in Ended : pc[q] # "idle"
  BY DEF Fail, Finish, SecondWrite, IInv, TypeOK
<1>2. Ended \in SUBSET Requests /\ UNCHANGED <<tables, op, seen, overlapped, disturbed>>
  BY DEF Fail
<1> HIDE DEF Ended
<1> QED
  BY <1>1, <1>2, EndIInv

LEMMA CrashIInv ==
    ASSUME IInv, Crash
    PROVE  IInv'
<1> DEFINE Ended == {r \in Requests : Running(r)}
<1>1. /\ pc' = [q \in Requests |-> IF q \in Ended THEN "done" ELSE pc[q]]
      /\ answer' \in [Requests -> Statuses \cup {"none", "rejected", "error", "lost"}]
      /\ cut' = cut \cup {q \in Ended : pc[q] \in SecondWrite}
      /\ \A q \in Ended : pc[q] # "idle"
  BY DEF Crash, Running, SecondWrite, IInv, TypeOK
<1> QED
  BY <1>1, EndIInv DEF Crash

LEMMA NextIInv == IInv /\ [Next]_vars => IInv'
<1> SUFFICES ASSUME IInv, [Next]_vars
             PROVE  IInv'
  OBVIOUS
<1>1. CASE UNCHANGED vars
  BY <1>1 DEF vars, tables, history, IInv, TypeOK, FlagMatchesDocuments, VerifiedCovers,
     ApprovalLasts, NoOverlap, HandIsTrue, Owes, Between, Master, Documents
<1>2. CASE Next
  BY <1>2, SendIInv, ReadProfileIInv, RejectIInv, InsertDocumentIInv, ResetFlagIInv,
     ReadBackIInv, SetFlagIInv, ApproveDocumentsIInv, AnswerIInv, FailIInv, CrashIInv
     DEF Next, Step
<1> QED
  BY <1>1, <1>2

\* Only answering the status tells a client one.
LEMMA WhoAnswers ==
    ASSUME IInv, [Next]_vars, NEW r \in Requests,
           answer'[r] # answer[r], answer'[r] \in Statuses
    PROVE  AnswerStatus(r) \/ AnswerWithoutDocuments(r)
<1>1. CASE UNCHANGED vars
  BY <1>1 DEF vars
<1>2. CASE Crash
  BY <1>2 DEF Crash, Statuses, IInv, TypeOK
<1>3. ASSUME NEW q \in Requests, Step(q)
      PROVE  AnswerStatus(r) \/ AnswerWithoutDocuments(r)
  BY <1>3 DEF Step, Send, ReadProfile, Reject, InsertDocument, ResetFlag, ReadBack, SetFlag,
     ApproveDocuments, AnswerStatus, AnswerWithoutDocuments, Fail, Goto, Finish, Statuses,
     IInv, TypeOK
<1> QED
  BY <1>1, <1>2, <1>3 DEF Next
-----------------------------------------------------------------------------
(* Results.                                                                *)

\* The strengthened invariant holds in every reachable state.
THEOREM Inductive == Spec => []IInv
BY InitIInv, NextIInv, PTL DEF Spec

\* Types; only uploads insert documents.
THEOREM TypeCorrect == Spec => []TypeOK
BY Inductive, PTL DEF IInv

\* The flag and the documents tell the same story but for an overlap or a
\* second statement that is still owed (uploadVerificationDocument,
\* verifyMaster).
THEOREM FlagIsRight == Spec => []FlagMatchesDocuments
BY Inductive, PTL DEF IInv

\* An undisturbed request answers the truth, but for an upload that found the
\* flag set (verificationStatus, verificationDocumentsHandler).
THEOREM UndisturbedAnswers == Spec => AnswersTrue
<1>1. ASSUME IInv, [Next]_vars
      PROVE  [\A r \in Requests :
                 AnswersUndisturbed(r) /\ ~(op[r].kind = "upload" /\ seen[r])
                 => answer'[r] = Truth(Master(r))]_vars
  <2> SUFFICES ASSUME NEW r \in Requests,
                      AnswersUndisturbed(r), ~(op[r].kind = "upload" /\ seen[r])
               PROVE  answer'[r] = Truth(Master(r))
    OBVIOUS
  <2>0. answer'[r] # answer[r] /\ answer'[r] \in Statuses /\ r \notin disturbed'
    BY DEF AnswersUndisturbed
  <2>1. AnswerStatus(r)
    BY <1>1, <2>0, WhoAnswers DEF AnswerWithoutDocuments, IInv, TypeOK
  <2>2. /\ answer'[r] = Status(seen[r], Documents(Master(r)))
        /\ pc[r] = "status" /\ r \notin disturbed
    BY <1>1, <2>0, <2>1 DEF AnswerStatus, Finish, history, IInv, TypeOK
  <2>3. CASE op[r].kind # "upload"
    BY <1>1, <2>2, <2>3 DEF IInv, TypeOK, HandIsTrue, Truth
  <2>4. CASE op[r].kind = "upload"
    <3>1. ~verified[Master(r)] /\ r \in Documents(Master(r))
      BY <1>1, <2>2, <2>4 DEF IInv, HandIsTrue, Documents
    <3> QED
      BY <1>1, <2>2, <2>4, <3>1 DEF IInv, TypeOK, Truth, Status
  <2> QED
    BY <2>3, <2>4
<1> QED
  BY <1>1, Inductive, PTL DEF Spec, AnswersTrue
=============================================================================
