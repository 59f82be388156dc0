-------------------------------- MODULE Media --------------------------------
(***************************************************************************)
(* Photos of orders (media_upload_handler.go, media_storage.go).  The      *)
(* files of an image are named by the hash of its content, so that an      *)
(* image that is there already is not stored again; the row that attaches  *)
(* a photo to its order is placed behind the photos found before.          *)
(*                                                                         *)
(* Files are written without a temporary name: os.WriteFile truncates,     *)
(* then writes, and whoever asks in between finds the file there.  Disk    *)
(* and database do not share a transaction.                                *)
(***************************************************************************)
EXTENDS Integers, Sequences, FiniteSets

CONSTANTS Orders, Images,
          Requests,   \* uploads
          Sizes,      \* files of an image: thumb, medium, full
          MaxFaults   \* bound: failed statements, failed writes, crashes

ASSUME MediaAssumption == Sizes \in Nat \ {0} /\ MaxFaults \in Nat

VARIABLES files,     \* the file of each image and size
          photos,    \* rows of order_photos, by id
          pc,        \* the next operation of each upload
          op,        \* what is uploaded: an image for an order
          size,      \* the file it is at
          position,  \* the sort_order it has read
          answer,    \* what the client was told
          before,    \* history: uploads answered "ok" before it was sent
          torn,      \* history: files left behind by a writer that did not end
          unread,    \* history: uploads whose read of the position failed
          faults     \* counter for the bound

request == <<pc, op, size, position, answer>>
history == <<before, torn, unread, faults>>
vars == <<files, photos, request, history>>

AllSizes == 1..Sizes
Ids == 1..Len(photos)
File(r) == <<op[r].image, size[r]>>
Files == Images \X AllSizes
Rows == [order : Orders, image : Images, position : Nat, upload : Requests]
Exists(f) == files[f] # "none"
Running(r) == pc[r] \notin {"idle", "done"}

Goto(r, next) == pc' = [pc EXCEPT ![r] = next] /\ UNCHANGED answer

Finish(r, outcome) ==
    /\ pc' = [pc EXCEPT ![r] = "done"]
    /\ answer' = [answer EXCEPT ![r] = outcome]
-----------------------------------------------------------------------------
Init ==
    /\ files = [f \in Files |-> "none"]
    /\ photos = <<>>
    /\ pc = [r \in Requests |-> "idle"]
    /\ op \in [Requests -> [order : Orders, image : Images]]
    /\ size = [r \in Requests |-> 1]
    /\ position = [r \in Requests |-> 0]
    /\ answer = [r \in Requests |-> "none"]
    /\ before = [r \in Requests |-> {}]
    /\ torn = {} /\ unread = {} /\ faults = 0

Send(r) ==
    /\ pc[r] = "idle"
    /\ before' = [before EXCEPT ![r] = {q \in Requests : answer[q] = "ok"}]
    /\ Goto(r, "check")
    /\ UNCHANGED <<files, photos, op, size, position, torn, unread, faults>>

\* Profile, order, owner, size and type of the upload.
Check(r) ==
    /\ pc[r] = "check"
    /\ Goto(r, "stat") \/ Finish(r, "rejected")
    /\ UNCHANGED <<files, photos, op, size, position, history>>
-----------------------------------------------------------------------------
(* storeOrderImage.                                                        *)

\* filesExist asks for one file after the other ...
AllStatedFirst(r) == TRUE
AllStated(r) == size[r] = Sizes

StatFound(r) ==
    /\ pc[r] = "stat"
    /\ Exists(File(r))
    /\ IF AllStated(r)
       THEN Goto(r, "decode") /\ UNCHANGED size
       ELSE size' = [size EXCEPT ![r] = @ + 1] /\ UNCHANGED <<pc, answer>>
    /\ UNCHANGED <<files, photos, op, position, history>>

\* ... and if one is missing all are written.
StatMissing(r) ==
    /\ pc[r] = "stat"
    /\ ~Exists(File(r))
    /\ size' = [size EXCEPT ![r] = 1]
    /\ Goto(r, "open")
    /\ UNCHANGED <<files, photos, op, position, history>>

\* An image that is there is only decoded, for its measures.
Decode(r) ==
    /\ pc[r] = "decode"
    /\ Goto(r, "position")
    /\ UNCHANGED <<files, photos, op, size, position, history>>

\* writeMediaFile: the file is created or truncated ...
OpenFile(r) ==
    /\ pc[r] = "open"
    /\ files' = [files EXCEPT ![File(r)] = "partial"]
    /\ Goto(r, "write")
    /\ UNCHANGED <<photos, op, size, position, history>>

\* ... and filled.
WriteFile(r) ==
    /\ pc[r] = "write"
    /\ files' = [files EXCEPT ![File(r)] = "whole"]
    /\ torn' = torn \ {File(r)}
    /\ IF size[r] = Sizes
       THEN Goto(r, "position") /\ UNCHANGED size
       ELSE Goto(r, "open") /\ size' = [size EXCEPT ![r] = @ + 1]
    /\ UNCHANGED <<photos, op, position, before, unread, faults>>
-----------------------------------------------------------------------------
(* attachOrderPhoto.                                                       *)

Positions(o) == {photos[i].position : i \in {j \in Ids : photos[j].order = o}}

\* COALESCE(MAX(sort_order), -1) + 1
Last(o, p) == \A x \in Positions(o) : x <= p

NextPositionLast(p) == p
NextPosition(p) == p + 1

ReadPosition(r) ==
    /\ pc[r] = "position"
    /\ \E p \in Positions(op[r].order) \cup {-1} :
           /\ Last(op[r].order, p)
           /\ position' = [position EXCEPT ![r] = NextPosition(p)]
    /\ Goto(r, "insert")
    /\ UNCHANGED <<files, photos, op, size, history>>

\* The error of that query is ignored and the position stays 0.
ReadPositionFails(r) ==
    /\ pc[r] = "position"
    /\ faults < MaxFaults
    /\ faults' = faults + 1
    /\ unread' = unread \cup {r}
    /\ Goto(r, "insert")
    /\ UNCHANGED <<files, photos, op, size, position, before, torn>>

InsertPhoto(r) ==
    /\ pc[r] = "insert"
    /\ photos' = Append(photos, [order |-> op[r].order, image |-> op[r].image,
                                 position |-> position[r], upload |-> r])
    /\ Goto(r, "list")
    /\ UNCHANGED <<files, op, size, position, history>>

\* The photo is found among those of its order.
Answer(r) ==
    /\ pc[r] = "list"
    /\ Finish(r, "ok")
    /\ UNCHANGED <<files, photos, op, size, position, history>>

\* Anything else fails: a written file is left as it is, an inserted row stays.
Fail(r) ==
    /\ pc[r] \in {"check", "decode", "open", "write", "insert", "list"}
    /\ faults < MaxFaults
    /\ faults' = faults + 1
    /\ torn' = IF pc[r] = "write" THEN torn \cup {File(r)} ELSE torn
    /\ Finish(r, "error")
    /\ UNCHANGED <<files, photos, op, size, position, before, unread>>

\* The server stops.
Crash ==
    /\ faults < MaxFaults
    /\ \E r \in Requests : Running(r)
    /\ faults' = faults + 1
    /\ torn' = torn \cup {File(r) : r \in {q \in Requests : pc[q] = "write"}}
    /\ pc' = [r \in Requests |-> IF Running(r) THEN "done" ELSE pc[r]]
    /\ answer' = [r \in Requests |-> IF Running(r) THEN "lost" ELSE answer[r]]
    /\ UNCHANGED <<files, photos, op, size, position, before, unread>>
-----------------------------------------------------------------------------
Step(r) ==
    \/ Send(r) \/ Check(r) \/ StatFound(r) \/ StatMissing(r) \/ Decode(r)
    \/ OpenFile(r) \/ WriteFile(r) \/ ReadPosition(r) \/ ReadPositionFails(r)
    \/ InsertPhoto(r) \/ Answer(r) \/ Fail(r)

Next == Crash \/ \E r \in Requests : Step(r)

Spec == Init /\ [][Next]_vars
-----------------------------------------------------------------------------
(* Properties.                                                             *)

TypeOK ==
    /\ files \in [Files -> {"none", "partial", "whole"}]
    /\ photos \in Seq(Rows)
    /\ pc \in [Requests -> {"idle", "check", "stat", "decode", "open", "write", "position",
                            "insert", "list", "done"}]
    /\ op \in [Requests -> [order : Orders, image : Images]]
    /\ size \in [Requests -> AllSizes]
    /\ position \in [Requests -> Nat]
    /\ answer \in [Requests -> {"none", "ok", "rejected", "error", "lost"}]
    /\ before \in [Requests -> SUBSET Requests]
    /\ torn \subseteq Files
    /\ unread \subseteq Requests
    /\ faults \in 0..MaxFaults

\* A photo that is listed has all its files, and each is whole unless somebody
\* is writing it right now or a writer failed or was killed over it: then it
\* stays a torso, and later uploads of the image take it for stored.
RowsHaveFiles ==
    \A i \in Ids, s \in AllSizes :
        LET f == <<photos[i].image, s>> IN
        /\ Exists(f)
        /\ files[f] = "whole" \/ f \in torn \/ \E r \in Requests : pc[r] = "write" /\ File(r) = f

\* orderPhotosFor: ORDER BY sort_order, id.
ListedBeforeNewestFirst(i, j) == photos[i].position > photos[j].position
ListedBefore(i, j) ==
    \/ photos[i].position < photos[j].position
    \/ photos[i].position = photos[j].position /\ i < j

\* Uploads that overlap may get one position, and a later one may fill a place
\* before photos already listed; but a photo sent after another one was answered
\* is listed behind it, unless the read of its position failed.
PhotosInUploadOrder ==
    \A i, j \in Ids :
        /\ photos[i].order = photos[j].order
        /\ photos[i].upload \in before[photos[j].upload]
        /\ photos[j].upload \notin unread
        => ListedBefore(i, j)
=============================================================================
