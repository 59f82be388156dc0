----------------------------- MODULE MediaProofs -----------------------------
(***************************************************************************)
(* What holds of photos for any orders, images, uploads and numbers of     *)
(* files and failures.                                                     *)
(*                                                                         *)
(* RowsHaveFiles needs to know which files an upload has seen or written   *)
(* on its way (FilesOnTheWay), PhotosInUploadOrder what the position it    *)
(* holds promises (PositionInHand).                                        *)
(***************************************************************************)
EXTENDS Media, TLAPS, SequenceTheorems

\* Once there, a file is there; an upload has seen, or written, those before
\* the one it is at, and all of them when it goes to the database.
FilesOnTheWay ==
    \A r \in Requests :
        /\ pc[r] \in {"idle", "check"} => size[r] = 1
        /\ pc[r] \in {"stat", "open", "write"} =>
               \A s \in AllSizes : s < size[r] => Exists(<<op[r].image, s>>)
        /\ pc[r] = "write" => Exists(File(r))
        /\ pc[r] \in {"decode", "position", "insert", "list"} =>
               \A s \in AllSizes : Exists(<<op[r].image, s>>)

\* Rows have files.
RowsExist == \A i \in Ids, s \in AllSizes : Exists(<<photos[i].image, s>>)

\* A file that is not whole has a writer, or lost it.
PartialExplained ==
    \A f \in Files : files[f] = "partial" =>
        f \in torn \/ \E r \in Requests : pc[r] = "write" /\ File(r) = f

\* Uploads with a row have inserted it; an answered one has come to its end.
Inserted ==
    /\ \A i \in Ids : pc[photos[i].upload] \in {"list", "done"}
    /\ \A r \in Requests : answer[r] = "ok" => pc[r] = "done"
    /\ \A r \in Requests : \A q \in before[r] : pc[q] = "done"

\* The position in hand is behind every photo answered before the upload began.
PositionInHand ==
    \A r \in Requests : \A i \in Ids :
        /\ pc[r] = "insert" /\ r \notin unread
        /\ photos[i].order = op[r].order
        /\ photos[i].upload \in before[r]
        => photos[i].position < position[r]

IInv ==
    /\ TypeOK
    /\ FilesOnTheWay /\ RowsExist /\ PartialExplained
    /\ Inserted /\ PositionInHand /\ PhotosInUploadOrder

\* What a row is made of.
LEMMA RowTyped ==
    ASSUME TypeOK, NEW i \in Ids
    PROVE  /\ photos[i].order \in Orders /\ photos[i].image \in Images
           /\ photos[i].position \in Nat /\ photos[i].upload \in Requests
<1>1. photos[i] \in Rows
  BY ElementOfSeq DEF TypeOK, Ids
<1> QED
  BY <1>1 DEF Rows

\* Nothing is stored and nobody at work.
LEMMA InitIInv == Init => IInv
<1> SUFFICES ASSUME Init PROVE IInv
  OBVIOUS
<1>1. TypeOK
  BY MediaAssumption DEF Init, TypeOK, AllSizes, Rows
<1>2. Ids = {}
  BY DEF Init, Ids
<1>3. FilesOnTheWay /\ RowsExist /\ PartialExplained
  BY <1>2 DEF Init, FilesOnTheWay, RowsExist, PartialExplained
<1>4. Inserted /\ PositionInHand /\ PhotosInUploadOrder
  BY <1>2 DEF Init, Inserted, PositionInHand, PhotosInUploadOrder
<1> QED
  BY <1>1, <1>3, <1>4 DEF IInv

\* A step that leaves files and rows alone, ends no upload at work on a file
\* without calling it torn, and keeps what is promised about files and positions.
LEMMA LookingIInv ==
    ASSUME IInv, TypeOK',
           UNCHANGED <<files, photos, op>>,
           torn \subseteq torn',
           \A r \in Requests : pc[r] = "write" =>
               (pc'[r] = "write" /\ size'[r] = size[r]) \/ File(r) \in torn',
           FilesOnTheWay', Inserted', PositionInHand', PhotosInUploadOrder'
    PROVE  IInv'
<1>1. RowsExist'
  BY DEF IInv, RowsExist, Ids, Exists
<1>2. PartialExplained'
  BY DEF IInv, TypeOK, PartialExplained, File, Files, AllSizes
<1> QED
  BY <1>1, <1>2 DEF IInv

LEMMA SendIInv ==
    ASSUME IInv, NEW r \in Requests, Send(r)
    PROVE  IInv'
<1> USE DEF Send, Goto
<1>1. TypeOK'
  BY DEF IInv, TypeOK
<1>2. FilesOnTheWay'
  BY DEF IInv, TypeOK, FilesOnTheWay, File, Exists
<1>3. Inserted'
  BY DEF IInv, TypeOK, Inserted, Ids, Rows
<1>4. Ids' = Ids /\ \A i \in Ids : photos[i].upload \in Requests \ {r}
  BY RowTyped DEF IInv, Inserted, Ids
<1>5. PositionInHand'
  BY <1>4 DEF IInv, TypeOK, PositionInHand
<1>6. PhotosInUploadOrder'
  <2>1. \A j \in Ids : before'[photos[j].upload] = before[photos[j].upload]
    BY <1>4 DEF IInv, TypeOK
  <2> QED
    BY <1>4, <2>1 DEF IInv, PhotosInUploadOrder, ListedBefore
<1> QED
  BY <1>1, <1>2, <1>3, <1>5, <1>6, LookingIInv DEF IInv, TypeOK

\* A step of one request that only looks, moves to a place where nothing about
\* positions is promised, and ends with "ok" only from the list.
LEMMA OneLooksIInv ==
    ASSUME IInv, NEW r \in Requests, TypeOK', FilesOnTheWay',
           UNCHANGED <<files, photos, op, position, before, torn, unread>>,
           pc[r] # "write", pc[r] # "done",
           NEW next, pc' = [pc EXCEPT ![r] = next], next # "insert",
           pc[r] = "list" => next = "done",
           \A q \in Requests : q # r => size'[q] = size[q],
           NEW outcome, answer' = [answer EXCEPT ![r] = outcome],
           outcome = "ok" => next = "done" \/ answer[r] = "ok"
    PROVE  IInv'
<1>1. Ids' = Ids /\ \A i \in Ids : photos[i].upload \in Requests
  BY RowTyped DEF IInv, Ids
<1>2. Inserted'
  BY <1>1 DEF IInv, TypeOK, Inserted
<1>3. PositionInHand'
  BY <1>1 DEF IInv, TypeOK, PositionInHand
<1>4. PhotosInUploadOrder'
  BY <1>1 DEF IInv, PhotosInUploadOrder, ListedBefore
<1> QED
  BY <1>2, <1>3, <1>4, LookingIInv DEF IInv, TypeOK

LEMMA CheckIInv ==
    ASSUME IInv, NEW r \in Requests, Check(r)
    PROVE  IInv'
<1>1. /\ UNCHANGED <<files, photos, op, size, position, history>>
      /\ pc[r] = "check"
  BY DEF Check
<1>2. PICK next \in {"stat", "done"} : pc' = [pc EXCEPT ![r] = next]
  BY DEF Check, Goto, Finish
<1>3. PICK outcome \in {answer[r], "rejected"} : answer' = [answer EXCEPT ![r] = outcome]
  BY DEF Check, Goto, Finish, IInv, TypeOK
<1> USE DEF history
<1>4. TypeOK'
  BY <1>1, <1>2, <1>3 DEF IInv, TypeOK
<1>5. FilesOnTheWay'
  BY <1>1, <1>2 DEF IInv, TypeOK, FilesOnTheWay, File, Exists, AllSizes
<1> QED
  BY <1>1, <1>2, <1>3, <1>4, <1>5, OneLooksIInv

\* One more file is there, and after the last one all are.
LEMMA StatFoundIInv ==
    ASSUME IInv, NEW r \in Requests, StatFound(r)
    PROVE  IInv'
<1>1. /\ UNCHANGED <<files, photos, op, position, history>>
      /\ pc[r] = "stat" /\ Exists(<<op[r].image, size[r]>>)
      /\ answer' = [answer EXCEPT ![r] = answer[r]]
  BY DEF StatFound, Goto, File, IInv, TypeOK
<1>2. size[r] \in 1..Sizes /\ Sizes \in Nat
  BY MediaAssumption DEF IInv, TypeOK, AllSizes
<1> USE DEF history
<1>3. CASE size[r] = Sizes
  <2>1. pc' = [pc EXCEPT ![r] = "decode"] /\ size' = size
    BY <1>3 DEF StatFound, AllStated, Goto
  <2>2. TypeOK'
    BY <1>1, <2>1 DEF IInv, TypeOK
  <2>3. \A s \in AllSizes : Exists(<<op[r].image, s>>)
    BY <1>1, <1>2, <1>3 DEF IInv, FilesOnTheWay, AllSizes
  <2>4. FilesOnTheWay'
    BY <1>1, <2>1, <2>3 DEF IInv, TypeOK, FilesOnTheWay, File, Exists
  <2> QED
    BY <1>1, <2>1, <2>2, <2>4, OneLooksIInv
<1>4. CASE size[r] # Sizes
  <2>1. pc' = [pc EXCEPT ![r] = "stat"] /\ size' = [size EXCEPT ![r] = @ + 1]
    BY <1>1, <1>4 DEF StatFound, AllStated, IInv, TypeOK
  <2>2. TypeOK'
    BY <1>1, <1>2, <1>4, <2>1 DEF IInv, TypeOK, AllSizes
  <2>3. \A s \in AllSizes : s < size[r] + 1 => Exists(<<op[r].image, s>>)
    BY <1>1, <1>2 DEF IInv, FilesOnTheWay, AllSizes
  <2>4. FilesOnTheWay'
    BY <1>1, <2>1, <2>3 DEF IInv, TypeOK, FilesOnTheWay, File, Exists
  <2> QED
    BY <1>1, <2>1, <2>2, <2>4, OneLooksIInv DEF IInv, TypeOK
<1> QED
  BY <1>3, <1>4

LEMMA StatMissingIInv ==
    ASSUME IInv, NEW r \in Requests, StatMissing(r)
    PROVE  IInv'
<1> USE DEF StatMissing, Goto, history
<1>1. TypeOK'
  BY MediaAssumption DEF IInv, TypeOK, AllSizes
<1>2. FilesOnTheWay'
  BY MediaAssumption DEF IInv, TypeOK, FilesOnTheWay, File, Exists, AllSizes
<1>3. /\ answer' = [answer EXCEPT ![r] = answer[r]]
      /\ \A q \in Requests : q # r => size'[q] = size[q]
  BY DEF IInv, TypeOK
<1> QED
  BY <1>1, <1>2, <1>3, OneLooksIInv

LEMMA DecodeIInv ==
    ASSUME IInv, NEW r \in Requests, Decode(r)
    PROVE  IInv'
<1> USE DEF Decode, Goto, history
<1>1. TypeOK'
  BY DEF IInv, TypeOK
<1>2. FilesOnTheWay'
  BY DEF IInv, TypeOK, FilesOnTheWay, File, Exists
<1>3. answer' = [answer EXCEPT ![r] = answer[r]]
  BY DEF IInv, TypeOK
<1> QED
  BY <1>1, <1>2, <1>3, OneLooksIInv

LEMMA AnswerIInv ==
    ASSUME IInv, NEW r \in Requests, Answer(r)
    PROVE  IInv'
<1> USE DEF Answer, Finish, history
<1>1. TypeOK'
  BY DEF IInv, TypeOK
<1>2. FilesOnTheWay'
  BY DEF IInv, TypeOK, FilesOnTheWay, File, Exists
<1> QED
  BY <1>1, <1>2, OneLooksIInv

\* A file is truncated, and by that exists; its writer explains that it is
\* not whole.
LEMMA OpenFileIInv ==
    ASSUME IInv, NEW r \in Requests, OpenFile(r)
    PROVE  IInv'
<1> USE DEF OpenFile, Goto, history
<1>1. File(r) \in Files /\ File(r)' = File(r)
  BY DEF IInv, TypeOK, File, Files
<1>2. TypeOK'
  BY <1>1 DEF IInv, TypeOK
<1>3. \A f \in Files : Exists(f) => Exists(f)'
  BY <1>1 DEF IInv, TypeOK, Exists
<1>4. Exists(File(r))'
  BY <1>1 DEF IInv, TypeOK, Exists
<1>5. Ids' = Ids /\ \A i \in Ids : photos[i].upload \in Requests /\ photos[i].image \in Images
  BY RowTyped DEF IInv, Ids
<1>6. \A q \in Requests, s \in AllSizes : <<op[q].image, s>> \in Files
  BY DEF IInv, TypeOK, Files
<1>7. FilesOnTheWay'
  BY <1>3, <1>4, <1>6 DEF IInv, TypeOK, FilesOnTheWay, File
<1>8. RowsExist'
  BY <1>3, <1>5 DEF IInv, RowsExist, Files
<1>9. PartialExplained'
  BY <1>1 DEF IInv, TypeOK, PartialExplained, File
<1>10. Inserted' /\ PositionInHand' /\ PhotosInUploadOrder'
  BY <1>5 DEF IInv, TypeOK, Inserted, PositionInHand, PhotosInUploadOrder, ListedBefore
<1> QED
  BY <1>2, <1>7, <1>8, <1>9, <1>10 DEF IInv

\* The file is whole, whoever else had opened it.
LEMMA WriteFileIInv ==
    ASSUME IInv, NEW r \in Requests, WriteFile(r)
    PROVE  IInv'
<1>1. /\ UNCHANGED <<photos, op, position, before, unread, faults, answer>>
      /\ pc[r] = "write" /\ files' = [files EXCEPT ![File(r)] = "whole"]
      /\ torn' = torn \ {File(r)}
  BY DEF WriteFile, Goto
<1>2. /\ size[r] \in 1..Sizes /\ Sizes \in Nat
      /\ File(r) \in Files /\ File(r) = <<op[r].image, size[r]>>
  BY MediaAssumption DEF IInv, TypeOK, AllSizes, File, Files
<1>3. \/ /\ size[r] = Sizes
         /\ pc' = [pc EXCEPT ![r] = "position"] /\ size' = size
      \/ /\ size[r] # Sizes
         /\ pc' = [pc EXCEPT ![r] = "open"] /\ size' = [size EXCEPT ![r] = @ + 1]
  BY DEF WriteFile, Goto
<1>4. TypeOK'
  <2>1. size' \in [Requests -> AllSizes]
    <3>1. size[r] # Sizes => size[r] + 1 \in AllSizes
      BY <1>2 DEF AllSizes
    <3> QED
      BY <1>3, <3>1 DEF IInv, TypeOK
  <2>2. pc' \in [Requests -> {"idle", "check", "stat", "decode", "open", "write", "position",
                              "insert", "list", "done"}]
    BY <1>3 DEF IInv, TypeOK
  <2>3. files' \in [Files -> {"none", "partial", "whole"}] /\ torn' \subseteq Files
    BY <1>1, <1>2 DEF IInv, TypeOK
  <2> QED
    BY <1>1, <2>1, <2>2, <2>3 DEF IInv, TypeOK
<1>5. \A f \in Files : Exists(f) => Exists(f)'
  BY <1>1, <1>2 DEF IInv, TypeOK, Exists
<1>6. Ids' = Ids /\ \A i \in Ids : photos[i].upload \in Requests /\ photos[i].image \in Images
  BY <1>1, RowTyped DEF IInv, Ids
<1>7. \A q \in Requests, s \in AllSizes : <<op[q].image, s>> \in Files
  BY DEF IInv, TypeOK, Files
<1>8. FilesOnTheWay'
  <2>1. \A s \in AllSizes : s < size[r] + 1 => Exists(<<op[r].image, s>>)'
    BY <1>1, <1>2, <1>5, <1>7 DEF IInv, FilesOnTheWay, AllSizes
  <2>2. \A q \in Requests \ {r} : pc'[q] = pc[q] /\ size'[q] = size[q]
    BY <1>3 DEF IInv, TypeOK
  <2>3. \/ pc'[r] = "position" /\ size[r] = Sizes
        \/ pc'[r] = "open" /\ size'[r] = size[r] + 1
    BY <1>3 DEF IInv, TypeOK
  <2>4. \A s \in AllSizes : s \in 1..Sizes
    BY DEF AllSizes
  <2>5. pc'[r] = "position" => \A s \in AllSizes : Exists(<<op[r].image, s>>)'
    BY <1>2, <2>1, <2>3, <2>4
  <2> QED
    BY <1>1, <1>5, <1>7, <2>1, <2>2, <2>3, <2>5 DEF IInv, TypeOK, FilesOnTheWay, File
<1>9. RowsExist'
  BY <1>1, <1>5, <1>6 DEF IInv, RowsExist, Files
<1>10. PartialExplained'
  <2> SUFFICES ASSUME NEW f \in Files, files'[f] = "partial"
               PROVE  f \in torn' \/ \E q \in Requests : pc'[q] = "write" /\ File(q)' = f
    BY DEF PartialExplained
  <2>1. f # File(r) /\ files[f] = "partial"
    BY <1>1, <1>2 DEF IInv, TypeOK
  <2>2. f \in torn \/ \E q \in Requests \ {r} : pc[q] = "write" /\ File(q) = f
    BY <2>1 DEF IInv, PartialExplained
  <2> QED
    BY <1>1, <1>3, <2>1, <2>2 DEF IInv, TypeOK, File
<1>11. /\ \A q \in Requests : pc'[q] = pc[q] \/ (q = r /\ pc'[q] \in {"open", "position"})
       /\ pc[r] = "write"
  <2>1. \A q \in Requests \ {r} : pc'[q] = pc[q]
    BY <1>3 DEF IInv, TypeOK
  <2>2. pc'[r] \in {"open", "position"}
    BY <1>3 DEF IInv, TypeOK
  <2> QED
    BY <1>1, <2>1, <2>2
<1>12. Inserted' /\ PositionInHand'
  <2>1. \A q \in Requests : /\ pc[q] \in {"list", "done"} => pc'[q] = pc[q]
                            /\ pc'[q] = "insert" => pc[q] = "insert"
    BY <1>11
  <2>2. Inserted'
    BY <1>1, <1>6, <2>1 DEF IInv, TypeOK, Inserted
  <2> QED
    BY <1>1, <1>6, <2>1, <2>2 DEF IInv, PositionInHand
<1>13. PhotosInUploadOrder'
  BY <1>1, <1>6 DEF IInv, PhotosInUploadOrder, ListedBefore
<1> QED
  BY <1>4, <1>8, <1>9, <1>10, <1>12, <1>13 DEF IInv

\* The position read is behind every photo of the order.
LEMMA ReadPositionIInv ==
    ASSUME IInv, NEW r \in Requests, ReadPosition(r)
    PROVE  IInv'
<1> USE DEF Goto, history
<1>1. PICK p \in Positions(op[r].order) \cup {-1} :
        /\ Last(op[r].order, p) /\ position' = [position EXCEPT ![r] = p + 1]
  BY DEF ReadPosition, NextPosition
<1>2. Ids' = Ids /\ \A i \in Ids : photos[i].upload \in Requests /\ photos[i].position \in Nat
  BY RowTyped DEF ReadPosition, IInv, Ids
<1>3. p + 1 \in Nat /\ p \in Int
  BY <1>2 DEF Positions
<1>4. \A i \in Ids : photos[i].order = op[r].order => photos[i].position < p + 1
  BY <1>1, <1>2, <1>3 DEF Positions, Last
<1>5. TypeOK'
  BY <1>1, <1>3 DEF ReadPosition, IInv, TypeOK
<1>6. FilesOnTheWay'
  BY DEF ReadPosition, IInv, TypeOK, FilesOnTheWay, File, Exists
<1>7. Inserted'
  BY <1>2 DEF ReadPosition, IInv, TypeOK, Inserted
<1>8. PositionInHand'
  BY <1>1, <1>2, <1>4 DEF ReadPosition, IInv, TypeOK, PositionInHand
<1>9. PhotosInUploadOrder'
  BY <1>2 DEF ReadPosition, IInv, PhotosInUploadOrder, ListedBefore
<1> QED
  BY <1>5, <1>6, <1>7, <1>8, <1>9, LookingIInv DEF ReadPosition, IInv, TypeOK

LEMMA ReadPositionFailsIInv ==
    ASSUME IInv, NEW r \in Requests, ReadPositionFails(r)
    PROVE  IInv'
<1> USE DEF ReadPositionFails, Goto
<1>1. Ids' = Ids /\ \A i \in Ids : photos[i].upload \in Requests
  BY RowTyped DEF IInv, Ids
<1>2. TypeOK'
  BY MediaAssumption DEF IInv, TypeOK
<1>3. FilesOnTheWay'
  BY DEF IInv, TypeOK, FilesOnTheWay, File, Exists
<1>4. Inserted'
  BY <1>1 DEF IInv, TypeOK, Inserted
<1>5. PositionInHand'
  BY <1>1 DEF IInv, TypeOK, PositionInHand
<1>6. PhotosInUploadOrder'
  BY <1>1 DEF IInv, PhotosInUploadOrder, ListedBefore
<1> QED
  BY <1>2, <1>3, <1>4, <1>5, <1>6, LookingIInv DEF IInv, TypeOK

\* The new row is the last by id; those its upload knew of have positions before
\* it, and nobody knew of it.
LEMMA InsertPhotoIInv ==
    ASSUME IInv, NEW r \in Requests, InsertPhoto(r)
    PROVE  IInv'
<1> DEFINE row == [order |-> op[r].order, image |-> op[r].image,
                   position |-> position[r], upload |-> r]
           new == Len(photos) + 1
<1>1. /\ UNCHANGED <<files, op, size, position, answer, before, torn, unread, faults>>
      /\ pc[r] = "insert" /\ pc' = [pc EXCEPT ![r] = "list"]
      /\ photos' = Append(photos, row)
  BY DEF InsertPhoto, Goto, history
<1>2. row \in Rows
  BY DEF IInv, TypeOK, Rows
<1>3. /\ row.order = op[r].order /\ row.image = op[r].image
      /\ row.position = position[r] /\ row.upload = r
  OBVIOUS
<1> HIDE DEF row
<1>4. photos \in Seq(Rows) /\ Len(photos) \in Nat
  BY DEF IInv, TypeOK
<1>5. /\ photos' \in Seq(Rows) /\ Len(photos') = new /\ photos'[new] = row
      /\ \A i \in 1..Len(photos) : photos'[i] = photos[i]
  BY <1>1, <1>2, <1>4, AppendProperties
<1>6. /\ Ids' = Ids \cup {new} /\ new \notin Ids
      /\ \A i \in Ids : i \in Nat /\ i < new /\ photos'[i] = photos[i]
  BY <1>4, <1>5 DEF Ids
<1> HIDE DEF new
<1>7. \A i \in Ids : photos[i].upload \in Requests /\ photos[i].position \in Nat
  BY RowTyped DEF IInv
<1>8. TypeOK'
  BY <1>1, <1>5 DEF IInv, TypeOK
<1>9. FilesOnTheWay'
  BY <1>1 DEF IInv, TypeOK, FilesOnTheWay, File, Exists
<1>10. RowsExist'
  <2> SUFFICES ASSUME NEW i \in Ids', NEW s \in AllSizes
               PROVE  files[<<photos'[i].image, s>>] # "none"
    BY <1>1 DEF RowsExist, Exists
  <2>1. CASE i \in Ids
    BY <1>6, <2>1 DEF IInv, RowsExist, Exists
  <2>2. CASE i = new
    BY <1>1, <1>3, <1>5, <2>2 DEF IInv, FilesOnTheWay, Exists
  <2> QED
    BY <1>6, <2>1, <2>2
<1>11. PartialExplained'
  BY <1>1 DEF IInv, TypeOK, PartialExplained, File
<1>12. Inserted'
  <2>1. \A i \in Ids' : pc'[photos'[i].upload] \in {"list", "done"}
    <3> TAKE i \in Ids'
    <3>1. CASE i \in Ids
      BY <1>1, <1>6, <1>7, <3>1 DEF IInv, TypeOK, Inserted
    <3>2. CASE i = new
      BY <1>1, <1>3, <1>5, <3>2 DEF IInv, TypeOK
    <3> QED
      BY <1>6, <3>1, <3>2
  <2>2. \A q \in Requests : pc[q] = "done" => pc'[q] = "done"
    BY <1>1 DEF IInv, TypeOK
  <2> QED
    BY <1>1, <2>1, <2>2 DEF IInv, TypeOK, Inserted
<1>13. \A q \in Requests : r \notin before[q]
  BY <1>1 DEF IInv, Inserted
<1>14. PositionInHand'
  <2> SUFFICES ASSUME NEW q \in Requests, NEW i \in Ids',
                      pc'[q] = "insert", q \notin unread,
                      photos'[i].order = op[q].order, photos'[i].upload \in before[q]
               PROVE  photos'[i].position < position[q]
    BY <1>1 DEF PositionInHand
  <2>1. i \in Ids /\ pc[q] = "insert"
    BY <1>1, <1>3, <1>5, <1>6, <1>13 DEF IInv, TypeOK
  <2> QED
    BY <1>6, <2>1 DEF IInv, PositionInHand
<1>15. PhotosInUploadOrder'
  <2> SUFFICES ASSUME NEW i \in Ids', NEW j \in Ids',
                      photos'[i].order = photos'[j].order,
                      photos'[i].upload \in before[photos'[j].upload],
                      photos'[j].upload \notin unread
               PROVE  ListedBefore(i, j)'
    BY <1>1 DEF PhotosInUploadOrder
  <2>1. photos'[j].upload \in Requests
    BY <1>3, <1>5, <1>6, <1>7
  <2>2. i \in Ids
    BY <1>3, <1>5, <1>6, <1>13, <2>1
  <2>3. CASE j \in Ids
    BY <1>6, <2>2, <2>3 DEF IInv, PhotosInUploadOrder, ListedBefore
  <2>4. CASE j = new
    <3>1. photos[i].position < position[r]
      BY <1>1, <1>3, <1>5, <1>6, <2>2, <2>4 DEF IInv, PositionInHand
    <3> QED
      BY <1>3, <1>5, <1>6, <2>2, <2>4, <3>1 DEF ListedBefore
  <2> QED
    BY <1>6, <2>3, <2>4
<1> QED
  BY <1>8, <1>9, <1>10, <1>11, <1>12, <1>14, <1>15 DEF IInv

\* Uploads end where they are; a file they were writing is torn.
LEMMA EndIInv ==
    ASSUME IInv, NEW Ended \in SUBSET Requests,
           UNCHANGED <<files, photos, op, size, position, before, unread>>,
           \A r \in Ended : pc[r] # "idle",
           pc' = [r \in Requests |-> IF r \in Ended THEN "done" ELSE pc[r]],
           answer' \in [Requests -> {"none", "ok", "rejected", "error", "lost"}],
           \A r \in Requests : answer'[r] = "ok" => answer[r] = "ok",
           torn' = torn \cup {File(r) : r \in {q \in Ended : pc[q] = "write"}},
           faults' \in 0..MaxFaults
    PROVE  IInv'
<1>1. Ids' = Ids /\ \A i \in Ids : photos[i].upload \in Requests
  BY RowTyped DEF IInv, Ids
<1>2. TypeOK'
  BY DEF IInv, TypeOK, File, Files
<1>3. FilesOnTheWay'
  BY DEF IInv, TypeOK, FilesOnTheWay, File, Exists
<1>4. Inserted'
  BY <1>1 DEF IInv, TypeOK, Inserted
<1>5. PositionInHand' /\ PhotosInUploadOrder'
  BY <1>1 DEF IInv, TypeOK, PositionInHand, PhotosInUploadOrder, ListedBefore
<1>6. \A r \in Requests : pc[r] = "write" =>
               (pc'[r] = "write" /\ size'[r] = size[r]) \/ File(r) \in torn'
  OBVIOUS
<1> QED
  BY <1>2, <1>3, <1>4, <1>5, <1>6, LookingIInv

LEMMA FailIInv ==
    ASSUME IInv, NEW r \in Requests, Fail(r)
    PROVE  IInv'
<1> DEFINE Ended == {r}
<1>1. /\ UNCHANGED <<files, photos, op, size, position, before, unread>>
      /\ pc[r] # "idle" /\ pc' = [pc EXCEPT ![r] = "done"]
      /\ answer' = [answer EXCEPT ![r] = "error"]
      /\ torn' = torn \cup {File(q) : q \in {o \in Ended : pc[o] = "write"}}
  BY DEF Fail, Finish
<1>2. faults' \in 0..MaxFaults
  BY MediaAssumption DEF Fail, IInv, TypeOK
<1>3. /\ pc' = [q \in Requests |-> IF q \in Ended THEN "done" ELSE pc[q]]
      /\ answer' \in [Requests -> {"none", "ok", "rejected", "error", "lost"}]
      /\ \A q \in Requests : answer'[q] = "ok" => answer[q] = "ok"
      /\ Ended \in SUBSET Requests /\ \A q \in Ended : pc[q] # "idle"
  BY <1>1 DEF IInv, TypeOK
<1> HIDE DEF Ended
<1> QED
  BY <1>1, <1>2, <1>3, EndIInv

LEMMA CrashIInv ==
    ASSUME IInv, Crash
    PROVE  IInv'
<1> DEFINE Ended == {r \in Requests : Running(r)}
<1>1. /\ UNCHANGED <<files, photos, op, size, position, before, unread>>
      /\ torn' = torn \cup {File(q) : q \in {o \in Ended : pc[o] = "write"}}
  <2>1. {q \in Requests : pc[q] = "write"} = {o \in Ended : pc[o] = "write"}
    BY DEF Running
  <2> QED
    BY <2>1 DEF Crash
<1>2. faults' \in 0..MaxFaults
  BY MediaAssumption DEF Crash, IInv, TypeOK
<1>3. /\ pc' = [q \in Requests |-> IF q \in Ended THEN "done" ELSE pc[q]]
      /\ answer' \in [Requests -> {"none", "ok", "rejected", "error", "lost"}]
      /\ \A q \in Requests : answer'[q] = "ok" => answer[q] = "ok"
      /\ Ended \in SUBSET Requests /\ \A q \in Ended : pc[q] # "idle"
  BY DEF Crash, Running, IInv, TypeOK
<1> HIDE DEF Ended
<1> QED
  BY <1>1, <1>2, <1>3, EndIInv

LEMMA NextIInv == IInv /\ [Next]_vars => IInv'
<1> SUFFICES ASSUME IInv, [Next]_vars
             PROVE  IInv'
  OBVIOUS
<1>1. CASE UNCHANGED vars
  BY <1>1 DEF vars, request, history, IInv, TypeOK, FilesOnTheWay, RowsExist,
     PartialExplained, Inserted, PositionInHand, PhotosInUploadOrder, ListedBefore, Ids,
     Exists, File
<1>2. CASE Next
  BY <1>2, SendIInv, CheckIInv, StatFoundIInv, StatMissingIInv, DecodeIInv, OpenFileIInv,
     WriteFileIInv, ReadPositionIInv, ReadPositionFailsIInv, InsertPhotoIInv, AnswerIInv,
     FailIInv, CrashIInv DEF Next, Step
<1> QED
  BY <1>1, <1>2
-----------------------------------------------------------------------------
(* Results.                                                                *)

\* The strengthened invariant holds in every reachable state.
THEOREM Inductive == Spec => []IInv
BY InitIInv, NextIInv, PTL DEF Spec

\* Types: files, rows and positions.
THEOREM TypeCorrect == Spec => []TypeOK
BY Inductive, PTL DEF IInv

\* Every listed photo has its files, whole unless a writer is at work or lost
\* them (storeOrderImage, attachOrderPhoto).
THEOREM ListedPhotosHaveFiles == Spec => []RowsHaveFiles
<1>1. IInv => RowsHaveFiles
  <2> SUFFICES ASSUME IInv, NEW i \in Ids, NEW s \in AllSizes
               PROVE  LET f == <<photos[i].image, s>> IN
                      /\ Exists(f)
                      /\ \/ files[f] = "whole" \/ f \in torn
                         \/ \E r \in Requests : pc[r] = "write" /\ File(r) = f
    BY DEF RowsHaveFiles
  <2>1. <<photos[i].image, s>> \in Files
    BY RowTyped DEF IInv, Files
  <2>2. Exists(<<photos[i].image, s>>)
    BY DEF IInv, RowsExist
  <2> QED
    BY <2>1, <2>2 DEF IInv, TypeOK, PartialExplained, Exists
<1> QED
  BY <1>1, Inductive, PTL

\* Photos are listed in the order in which one upload followed the other's
\* answer (attachOrderPhoto, orderPhotosFor).
THEOREM ListedInOrder == Spec => []PhotosInUploadOrder
BY Inductive, PTL DEF IInv
=============================================================================
