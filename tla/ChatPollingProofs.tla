-------------------------- MODULE ChatPollingProofs --------------------------
(***************************************************************************)
(* Machine-checked safety of module ChatPolling, for any number of         *)
(* messages, INSERTs under way and loads.                                  *)
(*                                                                         *)
(* That an undisturbed screen is exact rests on three facts: nothing else  *)
(* is under way, what has become visible since an answer was made is above *)
(* all of that answer, and the watermark is itself a stored message.       *)
(***************************************************************************)
EXTENDS ChatPolling, WellFoundedInduction, TLAPS

\* Every id drawn is under way or stored.
IdsDrawn ==
    /\ open \cup visible = 1..(nextId - 1)
    /\ open \cap visible = {}

\* Answers hold stored messages, and the answer to a poll only newer ones.
Answers ==
    /\ loadReply \subseteq visible
    /\ pollReply \subseteq {i \in visible : i > since}
    /\ poll # "answered" => pollReply = {}
    /\ send = "open" => sent \in open
    /\ send = "answered" => sent \in visible
    /\ last \in visible \cup {0}

\* An undisturbed screen has one request at a time, a good load runs alone.
OneAtATime ==
    /\ ~raced \/ clean => (Loading => poll = "idle" /\ send = "idle")
    /\ ~raced => poll = "idle" \/ send = "idle"

\* A message is above all of a set.
Above(i, ids) == \A j \in ids : i > j

\* What an undisturbed screen is about to apply has no gap.
NoGap ==
    /\ clean /\ load = "answered" =>
          \A i \in visible \ loadReply : Above(i, loadReply \cup {last})
    /\ ~raced /\ poll # "idle" => since = last
    /\ ~raced /\ poll = "answered" =>
          \A i \in visible \ pollReply : i > last => Above(i, pollReply)
    /\ ~raced /\ send = "answered" => sent > last

IInv == TypeOK /\ IdsDrawn /\ Answers /\ WatermarkCovers /\ OneAtATime /\ NoGap
        /\ CleanScreenExact
-----------------------------------------------------------------------------
\* A non-empty set of ids has a greatest one.
LEMMA MaxOfIds ==
    ASSUME NEW S, S \subseteq 0..MaxId, S # {}
    PROVE  Max(S) \in S /\ \A i \in S : Max(S) >= i
<1> DEFINE T == {MaxId - i : i \in S}
<1>1. T \subseteq Nat /\ T # {}
  <2>1. \A i \in S : i \in Int /\ MaxId - i \in Nat
    BY ChatPollingAssumption
  <2> QED
    BY <2>1
<1>2. PICK m \in T : \A k \in T : <<k, m>> \notin OpToRel(<, Nat)
  <2> HIDE DEF T
  <2> QED
    BY <1>1, WFMin, NatLessThanWellFounded, Zenon
<1>3. \A k \in T : ~(k < m)
  BY <1>1, <1>2, Zenon DEF OpToRel
<1>4. PICK i \in S : m = MaxId - i
  OBVIOUS
<1>5. \A j \in S : i >= j
  <2> SUFFICES ASSUME NEW j \in S
               PROVE  i >= j
    OBVIOUS
  <2>1. MaxId - j \in T
    OBVIOUS
  <2>2. ~(MaxId - j < m)
    BY <1>3, <2>1
  <2> QED
    BY <1>4, <2>2, ChatPollingAssumption
<1> HIDE DEF T
<1> QED
  BY <1>5, Zenon DEF Max

\* _maxMessageId returns one of the ids or the old watermark, the greatest.
LEMMA MaxMessageIdCovers ==
    ASSUME NEW ids, ids \subseteq Ids, last \in 0..MaxId
    PROVE  /\ MaxMessageId(ids) \in ids \cup {last}
           /\ MaxMessageId(ids) \in 0..MaxId
           /\ \A i \in ids \cup {last} : MaxMessageId(ids) >= i
<1>1. ids \cup {last} \subseteq 0..MaxId /\ ids \cup {last} # {}
  BY ChatPollingAssumption DEF Ids
<1> QED
  BY <1>1, MaxOfIds DEF MaxMessageId

\* The screen opens in a good state.
LEMMA InitIInv == Init => IInv
<1> SUFFICES ASSUME Init
             PROVE  IInv
  OBVIOUS
<1>1. /\ open = {} /\ nextId \in 1..(MaxId + 1)
      /\ visible = 1..(nextId - 1) /\ visible \subseteq Ids
  <2>1. PICK n \in 0..MaxId : visible = 1..n /\ nextId = n + 1
    BY DEF Init
  <2> QED
    BY <2>1, ChatPollingAssumption DEF Init, Ids
<1>2. 0 \in 0..MaxId /\ {} \subseteq Ids /\ 1 \in 1..MaxLoads /\ 0 \in Nat
  BY ChatPollingAssumption
<1>3. TypeOK
  BY <1>1, <1>2 DEF Init, TypeOK
<1>4. IdsDrawn /\ Answers /\ OneAtATime
  BY <1>1 DEF Init, IdsDrawn, Answers, OneAtATime
<1>5. WatermarkCovers /\ NoGap /\ CleanScreenExact
  BY <1>1 DEF Init, WatermarkCovers, NoGap, CleanScreenExact, Ids
<1> QED
  BY <1>3, <1>4, <1>5 DEF IInv
-----------------------------------------------------------------------------
(* One lemma per action.                                                   *)

LEMMA BeginInsertIInv ==
    ASSUME IInv, NEW own \in BOOLEAN, BeginInsert(own)
    PROVE  IInv'
<1> USE DEF IInv, content, loadVars, pollVars, sendVars, app, races
<1>1. /\ UNCHANGED <<visible, content, loadVars, pollVars, app, races>>
      /\ nextId \in Ids /\ nextId' = nextId + 1 /\ open' = open \cup {nextId}
      /\ nextId \notin open \cup visible
      /\ \/ send = "posted" /\ send' = "open" /\ sent' = nextId
         \/ send' = send /\ sent' = sent
  BY DEF BeginInsert, TypeOK, IdsDrawn, Ids
<1>2. TypeOK'
  BY <1>1, ChatPollingAssumption DEF TypeOK, Ids
<1>3. IdsDrawn'
  BY <1>1 DEF TypeOK, IdsDrawn, Ids
<1>4. Answers'
  BY <1>1 DEF Answers
<1>5. WatermarkCovers' /\ CleanScreenExact'
  BY <1>1 DEF WatermarkCovers, CleanScreenExact
<1>6. OneAtATime' /\ NoGap'
  BY <1>1 DEF OneAtATime, NoGap, Loading, Above
<1> QED
  BY <1>2, <1>3, <1>4, <1>5, <1>6

\* A message that becomes visible in order is above all others.
LEMMA CommitInsertIInv ==
    ASSUME IInv, NEW i \in open, CommitInsert(i)
    PROVE  IInv'
<1> USE DEF IInv, content, loadVars, pollVars, app
<1>1. /\ UNCHANGED <<nextId, sent, content, loadVars, pollVars, app>>
      /\ i \in Ids /\ i \notin visible /\ open' = open \ {i} /\ visible' = visible \cup {i}
      /\ \/ send = "open" /\ sent = i /\ send' = "answered"
         \/ ~(send = "open" /\ sent = i) /\ send' = send
  BY DEF CommitInsert, TypeOK, IdsDrawn
<1>2. /\ raced' \in BOOLEAN /\ clean' \in BOOLEAN
      /\ ~raced' => ~raced /\ Above(i, visible \cup {0})
      /\ clean' => clean /\ Above(i, visible \cup {0})
  <2>1. (\A j \in visible : ~(j > i)) => Above(i, visible \cup {0})
    BY <1>1 DEF TypeOK, Ids, Above
  <2> QED
    BY <2>1 DEF CommitInsert, TypeOK
<1>3. TypeOK'
  BY <1>1, <1>2 DEF TypeOK
<1>4. IdsDrawn' /\ Answers'
  BY <1>1 DEF IdsDrawn, Answers
<1>5. WatermarkCovers'
  BY <1>1 DEF WatermarkCovers
<1>6. OneAtATime'
  BY <1>1, <1>2 DEF OneAtATime, Loading
<1>7. ~raced' \/ clean' => i > last
  BY <1>2 DEF Above, Answers
<1>8. CleanScreenExact'
  BY <1>1, <1>2, <1>7 DEF CleanScreenExact, TypeOK, Ids
<1>9. NoGap'
  BY <1>1, <1>2, <1>7 DEF NoGap, Above, Answers
<1> QED
  BY <1>3, <1>4, <1>5, <1>6, <1>8, <1>9

LEMMA StartLoadIInv ==
    ASSUME IInv, StartLoad
    PROVE  IInv'
<1> USE DEF IInv, server, content, pollVars, sendVars, app
<1>1. /\ UNCHANGED <<server, content, loadReply, pollVars, sendVars, app>>
      /\ ~Loading /\ load' = "sent" /\ loads' \in 1..MaxLoads
      /\ raced' = (raced \/ Busy) /\ clean' = ~Busy
  BY ChatPollingAssumption DEF StartLoad, TypeOK, Loading
<1>2. TypeOK'
  BY <1>1 DEF TypeOK, Busy, Loading
<1>3. IdsDrawn' /\ Answers' /\ WatermarkCovers' /\ CleanScreenExact'
  BY <1>1 DEF IdsDrawn, Answers, WatermarkCovers, CleanScreenExact
<1>4. OneAtATime' /\ NoGap'
  BY <1>1 DEF OneAtATime, NoGap, Above, Loading, Busy
<1> QED
  BY <1>2, <1>3, <1>4

\* A load is answered, with everything or, if the query fails, nothing.
LEMMA ServeLoadIInv ==
    ASSUME IInv, ServeLoad \/ ServeLoadFailing
    PROVE  IInv'
<1> USE DEF IInv, server, content, pollVars, sendVars, app, races
<1>1. /\ UNCHANGED <<server, content, loads, pollVars, sendVars, app, raced>>
      /\ load = "sent" /\ load' = "answered"
      /\ \/ loadReply' = visible /\ clean' = clean
         \/ loadReply' = {} /\ clean' = FALSE
  BY DEF ServeLoad, ServeLoadFailing
<1>2. TypeOK'
  BY <1>1 DEF TypeOK
<1>3. IdsDrawn' /\ Answers' /\ WatermarkCovers' /\ CleanScreenExact'
  BY <1>1 DEF IdsDrawn, Answers, WatermarkCovers, CleanScreenExact
<1>4. OneAtATime' /\ NoGap'
  BY <1>1 DEF OneAtATime, NoGap, Above, Loading
<1> QED
  BY <1>2, <1>3, <1>4

\* A load replaces the list and never lowers the watermark.
LEMMA ApplyLoadIInv ==
    ASSUME IInv, ApplyLoad
    PROVE  IInv'
<1> USE DEF IInv, server, pollVars, sendVars
<1>1. /\ UNCHANGED <<server, loads, pollVars, sendVars, foreground, clean>>
      /\ load = "answered" /\ load' = "done" /\ timer' = TRUE /\ loadReply' = {}
      /\ shown' = [i \in Ids |-> IF i \in loadReply THEN 1 ELSE 0]
      /\ last' = MaxMessageId(loadReply) /\ raced' = ~clean
  BY DEF ApplyLoad
<1>2. /\ last' \in loadReply \cup {last} /\ last' \in 0..MaxId
      /\ \A i \in loadReply \cup {last} : last' >= i
  BY <1>1, MaxMessageIdCovers DEF TypeOK
<1>3. TypeOK'
  BY <1>1, <1>2 DEF TypeOK
<1>4. IdsDrawn' /\ Answers'
  BY <1>1, <1>2 DEF IdsDrawn, Answers
<1>5. WatermarkCovers'
  <2> SUFFICES ASSUME NEW i \in Ids, shown'[i] > 0
               PROVE  i \in visible /\ i <= last'
    BY <1>1 DEF WatermarkCovers
  <2>1. i \in loadReply
    BY <1>1
  <2> QED
    BY <1>2, <2>1 DEF Answers, Ids
<1>6. OneAtATime' /\ NoGap'
  BY <1>1 DEF OneAtATime, NoGap, Loading
<1>7. CleanScreenExact'
  <2> SUFFICES ASSUME clean, NEW i \in visible, i <= last'
               PROVE  i \in Ids /\ i \in loadReply
    BY <1>1 DEF CleanScreenExact
  <2>1. i \in Ids /\ i \in Int /\ last' \in Int
    BY <1>2 DEF TypeOK, Ids
  <2> QED
    BY <1>1, <1>2, <2>1 DEF NoGap, Above
<1> QED
  BY <1>3, <1>4, <1>5, <1>6, <1>7

\* Failures of a request, and the end of an app's turn, change no content.
LEMMA FailIInv ==
    ASSUME IInv, FailLoad \/ FailPoll \/ FailSend \/ Pause \/ UNCHANGED vars
    PROVE  IInv'
<1> USE DEF IInv, server, content, races
<1>1. /\ UNCHANGED <<server, content, loads, races>>
      /\ foreground' \in BOOLEAN /\ timer' \in BOOLEAN
      /\ \/ load' = load /\ loadReply' = loadReply
         \/ load' = "failed" /\ loadReply' = {}
      /\ \/ poll' = poll /\ polling' = polling /\ since' = since /\ pollReply' = pollReply
         \/ poll' = "idle" /\ polling' = FALSE /\ since' = 0 /\ pollReply' = {}
      /\ \/ send' = send /\ sent' = sent
         \/ send' = "idle" /\ sent' = 0
  BY DEF FailLoad, FailPoll, FailSend, Pause, vars, loadVars, pollVars, sendVars, app, TypeOK
<1>2. TypeOK'
  <2>1. load' \in {"sent", "answered", "done", "failed"} /\ loadReply' \subseteq Ids
    BY <1>1 DEF TypeOK
  <2>2. polling' = (poll' # "idle")
    <3>1. CASE poll' = poll /\ polling' = polling
      BY <3>1, Zenon DEF TypeOK
    <3>2. CASE poll' = "idle" /\ polling' = FALSE
      BY <3>2, Zenon
    <3> QED
      BY <1>1, <3>1, <3>2
  <2>3. /\ poll' \in {"idle", "sent", "answered"}
        /\ since' \in 0..MaxId /\ pollReply' \subseteq Ids
    BY <1>1, ChatPollingAssumption DEF TypeOK
  <2>4. send' \in {"idle", "posted", "open", "answered"} /\ sent' \in 0..MaxId
    BY <1>1, ChatPollingAssumption DEF TypeOK
  <2> QED
    BY <1>1, <2>1, <2>2, <2>3, <2>4 DEF TypeOK, Ids
<1>3. IdsDrawn' /\ Answers' /\ WatermarkCovers' /\ CleanScreenExact'
  BY <1>1 DEF IdsDrawn, Answers, WatermarkCovers, CleanScreenExact
<1>4. OneAtATime' /\ NoGap'
  BY <1>1 DEF OneAtATime, NoGap, Above, Loading
<1> QED
  BY <1>2, <1>3, <1>4

\* A poll starts unless one is under way.
LEMMA PollIInv ==
    ASSUME IInv, TimerFires \/ Resume
    PROVE  IInv'
<1> USE DEF IInv, server, content, loadVars, sendVars
<1>1. /\ UNCHANGED <<server, content, loadVars, sendVars, pollReply>>
      /\ foreground' \in BOOLEAN /\ timer' \in BOOLEAN
      /\ \/ UNCHANGED <<pollVars, races>>
         \/ /\ poll = "idle" /\ poll' = "sent" /\ polling' = TRUE /\ since' = last
            /\ raced' = (raced \/ Busy) /\ clean' = (clean /\ ~Busy)
  BY DEF TimerFires, Resume, Poll, NoteOverlap, pollVars, app, TypeOK
<1>2. CASE UNCHANGED <<pollVars, races>>
  <2>1. TypeOK'
    BY <1>1, <1>2 DEF TypeOK, pollVars, races
  <2> QED
    BY <1>1, <1>2, <2>1 DEF pollVars, races, IdsDrawn, Answers, WatermarkCovers, CleanScreenExact,
                       OneAtATime, NoGap, Above, Loading
<1>3. CASE /\ poll = "idle" /\ poll' = "sent" /\ polling' = TRUE /\ since' = last
           /\ raced' = (raced \/ Busy) /\ clean' = (clean /\ ~Busy)
  <2>1. TypeOK'
    BY <1>1, <1>3 DEF TypeOK, Busy, Loading
  <2>2. IdsDrawn' /\ WatermarkCovers' /\ CleanScreenExact'
    BY <1>1, <1>3 DEF IdsDrawn, WatermarkCovers, CleanScreenExact
  <2>3. Answers'
    BY <1>1, <1>3 DEF Answers
  <2>4. OneAtATime' /\ NoGap'
    BY <1>1, <1>3 DEF OneAtATime, NoGap, Above, Loading, Busy
  <2> QED
    BY <2>1, <2>2, <2>3, <2>4
<1> QED
  BY <1>1, <1>2, <1>3

LEMMA ServePollIInv ==
    ASSUME IInv, ServePoll
    PROVE  IInv'
<1> USE DEF IInv, server, content, loadVars, sendVars, app, races
<1>1. /\ UNCHANGED <<server, content, loadVars, polling, since, sendVars, app, races>>
      /\ poll = "sent" /\ poll' = "answered"
      /\ pollReply' = {i \in visible : i > since}
  <2>1. \A i \in visible : since = 0 => i > since
    BY DEF TypeOK, Ids
  <2>2. NewerThan(since) = {i \in visible : i > since}
    BY <2>1 DEF NewerThan
  <2> QED
    BY <2>2 DEF ServePoll
<1>2. TypeOK'
  BY <1>1 DEF TypeOK
<1>3. IdsDrawn' /\ Answers' /\ WatermarkCovers' /\ CleanScreenExact'
  BY <1>1 DEF IdsDrawn, Answers, WatermarkCovers, CleanScreenExact
<1>4. OneAtATime' /\ NoGap'
  BY <1>1 DEF OneAtATime, NoGap, Above, Loading
<1> QED
  BY <1>2, <1>3, <1>4

\* An answer to a poll is appended.
LEMMA ApplyPollIInv ==
    ASSUME IInv, ApplyPoll
    PROVE  IInv'
<1> USE DEF IInv, server, loadVars, sendVars, app, races
<1>1. /\ UNCHANGED <<server, loadVars, sendVars, app, races>>
      /\ poll = "answered" /\ poll' = "idle" /\ polling' = FALSE
      /\ since' = 0 /\ pollReply' = {}
      /\ shown' = [i \in Ids |-> shown[i] + IF i \in pollReply THEN 1 ELSE 0]
      /\ last' = IF pollReply = {} THEN last ELSE MaxMessageId(pollReply)
  BY DEF ApplyPoll, Append
<1>2. /\ last' \in pollReply \cup {last} /\ last' \in 0..MaxId
      /\ \A i \in pollReply \cup {last} : last' >= i
  BY <1>1, MaxMessageIdCovers DEF TypeOK
<1>3. TypeOK'
  <2>1. shown' \in [Ids -> Nat]
    BY <1>1 DEF TypeOK
  <2>2. polling' = (poll' # "idle")
    BY <1>1, Zenon
  <2>3. /\ poll' \in {"idle", "sent", "answered"}
        /\ since' \in 0..MaxId /\ pollReply' \subseteq Ids
    BY <1>1, ChatPollingAssumption
  <2> QED
    BY <1>1, <1>2, <2>1, <2>2, <2>3 DEF TypeOK
<1>4. IdsDrawn' /\ Answers'
  BY <1>1, <1>2 DEF IdsDrawn, Answers
<1>5. WatermarkCovers'
  <2> SUFFICES ASSUME NEW i \in Ids, shown'[i] > 0
               PROVE  i \in visible /\ i <= last'
    BY <1>1 DEF WatermarkCovers
  <2>1. CASE i \in pollReply
    BY <1>2, <2>1 DEF Answers, Ids, TypeOK
  <2>2. CASE i \notin pollReply
    <3>1. shown[i] > 0
      BY <1>1, <2>2 DEF TypeOK
    <3>2. i \in visible /\ i <= last /\ last <= last'
      BY <1>2, <3>1 DEF WatermarkCovers, TypeOK
    <3> QED
      BY <1>2, <3>2 DEF TypeOK, Ids
  <2> QED
    BY <2>1, <2>2
<1>6. OneAtATime' /\ NoGap'
  BY <1>1 DEF OneAtATime, NoGap, Above, Loading
<1>7. CleanScreenExact'
  <2> SUFFICES ASSUME ~raced, NEW i \in visible, i <= last'
               PROVE  shown'[i] = 1
    BY <1>1 DEF CleanScreenExact
  <2>1. i \in Ids /\ shown[i] \in Nat /\ since = last /\ last \in Int /\ last' \in Int
    BY <1>1, <1>2 DEF TypeOK, NoGap
  <2>2. CASE i <= last
    <3>1. shown[i] = 1
      BY <2>2 DEF CleanScreenExact
    <3>2. i \notin pollReply
      BY <2>1, <2>2 DEF Answers, Ids
    <3> QED
      BY <1>1, <2>1, <3>1, <3>2
  <2>3. CASE ~(i <= last)
    <3>1. i > last
      BY <2>1, <2>3 DEF Ids
    <3>2. shown[i] = 0
      BY <2>1, <2>3 DEF WatermarkCovers
    <3>3. i \in pollReply
      BY <1>1, <1>2, <2>1, <3>1 DEF NoGap, Above, Ids
    <3> QED
      BY <1>1, <2>1, <3>2, <3>3
  <2> QED
    BY <2>2, <2>3
<1> QED
  BY <1>3, <1>4, <1>5, <1>6, <1>7

LEMMA StartSendIInv ==
    ASSUME IInv, StartSend
    PROVE  IInv'
<1> USE DEF IInv, server, content, loadVars, pollVars, app
<1>1. /\ UNCHANGED <<server, content, loadVars, pollVars, sent, app>>
      /\ send = "idle" /\ send' = "posted"
      /\ raced' = (raced \/ Busy) /\ clean' = (clean /\ ~Busy)
  BY DEF StartSend, NoteOverlap
<1>2. TypeOK'
  BY <1>1 DEF TypeOK, Busy, Loading
<1>3. IdsDrawn' /\ Answers' /\ WatermarkCovers' /\ CleanScreenExact'
  BY <1>1 DEF IdsDrawn, Answers, WatermarkCovers, CleanScreenExact
<1>4. OneAtATime' /\ NoGap'
  BY <1>1 DEF OneAtATime, NoGap, Above, Loading, Busy
<1> QED
  BY <1>2, <1>3, <1>4

\* The stored message is appended; without a race it is the next one.
LEMMA ApplySendIInv ==
    ASSUME IInv, ApplySend
    PROVE  IInv'
<1> USE DEF IInv, server, loadVars, pollVars, app
<1>1. /\ UNCHANGED <<server, loadVars, pollVars, app, clean>>
      /\ send = "answered" /\ send' = "idle" /\ sent' = 0
      /\ sent \in visible /\ sent \in Ids
      /\ shown' = [i \in Ids |-> shown[i] + IF i \in {sent} THEN 1 ELSE 0]
      /\ last' = MaxMessageId({sent})
      /\ raced' = (raced \/ \E i \in visible : last < i /\ i < sent)
  BY DEF ApplySend, Append, Answers, TypeOK
<1>2. /\ last' \in {sent, last} /\ last' \in 0..MaxId
      /\ last' >= sent /\ last' >= last
  BY <1>1, MaxMessageIdCovers DEF TypeOK
<1>3. TypeOK'
  <2>1. shown' \in [Ids -> Nat]
    BY <1>1 DEF TypeOK
  <2> QED
    BY <1>1, <1>2, <2>1, ChatPollingAssumption DEF TypeOK
<1>4. IdsDrawn' /\ Answers'
  BY <1>1, <1>2 DEF IdsDrawn, Answers
<1>5. WatermarkCovers'
  <2> SUFFICES ASSUME NEW i \in Ids, shown'[i] > 0
               PROVE  i \in visible /\ i <= last'
    BY <1>1 DEF WatermarkCovers
  <2>1. CASE i = sent
    BY <1>1, <1>2, <2>1
  <2>2. CASE i # sent
    <3>1. shown[i] > 0
      BY <1>1, <2>2 DEF TypeOK
    <3> QED
      BY <1>2, <3>1 DEF WatermarkCovers, TypeOK, Ids
  <2> QED
    BY <2>1, <2>2
<1>6. OneAtATime' /\ NoGap'
  <2>1. ~raced' => ~raced
    BY <1>1
  <2> QED
    BY <1>1, <2>1 DEF OneAtATime, NoGap, Above, Loading
<1>7. CleanScreenExact'
  <2> SUFFICES ASSUME ~raced, \A i \in visible : ~(last < i /\ i < sent),
                      NEW i \in visible, i <= last'
               PROVE  shown'[i] = 1
    BY <1>1 DEF CleanScreenExact
  <2>1. /\ i \in Ids /\ shown[i] \in Nat /\ sent > last
        /\ last \in Int /\ sent \in Int /\ i \in Int
    BY <1>1, <1>2 DEF TypeOK, NoGap, Ids
  <2>2. CASE i <= last
    <3>1. shown[i] = 1 /\ i # sent
      BY <2>1, <2>2 DEF CleanScreenExact
    <3> QED
      BY <1>1, <2>1, <3>1
  <2>3. CASE ~(i <= last)
    <3>1. shown[i] = 0 /\ i = sent
      BY <1>2, <2>1, <2>3 DEF WatermarkCovers
    <3> QED
      BY <1>1, <2>1, <3>1
  <2> QED
    BY <2>2, <2>3
<1> QED
  BY <1>3, <1>4, <1>5, <1>6, <1>7

\* Every step keeps the invariant.
LEMMA NextIInv == IInv /\ [Next]_vars => IInv'
BY BeginInsertIInv, CommitInsertIInv, StartLoadIInv, ServeLoadIInv, ApplyLoadIInv, FailIInv,
   PollIInv, ServePollIInv, ApplyPollIInv, StartSendIInv, ApplySendIInv
   DEF Next
-----------------------------------------------------------------------------
(* Results.                                                                *)

\* The strengthened invariant holds in every reachable state.
THEOREM Inductive == Spec => []IInv
BY InitIInv, NextIInv, PTL DEF Spec

\* Types; the flag _polling says whether a poll is under way.
THEOREM TypeCorrect == Spec => []TypeOK
BY Inductive, PTL DEF IInv

\* The screen shows stored messages only, up to its watermark (_load, _poll and
\* _send of _ChatScreenState).
THEOREM WatermarkCoversAll == Spec => []WatermarkCovers
BY Inductive, PTL DEF IInv

\* An undisturbed screen shows each message up to the watermark once.
THEOREM UndisturbedScreenExact == Spec => []CleanScreenExact
BY Inductive, PTL DEF IInv
=============================================================================
