----------------------------- MODULE ChatPolling -----------------------------
(***************************************************************************)
(* One open chat screen of the mobile client (_ChatScreenState in          *)
(* home_shell.dart) against GET and POST /api/chats/{id}/messages          *)
(* (chats.go, messagesForChat and messagesForChatSince in main.go).  The   *)
(* screen loads the history, polls for ids above the greatest it has seen, *)
(* and appends what it sends itself.  Its load, poll and send are          *)
(* asynchronous: their answers arrive in any order, or not at all.         *)
(*                                                                         *)
(* An INSERT draws its id and becomes visible in two steps; on SQLite the  *)
(* single connection (MaxOpen = 1) makes ids become visible in order.      *)
(***************************************************************************)
EXTENDS Integers, FiniteSets, FiniteSetsExt

CONSTANTS MaxId,    \* bound: messages of the chat
          MaxOpen,  \* INSERTs under way at once: connections of the pool
          MaxLoads  \* bound: loads, the first and the reloads

ASSUME ChatPollingAssumption ==
    /\ MaxId \in Nat
    /\ MaxOpen \in Nat \ {0}
    /\ MaxLoads \in Nat \ {0}

VARIABLES
    (* the server *)
    nextId,      \* the next value of the id sequence
    open,        \* ids of INSERTs not yet visible
    visible,     \* ids of the rows of messages
    (* the screen *)
    shown,       \* how often each message is in _messages
    last,        \* _lastMessageId
    load,        \* the load under way, or how the latest one ended
    loadReply,   \* ids it was answered with
    loads,       \* loads started
    poll,        \* the poll under way
    polling,     \* the flag _polling
    since,       \* the id it asked above
    pollReply,   \* ids it was answered with
    send,        \* the POST under way; _sending is send # "idle"
    sent,        \* the id it drew
    foreground,  \* the app is resumed
    timer,       \* _pollTimer is active
    (* history *)
    raced,       \* requests of the screen overlapped, or ids came out of order
    clean        \* nothing of the kind since the latest load started

server  == <<nextId, open, visible>>
content == <<shown, last>>
loadVars == <<load, loadReply, loads>>
pollVars == <<poll, polling, since, pollReply>>
sendVars == <<send, sent>>
app     == <<foreground, timer>>
races   == <<raced, clean>>
vars == <<server, content, loadVars, pollVars, sendVars, app, races>>

Ids == 1..MaxId
-----------------------------------------------------------------------------
(* What the client and the server compute.                                 *)

\* _maxMessageId starts from _lastMessageId.
MaxMessageIdOfReply(ids) == Max(ids \cup {0})
MaxMessageId(ids) == Max(ids \cup {last})

\* messagesForChatSince, or the whole history when since is 0.
NewerThanInclusive(n) == {i \in visible : n = 0 \/ i >= n}
NewerThan(n) == {i \in visible : n = 0 \/ i > n}

Append(ids) == shown' = [i \in Ids |-> shown[i] + IF i \in ids THEN 1 ELSE 0]

Loading == load \in {"sent", "answered"}
Busy == Loading \/ poll # "idle" \/ send # "idle"

\* A request of the screen starts while another is under way.
NoteOverlap ==
    /\ raced' = (raced \/ Busy)
    /\ clean' = (clean /\ ~Busy)
-----------------------------------------------------------------------------
\* The screen opens: initState starts the first load.
Init ==
    /\ open = {}
    /\ \E n \in 0..MaxId : visible = 1..n /\ nextId = n + 1
    /\ shown = [i \in Ids |-> 0] /\ last = 0
    /\ load = "sent" /\ loadReply = {} /\ loads = 1
    /\ poll = "idle" /\ polling = FALSE /\ since = 0 /\ pollReply = {}
    /\ send = "idle" /\ sent = 0
    /\ foreground = TRUE /\ timer = FALSE
    /\ raced = FALSE /\ clean = TRUE

\* The server starts the INSERT of a message: the peer's, one of a POST this
\* screen has given up on, or (own) the POST it waits for.
BeginInsert(own) ==
    /\ nextId <= MaxId
    /\ Cardinality(open) < MaxOpen
    /\ open' = open \cup {nextId}
    /\ nextId' = nextId + 1
    /\ IF own THEN send = "posted" /\ send' = "open" /\ sent' = nextId
              ELSE UNCHANGED sendVars
    /\ UNCHANGED <<visible, content, loadVars, pollVars, app, races>>

\* The row becomes visible; the screen's own POST is answered with it.
CommitInsert(i) ==
    /\ i \in open
    /\ open' = open \ {i}
    /\ visible' = visible \cup {i}
    /\ IF send = "open" /\ sent = i THEN send' = "answered" ELSE UNCHANGED send
    /\ LET late == \E j \in visible : j > i
       IN  raced' = (raced \/ late) /\ clean' = (clean /\ ~late)
    /\ UNCHANGED <<nextId, sent, content, loadVars, pollVars, app>>

\* Pull to refresh, or the retry of a failed load.
StartLoad ==
    /\ foreground
    /\ load = "failed" \/ (load = "done" /\ \E i \in Ids : shown[i] > 0)
    /\ loads < MaxLoads
    /\ load' = "sent"
    /\ loads' = loads + 1
    /\ raced' = (raced \/ Busy)
    /\ clean' = ~Busy
    /\ UNCHANGED <<server, content, loadReply, pollVars, sendVars, app>>

ServeLoad ==
    /\ load = "sent"
    /\ load' = "answered"
    /\ loadReply' = visible
    /\ UNCHANGED <<server, content, loads, pollVars, sendVars, app, races>>

\* A failed query is answered with an empty list.
ServeLoadFailing ==
    /\ load = "sent"
    /\ load' = "answered"
    /\ loadReply' = {}
    /\ clean' = FALSE
    /\ UNCHANGED <<server, content, loads, pollVars, sendVars, app, raced>>

\* The reply replaces the list, and polling starts, whatever the app's state.
ApplyLoad ==
    /\ load = "answered"
    /\ load' = "done"
    /\ shown' = [i \in Ids |-> IF i \in loadReply THEN 1 ELSE 0]
    /\ last' = MaxMessageId(loadReply)
    /\ timer' = TRUE
    /\ raced' = ~clean
    /\ loadReply' = {}
    /\ UNCHANGED <<server, loads, pollVars, sendVars, foreground, clean>>

FailLoad ==
    /\ Loading
    /\ load' = "failed"
    /\ loadReply' = {}
    /\ UNCHANGED <<server, content, loads, pollVars, sendVars, app, races>>

\* _poll: nothing if a poll is under way.
Poll ==
    IF polling
    THEN UNCHANGED <<pollVars, races>>
    ELSE /\ poll' = "sent" /\ polling' = TRUE
         /\ since' = last
         /\ NoteOverlap
         /\ UNCHANGED pollReply

TimerFires ==
    /\ timer
    /\ ~polling
    /\ Poll
    /\ UNCHANGED <<server, content, loadVars, sendVars, app>>

Resume ==
    /\ ~foreground
    /\ foreground' = TRUE
    /\ timer' = TRUE
    /\ Poll
    /\ UNCHANGED <<server, content, loadVars, sendVars>>

Pause ==
    /\ foreground
    /\ foreground' = FALSE
    /\ timer' = FALSE
    /\ UNCHANGED <<server, content, loadVars, pollVars, sendVars, races>>

ServePoll ==
    /\ poll = "sent"
    /\ poll' = "answered"
    /\ pollReply' = NewerThan(since)
    /\ UNCHANGED <<server, content, loadVars, polling, since, sendVars, app, races>>

\* The new messages are appended; the flag is reset in `finally'.
ApplyPoll ==
    /\ poll = "answered"
    /\ Append(pollReply)
    /\ last' = IF pollReply = {} THEN last ELSE MaxMessageId(pollReply)
    /\ poll' = "idle" /\ polling' = FALSE
    /\ since' = 0 /\ pollReply' = {}
    /\ UNCHANGED <<server, loadVars, sendVars, app, races>>

\* A transient failure, a timeout, or a reply emptied by a failed query.
FailPollKeepingFlag ==
    /\ poll # "idle"
    /\ poll' = "idle"
    /\ since' = 0 /\ pollReply' = {}
    /\ UNCHANGED <<server, content, loadVars, polling, sendVars, app, races>>
FailPoll ==
    /\ poll # "idle"
    /\ poll' = "idle" /\ polling' = FALSE
    /\ since' = 0 /\ pollReply' = {}
    /\ UNCHANGED <<server, content, loadVars, sendVars, app, races>>

\* The user sends a text.
StartSend ==
    /\ foreground
    /\ send = "idle"
    /\ nextId <= MaxId
    /\ send' = "posted"
    /\ NoteOverlap
    /\ UNCHANGED <<server, content, loadVars, pollVars, sent, app>>

\* The stored message is appended and the watermark moves to its id, past any
\* message the screen has not been told of.
ApplySend ==
    /\ send = "answered"
    /\ send' = "idle" /\ sent' = 0
    /\ Append({sent})
    /\ last' = MaxMessageId({sent})
    /\ raced' = (raced \/ \E i \in visible : last < i /\ i < sent)
    /\ UNCHANGED <<server, loadVars, pollVars, app, clean>>

\* The client gives up; the server may have stored the message, or may yet.
FailSend ==
    /\ send # "idle"
    /\ send' = "idle" /\ sent' = 0
    /\ UNCHANGED <<server, content, loadVars, pollVars, app, races>>

Next ==
    \/ \E own \in BOOLEAN : BeginInsert(own)
    \/ \E i \in open : CommitInsert(i)
    \/ StartLoad \/ ServeLoad \/ ServeLoadFailing \/ ApplyLoad \/ FailLoad
    \/ TimerFires \/ Resume \/ Pause \/ ServePoll \/ ApplyPoll \/ FailPoll
    \/ StartSend \/ ApplySend \/ FailSend

Spec == Init /\ [][Next]_vars

\* The server ends its INSERTs, the timer fires, and polls that are tried for
\* ever are not all lost.
FairSpec ==
    /\ Spec
    /\ \A i \in Ids : WF_vars(CommitInsert(i))
    /\ WF_vars(TimerFires)
    /\ SF_vars(ServePoll) /\ SF_vars(ApplyPoll)
-----------------------------------------------------------------------------
(* Correctness.                                                            *)

\* Types; the flag says whether a poll is under way.
TypeOK ==
    /\ nextId \in 1..(MaxId + 1)
    /\ open \subseteq Ids /\ visible \subseteq Ids
    /\ shown \in [Ids -> Nat]
    /\ last \in 0..MaxId
    /\ load \in {"sent", "answered", "done", "failed"} /\ loadReply \subseteq Ids
    /\ loads \in 1..MaxLoads
    /\ poll \in {"idle", "sent", "answered"} /\ polling = (poll # "idle")
    /\ since \in 0..MaxId /\ pollReply \subseteq Ids
    /\ send \in {"idle", "posted", "open", "answered"} /\ sent \in 0..MaxId
    /\ foreground \in BOOLEAN /\ timer \in BOOLEAN
    /\ raced \in BOOLEAN /\ clean \in BOOLEAN

\* The screen shows stored messages only, and its watermark covers all it
\* shows, however answers are reordered: no later poll repeats one of them.
WatermarkCovers ==
    \A i \in Ids : shown[i] > 0 => i \in visible /\ i <= last

\* A screen whose requests did not overlap since a good load, and to which no
\* message became visible behind the watermark, shows every message up to the
\* watermark exactly once.
CleanScreenExact ==
    ~raced => \A i \in visible : i <= last => shown[i] = 1

\* While the app stays in front, polling brings the watermark up to every
\* stored message, whatever fails in between.
WatermarkCatchesUp ==
    <>[](foreground /\ timer) => \A i \in Ids : (i \in visible) ~> (last >= i)
=============================================================================
