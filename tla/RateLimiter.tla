----------------------------- MODULE RateLimiter -----------------------------
(***************************************************************************)
(* The per-client token bucket in front of the login and money-moving      *)
(* requests (ratelimit.go): ipRateLimiter.allow finds or creates the       *)
(* client's bucket under the limiter's mutex, lets the mutex go and calls  *)
(* tokenBucket.allow, which refills and spends under the bucket's own      *)
(* mutex.  Requests of one client interleave between the two.              *)
(*                                                                         *)
(* Tokens are counted in fixed parts of a token and time in ticks of the   *)
(* monotonic clock, so that the refill is exact; the code's float64 rounds *)
(* it.  The model has the requests rateLimitMW matches and no others.      *)
(***************************************************************************)
EXTENDS Integers, FiniteSets

CONSTANTS Clients,   \* IP addresses
          Requests,  \* matched requests
          From,      \* the client of each request
          Cost,      \* parts per token; a request costs one token
          Rate,      \* parts refilled in a tick
          Burst,     \* capacity of a bucket, in parts
          MaxTime    \* bound: ticks

ASSUME RateLimiterAssumption ==
    /\ IsFiniteSet(Requests)
    /\ From \in [Requests -> Clients]
    /\ Cost \in Nat \ {0}
    /\ Rate \in Nat
    /\ Burst \in Nat
    /\ MaxTime \in Nat

VARIABLES now,         \* the clock
          known,       \* clients with a bucket in the map
          tokens,      \* parts in each bucket
          lastRefill,  \* lastRefillAt of each bucket
          pc,          \* the next step of each request
          verdict,     \* what the middleware decided
          decidedAt    \* history: when

buckets == <<known, tokens, lastRefill>>
vars == <<now, buckets, pc, verdict, decidedAt>>
-----------------------------------------------------------------------------
\* The bucket after `b.tokens += elapsed * refill', capped.
RefilledUncapped(c) == tokens[c] + Rate * (now - lastRefill[c])
RefilledNever(c) == tokens[c]
Refilled(c) ==
    LET refill == tokens[c] + Rate * (now - lastRefill[c])
    IN  IF refill > Burst THEN Burst ELSE refill

\* Every attempt moves the refill time, a refused one too.
RefillTimeOnAccept(c, accepted) == IF accepted THEN now ELSE lastRefill[c]
RefillTime(c, accepted) == now

Init ==
    /\ now = 0
    /\ known = {}
    /\ tokens = [c \in Clients |-> 0]
    /\ lastRefill = [c \in Clients |-> 0]
    /\ pc = [r \in Requests |-> "idle"]
    /\ verdict = [r \in Requests |-> "none"]
    /\ decidedAt = [r \in Requests |-> 0]

Tick ==
    /\ now < MaxTime
    /\ now' = now + 1
    /\ UNCHANGED <<buckets, pc, verdict, decidedAt>>

\* ipRateLimiter.allow up to the release of its mutex: a client's first
\* request creates a full bucket.
FindBucket(r) ==
    LET c == From[r]
    IN  /\ pc[r] = "idle"
        /\ pc' = [pc EXCEPT ![r] = "bucket"]
        /\ IF c \in known
           THEN UNCHANGED buckets
           ELSE /\ known' = known \cup {c}
                /\ tokens' = [tokens EXCEPT ![c] = Burst]
                /\ lastRefill' = [lastRefill EXCEPT ![c] = now]
        /\ UNCHANGED <<now, verdict, decidedAt>>

\* tokenBucket.allow: refill, then spend one token if there is one.
Decide(r) ==
    LET c        == From[r]
        accepted == Refilled(c) >= Cost
    IN  /\ pc[r] = "bucket"
        /\ pc' = [pc EXCEPT ![r] = "done"]
        /\ tokens' = [tokens EXCEPT ![c] =
                         IF accepted THEN Refilled(c) - Cost ELSE Refilled(c)]
        /\ lastRefill' = [lastRefill EXCEPT ![c] = RefillTime(c, accepted)]
        /\ verdict' = [verdict EXCEPT ![r] = IF accepted THEN "passed" ELSE "limited"]
        /\ decidedAt' = [decidedAt EXCEPT ![r] = now]
        /\ UNCHANGED <<now, known>>

Next == Tick \/ \E r \in Requests : FindBucket(r) \/ Decide(r)

Spec == Init /\ [][Next]_vars
-----------------------------------------------------------------------------
(* Correctness.                                                            *)

\* The requests of client c passed at time s or later.
PassedSince(c, s) ==
    {r \in Requests : From[r] = c /\ verdict[r] = "passed" /\ decidedAt[r] >= s}

\* Those passed from time s to time t.
PassedWithin(c, s, t) == {r \in PassedSince(c, s) : decidedAt[r] <= t}

\* Types; a bucket never holds more than its capacity nor less than nothing.
TypeOK ==
    /\ now \in 0..MaxTime
    /\ known \subseteq Clients
    /\ tokens \in [Clients -> 0..Burst]
    /\ lastRefill \in [Clients -> 0..MaxTime]
    /\ pc \in [Requests -> {"idle", "bucket", "done"}]
    /\ verdict \in [Requests -> {"none", "passed", "limited"}]
    /\ decidedAt \in [Requests -> 0..MaxTime]

\* In every window of time, wherever it starts, a client passes at most the
\* burst plus what the window refills ("burst of 3 immediately, then refills
\* at 1 request per 10s per IP", server.go).
WindowBound ==
    \A c \in Clients : \A s, t \in 0..now :
        s <= t => Cost * Cardinality(PassedWithin(c, s, t)) <= Burst + Rate * (t - s)

\* Nobody is limited without cause: a limited request is one that its client's
\* own passed requests, over some window ending then, leave no room for.
LimitedOnlyAtBound ==
    \A r \in Requests : verdict[r] = "limited" =>
        \E s \in 0..decidedAt[r] :
            Cost * Cardinality(PassedWithin(From[r], s, decidedAt[r])) + Cost
                > Burst + Rate * (decidedAt[r] - s)
=============================================================================
