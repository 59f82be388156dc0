---------------------------- MODULE LimitsProofs ----------------------------
(***************************************************************************)
(* The two limits every request meets on its way in, for every value of    *)
(* their constants: the token bucket in front of the handlers              *)
(* (RateLimiter) and the connection pool behind them (ConnPool).           *)
(*                                                                         *)
(* The bucket decides exactly as its window rule says.  The invariant ties *)
(* it to the history: what it holds now is the least, over all starts s of *)
(* a window ending now, of what the window allows less what was passed in  *)
(* it.  Room says it is no more than any of them, Tight that it equals     *)
(* one.                                                                    *)
(*                                                                         *)
(* The pool cannot lock up while fewer goroutines list chats than it has   *)
(* connections; once it has locked up, nothing frees it.                   *)
(***************************************************************************)
EXTENDS RateLimiter, ConnPool, FiniteSetTheorems, TLAPS

\* Where a request is says whether its client is known and it was decided.
History ==
    \A r \in Requests :
        /\ pc[r] # "idle" => From[r] \in known
        /\ verdict[r] # "none" <=> pc[r] = "done"
        /\ decidedAt[r] <= now

Room ==
    \A c \in known : \A s \in 0..now :
        Cost * Cardinality(PassedSince(c, s)) + Refilled(c) <= Burst + Rate * (now - s)

Tight ==
    \A c \in known : \E s \in 0..now :
        Cost * Cardinality(PassedSince(c, s)) + Refilled(c) = Burst + Rate * (now - s)

IInv ==
    /\ TypeOK
    /\ \A c \in Clients : lastRefill[c] <= now
    /\ History
    /\ Room
    /\ Tight
    /\ WindowBound
    /\ LimitedOnlyAtBound
-----------------------------------------------------------------------------
(* Arithmetic and counting.                                                *)

\* One more factor.
LEMMA OneMore ==
    ASSUME NEW a \in Nat, NEW b \in Int
    PROVE  a * (b + 1) = a * b + a
OBVIOUS

\* Products of naturals are natural and grow with a factor.
LEMMA ProductGrows ==
    ASSUME NEW a \in Nat, NEW b \in Nat, NEW c \in Nat, b <= c
    PROVE  a * b \in Nat /\ a * c \in Nat /\ a * b <= a * c
OBVIOUS

\* The passed requests are finitely many.
LEMMA PassedFinite ==
    ASSUME NEW c \in Clients, NEW s \in Nat
    PROVE  /\ IsFiniteSet(PassedSince(c, s)) /\ Cardinality(PassedSince(c, s)) \in Nat
           /\ Cost * Cardinality(PassedSince(c, s)) \in Nat
<1>1. PassedSince(c, s) \subseteq Requests
  BY DEF PassedSince
<1>2. IsFiniteSet(PassedSince(c, s)) /\ Cardinality(PassedSince(c, s)) \in Nat
  BY <1>1, RateLimiterAssumption, FS_Subset, FS_CardinalityType
<1> QED
  BY <1>2, ProductGrows, RateLimiterAssumption

\* A refilled bucket is within its capacity.
LEMMA RefilledType ==
    ASSUME TypeOK, NEW c \in Clients, lastRefill[c] <= now
    PROVE  Refilled(c) \in 0..Burst
<1>1. now - lastRefill[c] \in Nat
  BY RateLimiterAssumption DEF TypeOK
<1>2. Rate * (now - lastRefill[c]) \in Nat
  BY <1>1, ProductGrows, RateLimiterAssumption
<1> QED
  BY <1>2, RateLimiterAssumption DEF Refilled, TypeOK

\* Up to now, the window that ends now holds everything passed since its start.
LEMMA WindowToNow ==
    ASSUME History, TypeOK, NEW c \in Clients, NEW s \in 0..now
    PROVE  PassedWithin(c, s, now) = PassedSince(c, s)
BY DEF History, PassedWithin, PassedSince, TypeOK

\* What a bucket holds bounds the windows that end now.
LEMMA RoomBoundsWindows ==
    ASSUME IInv
    PROVE  \A c \in Clients : \A s \in 0..now :
              Cost * Cardinality(PassedSince(c, s)) <= Burst + Rate * (now - s)
<1> SUFFICES ASSUME NEW c \in Clients, NEW s \in 0..now
             PROVE  Cost * Cardinality(PassedSince(c, s)) <= Burst + Rate * (now - s)
  OBVIOUS
<1>1. PassedWithin(c, s, now) = PassedSince(c, s) /\ s <= now /\ now \in 0..now
  BY WindowToNow DEF IInv, TypeOK
<1> QED
  BY <1>1 DEF IInv, WindowBound
-----------------------------------------------------------------------------
\* The clock starts with no bucket and no verdict.
LEMMA InitIInv == Init => IInv
<1> SUFFICES ASSUME Init
             PROVE  IInv
  OBVIOUS
<1>1. TypeOK /\ History /\ Room /\ Tight /\ LimitedOnlyAtBound
      /\ \A c \in Clients : lastRefill[c] <= now
  BY RateLimiterAssumption DEF Init, TypeOK, History, Room, Tight, LimitedOnlyAtBound
<1>2. WindowBound
  <2> SUFFICES ASSUME NEW c \in Clients, NEW s \in 0..now, NEW t \in 0..now, s <= t
               PROVE  Cost * Cardinality(PassedWithin(c, s, t)) <= Burst + Rate * (t - s)
    BY DEF WindowBound
  <2>1. PassedWithin(c, s, t) = {}
    BY DEF Init, PassedWithin, PassedSince
  <2>2. Cost * Cardinality(PassedWithin(c, s, t)) = 0
    BY <2>1, FS_EmptySet, RateLimiterAssumption
  <2>3. s = 0 /\ t = 0
    BY DEF Init
  <2> QED
    BY <2>2, <2>3, RateLimiterAssumption
<1> QED
  BY <1>1, <1>2 DEF IInv

\* The clock ticks: every bucket gains what every window gains, or is full.
LEMMA TickIInv ==
    ASSUME IInv, Tick
    PROVE  IInv'
<1> USE RateLimiterAssumption
<1>0. /\ now \in 0..MaxTime /\ now' = now + 1 /\ now' \in 0..MaxTime
      /\ UNCHANGED <<known, tokens, lastRefill, pc, verdict, decidedAt>>
  BY DEF Tick, buckets, IInv, TypeOK
<1>1. TypeOK' /\ (\A c \in Clients : lastRefill[c] <= now)' /\ History'
  BY <1>0 DEF IInv, TypeOK, History
<1>2. \A c \in Clients, s \in Nat : PassedSince(c, s)' = PassedSince(c, s)
  BY <1>0 DEF PassedSince
<1>3. ASSUME NEW c \in known
      PROVE  /\ Refilled(c)' = IF Refilled(c) + Rate > Burst THEN Burst ELSE Refilled(c) + Rate
             /\ c \in Clients /\ Refilled(c) \in 0..Burst
  <2>1. c \in Clients /\ tokens[c] \in 0..Burst /\ lastRefill[c] \in Nat /\ lastRefill[c] <= now
    BY DEF IInv, TypeOK
  <2>2. Rate * (now - lastRefill[c] + 1) = Rate * (now - lastRefill[c]) + Rate
    BY <1>0, <2>1, OneMore
  <2>3. now' - lastRefill'[c] = now - lastRefill[c] + 1
    BY <1>0, <2>1
  <2>4. Refilled(c) \in 0..Burst
    BY <2>1, RefilledType DEF IInv
  <2>5. Rate * (now - lastRefill[c]) \in Int
    BY <1>0, <2>1
  <2> QED
    BY <1>0, <2>1, <2>2, <2>3, <2>4, <2>5 DEF Refilled
<1>4. \A c \in Clients : PassedSince(c, now') = {}
  BY <1>0 DEF IInv, History, PassedSince, TypeOK
<1>5. \A s \in 0..now : /\ Rate * (now' - s) = Rate * (now - s) + Rate
                        /\ Rate * (now - s) \in Int
  <2> TAKE s \in 0..now
  <2>1. now - s \in Int /\ now' - s = now - s + 1
    BY <1>0
  <2> QED
    BY <2>1, OneMore
<1>6. Rate * (now' - now') = 0
  BY <1>0
<1>7. \A c \in Clients : Cost * Cardinality(PassedSince(c, now')) = 0
  BY <1>4, FS_EmptySet
<1>8. \A s \in 0..now' : s \in 0..now \/ s = now'
  BY <1>0
<1>9. \A c \in Clients, s \in 0..now' : Cost * Cardinality(PassedSince(c, s)) \in Nat
  BY <1>0, PassedFinite
<1>10. Room'
  <2> SUFFICES ASSUME NEW c \in known, NEW s \in 0..now'
               PROVE  Cost * Cardinality(PassedSince(c, s)) + Refilled(c)'
                         <= Burst + Rate * (now' - s)
    BY <1>0, <1>2, <1>3 DEF Room
  <2>1. CASE s \in 0..now
    <3>1. Cost * Cardinality(PassedSince(c, s)) + Refilled(c) <= Burst + Rate * (now - s)
      BY <2>1 DEF IInv, Room
    <3> QED
      BY <1>3, <1>5, <1>9, <2>1, <3>1
  <2>2. CASE s = now'
    <3>1. Cost * Cardinality(PassedSince(c, s)) = 0
      BY <1>3, <1>7, <2>2
    <3>2. Rate * (now' - s) = 0
      BY <1>6, <2>2
    <3> QED
      BY <1>3, <3>1, <3>2
  <2> QED
    BY <1>8, <2>1, <2>2
<1>11. Tight'
  <2> SUFFICES ASSUME NEW c \in known
               PROVE  \E s \in 0..now' :
                         Cost * Cardinality(PassedSince(c, s)) + Refilled(c)'
                            = Burst + Rate * (now' - s)
    BY <1>0, <1>2, <1>3 DEF Tight
  <2>1. CASE Refilled(c) + Rate > Burst
    <3>1. now' \in 0..now'
      BY <1>0
    <3> QED
      BY <1>3, <1>6, <1>7, <2>1, <3>1
  <2>2. CASE ~(Refilled(c) + Rate > Burst)
    <3>1. PICK s \in 0..now :
             Cost * Cardinality(PassedSince(c, s)) + Refilled(c) = Burst + Rate * (now - s)
      BY DEF IInv, Tight
    <3>2. s \in 0..now'
      BY <1>0
    <3>3. Cost * Cardinality(PassedSince(c, s)) + Refilled(c)' = Burst + Rate * (now' - s)
      BY <1>3, <1>5, <1>9, <2>2, <3>1, <3>2
    <3> QED
      BY <3>2, <3>3
  <2> QED
    BY <2>1, <2>2
<1>12. WindowBound'
  <2> SUFFICES ASSUME NEW c \in Clients, NEW s \in 0..now', NEW t \in 0..now', s <= t
               PROVE  Cost * Cardinality(PassedWithin(c, s, t)) <= Burst + Rate * (t - s)
    BY <1>0 DEF WindowBound, PassedWithin, PassedSince
  <2>1. CASE t \in 0..now
    <3>1. s \in 0..now
      BY <1>0, <2>1
    <3> QED
      BY <2>1, <3>1 DEF IInv, WindowBound
  <2>2. CASE t = now' /\ s \in 0..now
    <3>1. PassedWithin(c, s, t) = PassedSince(c, s)
      BY <1>0, <2>2 DEF IInv, History, PassedWithin, PassedSince, TypeOK
    <3>2. Cost * Cardinality(PassedSince(c, s)) <= Burst + Rate * (now - s)
      BY <2>2, RoomBoundsWindows
    <3> QED
      BY <1>5, <1>9, <2>2, <3>1, <3>2
  <2>3. CASE t = now' /\ s = now'
    <3>1. PassedWithin(c, s, t) = {}
      BY <1>4, <2>3 DEF PassedWithin
    <3>2. Cost * Cardinality(PassedWithin(c, s, t)) = 0
      BY <3>1, FS_EmptySet
    <3> QED
      BY <1>6, <2>3, <3>2
  <2> QED
    BY <1>8, <2>1, <2>2, <2>3
<1>13. LimitedOnlyAtBound'
  BY <1>0 DEF IInv, LimitedOnlyAtBound, PassedWithin, PassedSince
<1> QED
  BY <1>1, <1>10, <1>11, <1>12, <1>13 DEF IInv

\* A client's first request creates a full bucket; nothing of it was passed yet.
LEMMA FindBucketIInv ==
    ASSUME IInv, NEW r \in Requests, FindBucket(r)
    PROVE  IInv'
<1> USE RateLimiterAssumption
<1> DEFINE c == From[r]
<1>0. /\ c \in Clients /\ now \in 0..MaxTime /\ pc[r] = "idle"
      /\ pc' = [pc EXCEPT ![r] = "bucket"]
      /\ UNCHANGED <<now, verdict, decidedAt>>
      /\ \/ c \in known /\ UNCHANGED <<known, tokens, lastRefill>>
         \/ /\ c \notin known
            /\ known' = known \cup {c}
            /\ tokens' = [tokens EXCEPT ![c] = Burst]
            /\ lastRefill' = [lastRefill EXCEPT ![c] = now]
  BY DEF FindBucket, buckets, IInv, TypeOK
<1>1. TypeOK' /\ (\A d \in Clients : lastRefill[d] <= now)'
  BY <1>0 DEF IInv, TypeOK
<1>2. History'
  BY <1>0 DEF IInv, TypeOK, History
<1>3. /\ \A d \in Clients, s \in Nat : PassedSince(d, s)' = PassedSince(d, s)
      /\ \A d \in Clients, s \in Nat, t \in Nat : PassedWithin(d, s, t)' = PassedWithin(d, s, t)
  BY <1>0 DEF PassedSince, PassedWithin
<1>4. WindowBound'
  BY <1>0, <1>3 DEF IInv, WindowBound
<1>5. LimitedOnlyAtBound'
  BY <1>0 DEF IInv, LimitedOnlyAtBound, PassedWithin, PassedSince
<1>6. \A d \in known : Refilled(d)' = Refilled(d)
  BY <1>0 DEF Refilled, IInv, TypeOK
<1>7. CASE c \in known
  <2>1. known' = known
    BY <1>0, <1>7
  <2>2. Room' /\ Tight'
    BY <1>0, <1>3, <1>6, <2>1 DEF IInv, Room, Tight, TypeOK
  <2> QED
    BY <1>1, <1>2, <1>4, <1>5, <2>2 DEF IInv
<1>8. CASE c \notin known
  <2>1. /\ known' = known \cup {c} /\ tokens'[c] = Burst /\ lastRefill'[c] = now
    BY <1>0, <1>8 DEF IInv, TypeOK
  <2>2. Rate * (now - now) = 0
    BY <1>0
  <2>3. Refilled(c)' = Burst
    BY <1>0, <2>1, <2>2 DEF Refilled
  <2>4. \A s \in Nat : PassedSince(c, s) = {}
    BY <1>8 DEF PassedSince, IInv, History, TypeOK
  <2>5. \A s \in Nat : Cost * Cardinality(PassedSince(c, s)) = 0
    BY <2>4, FS_EmptySet
  <2>6. \A s \in 0..now : Rate * (now - s) \in Nat
    <3> TAKE s \in 0..now
    <3>1. now - s \in Nat
      BY <1>0
    <3> QED
      BY <3>1, ProductGrows
  <2>7. Room'
    <3> SUFFICES ASSUME NEW d \in known', NEW s \in 0..now
                 PROVE  Cost * Cardinality(PassedSince(d, s)) + Refilled(d)'
                           <= Burst + Rate * (now - s)
      BY <1>0, <1>1, <1>3 DEF Room, TypeOK
    <3>1. CASE d = c
      BY <2>3, <2>5, <2>6, <3>1, <1>0
    <3>2. CASE d \in known
      BY <1>6, <3>2 DEF IInv, Room
    <3> QED
      BY <2>1, <3>1, <3>2
  <2>8. Tight'
    <3> SUFFICES ASSUME NEW d \in known'
                 PROVE  \E s \in 0..now :
                           Cost * Cardinality(PassedSince(d, s)) + Refilled(d)'
                              = Burst + Rate * (now - s)
      BY <1>0, <1>1, <1>3 DEF Tight, TypeOK
    <3>1. CASE d = c
      <4>1. Cost * Cardinality(PassedSince(d, now)) + Refilled(d)' = Burst + Rate * (now - now)
        BY <1>0, <2>2, <2>3, <2>5, <3>1
      <4> QED
        BY <1>0, <4>1
    <3>2. CASE d \in known
      BY <1>6, <3>2 DEF IInv, Tight
    <3> QED
      BY <2>1, <3>1, <3>2
  <2> QED
    BY <1>1, <1>2, <1>4, <1>5, <2>7, <2>8 DEF IInv
<1> QED
  BY <1>7, <1>8

\* The bucket decides: a passed request takes from the bucket what it takes
\* from every window, and an empty bucket shows a window that is used up.
LEMMA DecideIInv ==
    ASSUME IInv, NEW r \in Requests, Decide(r)
    PROVE  IInv'
<1> USE RateLimiterAssumption
<1> DEFINE c == From[r]
           accepted == Refilled(c) >= Cost
<1>0. /\ c \in Clients /\ c \in known /\ now \in 0..MaxTime /\ pc[r] = "bucket"
      /\ verdict[r] = "none" /\ Refilled(c) \in 0..Burst
      /\ UNCHANGED <<now, known>>
  BY RefilledType DEF Decide, IInv, TypeOK, History
<1>1. /\ pc' = [pc EXCEPT ![r] = "done"]
      /\ tokens' = [tokens EXCEPT ![c] =
                       IF accepted THEN Refilled(c) - Cost ELSE Refilled(c)]
      /\ lastRefill' = [lastRefill EXCEPT ![c] = now]
      /\ verdict' = [verdict EXCEPT ![r] = IF accepted THEN "passed" ELSE "limited"]
      /\ decidedAt' = [decidedAt EXCEPT ![r] = now]
  BY DEF Decide, RefillTime
<1>2. /\ tokens'[c] = IF accepted THEN Refilled(c) - Cost ELSE Refilled(c)
      /\ tokens'[c] \in 0..Burst /\ lastRefill'[c] = now
      /\ tokens' \in [Clients -> 0..Burst]
  BY <1>0, <1>1 DEF IInv, TypeOK
<1>3. TypeOK' /\ (\A d \in Clients : lastRefill[d] <= now)'
  BY <1>0, <1>1, <1>2 DEF IInv, TypeOK
<1>4. History'
  BY <1>0, <1>1 DEF IInv, TypeOK, History
<1>5. Refilled(c)' = tokens'[c]
  <2>1. Rate * (now - now) = 0
    BY <1>0
  <2> QED
    BY <1>0, <1>2, <2>1 DEF Refilled
<1>6. \A d \in Clients \ {c} : Refilled(d)' = Refilled(d)
  BY <1>0, <1>1 DEF Refilled, IInv, TypeOK
<1>7. \A d \in Clients \ {c}, s \in Nat : PassedSince(d, s)' = PassedSince(d, s)
  BY <1>0, <1>1 DEF PassedSince, IInv, TypeOK
<1>8. \A s \in 0..now : PassedSince(c, s)' = IF accepted THEN PassedSince(c, s) \cup {r}
                                                       ELSE PassedSince(c, s)
  <2> TAKE s \in 0..now
  <2>1. CASE accepted
    <3>1. verdict'[r] = "passed" /\ decidedAt'[r] = now /\ s <= now
      BY <1>0, <1>1, <2>1 DEF IInv, TypeOK
    <3>2. \A q \in Requests \ {r} : verdict'[q] = verdict[q] /\ decidedAt'[q] = decidedAt[q]
      BY <1>1 DEF IInv, TypeOK
    <3> QED
      BY <1>0, <2>1, <3>1, <3>2 DEF PassedSince
  <2>2. CASE ~accepted
    <3>1. verdict'[r] = "limited"
      BY <1>0, <1>1, <2>2 DEF IInv, TypeOK
    <3>2. \A q \in Requests \ {r} : verdict'[q] = verdict[q] /\ decidedAt'[q] = decidedAt[q]
      BY <1>1 DEF IInv, TypeOK
    <3> QED
      BY <1>0, <2>2, <3>1, <3>2 DEF PassedSince
  <2> QED
    BY <2>1, <2>2
<1>9. \A s \in 0..now :
         /\ Cost * Cardinality(PassedSince(c, s)) \in Nat
         /\ Cost * Cardinality(PassedSince(c, s))' + Refilled(c)'
               = Cost * Cardinality(PassedSince(c, s)) + Refilled(c)
  <2> TAKE s \in 0..now
  <2>1. /\ IsFiniteSet(PassedSince(c, s)) /\ Cardinality(PassedSince(c, s)) \in Nat
        /\ Cost * Cardinality(PassedSince(c, s)) \in Nat
    BY <1>0, PassedFinite
  <2>2. CASE accepted
    <3>1. r \notin PassedSince(c, s)
      BY <1>0 DEF PassedSince
    <3>2. Cardinality(PassedSince(c, s) \cup {r}) = Cardinality(PassedSince(c, s)) + 1
      BY <2>1, <3>1, FS_AddElement
    <3>3. Cost * Cardinality(PassedSince(c, s))' = Cost * Cardinality(PassedSince(c, s)) + Cost
      <4>1. Cardinality(PassedSince(c, s))' = Cardinality(PassedSince(c, s)) + 1
        BY <1>8, <2>2, <3>2
      <4>2. Cost * (Cardinality(PassedSince(c, s)) + 1)
               = Cost * Cardinality(PassedSince(c, s)) + Cost
        BY <2>1, OneMore
      <4> QED
        BY <4>1, <4>2
    <3>4. Refilled(c)' = Refilled(c) - Cost
      BY <1>2, <1>5, <2>2
    <3> QED
      BY <1>0, <2>1, <3>3, <3>4
  <2>3. CASE ~accepted
    BY <1>2, <1>5, <1>8, <2>1, <2>3
  <2> QED
    BY <2>2, <2>3
<1>10. Room'
  <2> SUFFICES ASSUME NEW d \in known, NEW s \in 0..now
               PROVE  Cost * Cardinality(PassedSince(d, s))' + Refilled(d)'
                         <= Burst + Rate * (now - s)
    BY <1>0 DEF Room
  <2>1. Cost * Cardinality(PassedSince(d, s)) + Refilled(d) <= Burst + Rate * (now - s)
    BY DEF IInv, Room
  <2>2. CASE d = c
    BY <1>9, <2>1, <2>2
  <2>3. CASE d # c
    <3>1. d \in Clients \ {c} /\ s \in Nat
      BY <1>0, <2>3 DEF IInv, TypeOK
    <3> QED
      BY <1>6, <1>7, <2>1, <3>1
  <2> QED
    BY <2>2, <2>3
<1>11. Tight'
  <2> SUFFICES ASSUME NEW d \in known
               PROVE  \E s \in 0..now : Cost * Cardinality(PassedSince(d, s))' + Refilled(d)'
                                           = Burst + Rate * (now - s)
    BY <1>0 DEF Tight
  <2>1. PICK s \in 0..now :
           Cost * Cardinality(PassedSince(d, s)) + Refilled(d) = Burst + Rate * (now - s)
    BY DEF IInv, Tight
  <2>2. CASE d = c
    BY <1>9, <2>1, <2>2
  <2>3. CASE d # c
    <3>1. d \in Clients \ {c} /\ s \in Nat
      BY <1>0, <2>3 DEF IInv, TypeOK
    <3> QED
      BY <1>6, <1>7, <2>1, <3>1
  <2> QED
    BY <2>2, <2>3
<1>12. WindowBound'
  <2> SUFFICES ASSUME NEW d \in Clients, NEW s \in 0..now, NEW t \in 0..now, s <= t
               PROVE  Cost * Cardinality(PassedWithin(d, s, t))' <= Burst + Rate * (t - s)
    BY <1>0 DEF WindowBound
  <2>1. CASE t = now /\ d = c
    <3>1. PassedWithin(d, s, t)' = PassedSince(d, s)'
      BY <1>0, <1>3, <1>4, <2>1 DEF History, PassedWithin, PassedSince, TypeOK
    <3>2. Cost * Cardinality(PassedSince(c, s)) + Refilled(c) <= Burst + Rate * (now - s)
      BY <1>0 DEF IInv, Room
    <3>3. Refilled(c)' \in Nat
      BY <1>2, <1>5
    <3>4. Cardinality(PassedSince(c, s))' \in Nat
      <4>1. IsFiniteSet(PassedSince(c, s))
        BY <1>0, PassedFinite
      <4>2. IsFiniteSet(PassedSince(c, s) \cup {r})
        BY <4>1, FS_AddElement
      <4> QED
        BY <1>8, <4>1, <4>2, FS_CardinalityType
    <3>5. Cost * Cardinality(PassedSince(c, s))' \in Nat
      BY <3>4, ProductGrows
    <3>6. Cost * Cardinality(PassedSince(c, s))' <= Burst + Rate * (now - s)
      BY <1>0, <1>9, <3>2, <3>3, <3>5
    <3> QED
      BY <2>1, <3>1, <3>6
  <2>2. CASE d # c \/ t < now
    <3>1. PassedWithin(d, s, t)' = PassedWithin(d, s, t)
      BY <1>0, <1>1, <2>2 DEF PassedWithin, PassedSince, IInv, TypeOK
    <3> QED
      BY <3>1 DEF IInv, WindowBound
  <2>3. t = now \/ t < now
    BY <1>0
  <2> QED
    BY <2>1, <2>2, <2>3
<1>13. LimitedOnlyAtBound'
  <2> DEFINE After(d, s, t) ==
               {p \in Requests : /\ From[p] = d /\ verdict'[p] = "passed"
                                 /\ decidedAt'[p] >= s /\ decidedAt'[p] <= t}
  <2> SUFFICES ASSUME NEW q \in Requests, verdict'[q] = "limited"
               PROVE  \E s \in 0..decidedAt'[q] :
                         Cost * Cardinality(After(From[q], s, decidedAt'[q])) + Cost
                             > Burst + Rate * (decidedAt'[q] - s)
    BY DEF LimitedOnlyAtBound, PassedWithin, PassedSince
  <2>1. CASE q = r
    <3>1. decidedAt'[q] = now /\ From[q] = c /\ ~accepted
      BY <1>0, <1>1, <2>1 DEF IInv, TypeOK
    <3>2. PICK s \in 0..now :
             Cost * Cardinality(PassedSince(c, s)) + Refilled(c) = Burst + Rate * (now - s)
      BY <1>0 DEF IInv, Tight
    <3>3. After(c, s, now) = PassedSince(c, s)
      <4>1. After(c, s, now) = PassedSince(c, s)'
        BY <1>0, <1>3, <1>4 DEF History, PassedSince, TypeOK
      <4> QED
        BY <1>8, <3>1, <4>1
    <3>4. Cost * Cardinality(PassedSince(c, s)) + Cost > Burst + Rate * (now - s)
      BY <1>0, <1>9, <3>1, <3>2
    <3> QED
      BY <3>1, <3>2, <3>3, <3>4
  <2>2. CASE q # r
    <3>1. verdict[q] = "limited" /\ decidedAt'[q] = decidedAt[q] /\ decidedAt[q] \in Nat
      BY <1>1, <2>2 DEF IInv, TypeOK
    <3>2. PICK s \in 0..decidedAt[q] :
             Cost * Cardinality(PassedWithin(From[q], s, decidedAt[q])) + Cost
                > Burst + Rate * (decidedAt[q] - s)
      BY <3>1 DEF IInv, LimitedOnlyAtBound
    <3> DEFINE Before == PassedWithin(From[q], s, decidedAt[q])
               Now    == After(From[q], s, decidedAt[q])
    <3>4. Before \subseteq Now
      BY <1>0, <1>1 DEF PassedWithin, PassedSince, IInv, TypeOK
    <3>5. IsFiniteSet(Now)
      BY FS_Subset
    <3>6. /\ Cardinality(Before) \in Nat /\ Cardinality(Now) \in Nat
          /\ Cardinality(Before) <= Cardinality(Now)
      BY <3>4, <3>5, FS_Subset, FS_CardinalityType
    <3>7. /\ Cost * Cardinality(Before) \in Nat /\ Cost * Cardinality(Now) \in Nat
          /\ Cost * Cardinality(Before) <= Cost * Cardinality(Now)
      BY <3>6, ProductGrows
    <3>8. Rate * (decidedAt[q] - s) \in Nat
      BY <3>1, ProductGrows
    <3>9. Cost * Cardinality(Now) + Cost > Burst + Rate * (decidedAt[q] - s)
      BY <3>2, <3>7, <3>8
    <3> QED
      BY <3>1, <3>2, <3>9
  <2> QED
    BY <2>1, <2>2
<1> QED
  BY <1>3, <1>4, <1>10, <1>11, <1>12, <1>13 DEF IInv

\* Every step keeps the invariant.
LEMMA NextIInv == IInv /\ [Next]_vars => IInv'
<1> SUFFICES ASSUME IInv, [Next]_vars
             PROVE  IInv'
  OBVIOUS
<1>1. CASE UNCHANGED vars
  <2>1. TypeOK' /\ (\A c \in Clients : lastRefill[c] <= now)' /\ History'
    BY <1>1 DEF vars, buckets, IInv, TypeOK, History
  <2>2. Room' /\ Tight'
    BY <1>1 DEF vars, buckets, IInv, Room, Tight, PassedSince, Refilled
  <2>3. WindowBound' /\ LimitedOnlyAtBound'
    BY <1>1 DEF vars, buckets, IInv, WindowBound, LimitedOnlyAtBound, PassedSince, PassedWithin
  <2> QED
    BY <2>1, <2>2, <2>3 DEF IInv
<1>2. CASE Next
  BY <1>2, TickIInv, FindBucketIInv, DecideIInv DEF Next
<1> QED
  BY <1>1, <1>2
-----------------------------------------------------------------------------
(* Results.                                                                *)

\* The strengthened invariant holds in every reachable state.
THEOREM Inductive == Spec => []IInv
BY InitIInv, NextIInv, PTL DEF Spec

\* Types; a bucket stays within its capacity.
THEOREM TypeCorrect == Spec => []TypeOK
BY Inductive, PTL DEF IInv

\* No window of time ever passes more than the burst plus its refill.
THEOREM WindowsBounded == Spec => []WindowBound
BY Inductive, PTL DEF IInv

\* A limited request is one some window leaves no room for.
THEOREM LimitsJustified == Spec => []LimitedOnlyAtBound
BY Inductive, PTL DEF IInv
-----------------------------------------------------------------------------
(* When the pool cannot lock up: fewer goroutines that list chats than      *)
(* connections.  Ten concurrent listings are enough to freeze Postgres, one *)
(* to freeze SQLite; the theorem says nothing less will.                    *)

Phases == {"idle", "waiting", "holding", "inner"}

\* What a blocked holder is: a goroutine inside a listing.
PoolInv ==
    /\ section \in [Handlers -> Nat]
    /\ phase \in [Handlers -> Phases]
    /\ inner \in [Handlers -> 0..MaxInner]
    /\ \A h \in Handlers :
        /\ inner[h] > 0 => Nested(h)
        /\ phase[h] = "inner" => inner[h] > 0
        /\ phase[h] \in {"idle", "waiting"} => inner[h] = 0

\* The pool starts empty.
LEMMA InitPoolInv == PoolInit => PoolInv
BY ConnPoolAssumption DEF PoolInit, PoolInv, Phases

\* Every step keeps it: only a nested section ever counts inner queries, and
\* a section ends when they are all done.
LEMMA NextPoolInv == PoolInv /\ [PoolNext]_poolVars => PoolInv'
<1> SUFFICES ASSUME PoolInv, [PoolNext]_poolVars
             PROVE  PoolInv'
  OBVIOUS
<1> USE ConnPoolAssumption DEF PoolInv, Phases
<1>1. ASSUME NEW h \in Handlers, Arrive(h)
      PROVE  PoolInv'
  BY <1>1 DEF Arrive, Nested
<1>2. ASSUME NEW h \in Handlers, Acquire(h)
      PROVE  PoolInv'
  BY <1>2 DEF Acquire, Nested
<1>3. ASSUME NEW h \in Handlers, AcquireInner(h)
      PROVE  PoolInv'
  BY <1>3 DEF AcquireInner, Nested, WantsInner
<1>4. ASSUME NEW h \in Handlers, ReleaseInner(h)
      PROVE  PoolInv'
  BY <1>4 DEF ReleaseInner, Nested
<1>5. ASSUME NEW h \in Handlers, Release(h)
      PROVE  PoolInv'
  <2>1. section' \in [Handlers -> Nat] /\ phase' \in [Handlers -> Phases]
    <3>1. \/ /\ section' = [section EXCEPT ![h] = section[h] + 1]
             /\ phase' = [phase EXCEPT ![h] = "waiting"]
          \/ /\ section' = [section EXCEPT ![h] = 0]
             /\ phase' = [phase EXCEPT ![h] = "idle"]
      BY <1>5, Zenon DEF Release
    <3>2. section[h] + 1 \in Nat
      OBVIOUS
    <3> QED
      BY <3>1, <3>2
  <2>2. UNCHANGED inner /\ inner[h] = 0
    BY <1>5 DEF Release
  <2>3. \A g \in Handlers \ {h} :
           section'[g] = section[g] /\ phase'[g] = phase[g] /\ (Nested(g) => Nested(g)')
    BY <1>5 DEF Release, Nested
  <2>4. phase'[h] # "inner"
    BY <1>5 DEF Release
  <2> QED
    BY <2>1, <2>2, <2>3, <2>4
<1>6. CASE UNCHANGED poolVars
  BY <1>6 DEF poolVars, Nested
<1> QED
  BY <1>1, <1>2, <1>3, <1>4, <1>5, <1>6 DEF PoolNext

\* If every holder waits for a second connection, each of them is a lister and
\* holds one connection, so one is left over.
LEMMA SpareConnection ==
    ASSUME PoolInv, Cardinality(Listers) < MaxConns,
           \A h \in Holders : WantsInner(h)
    PROVE  Free > 0
<1>1. Doubled = {}
  BY DEF Doubled, Holders, WantsInner
<1>2. Holders \subseteq Listers
  BY DEF Holders, Listers, WantsInner, PoolInv, Nested
<1>3. IsFiniteSet(Listers)
  BY ConnPoolAssumption, FS_Subset DEF Listers
<1>4. /\ Cardinality(Holders) <= Cardinality(Listers)
      /\ Cardinality(Holders) \in Nat /\ Cardinality(Listers) \in Nat
  BY <1>2, <1>3, FS_Subset, FS_CardinalityType
<1>5. Cardinality(Doubled) = 0
  BY <1>1, FS_EmptySet
<1> QED
  BY <1>4, <1>5, ConnPoolAssumption DEF Free

\* With fewer listers than connections the pool never locks up.
THEOREM FewListersNeverStuck ==
    ASSUME Cardinality(Listers) < MaxConns
    PROVE  PoolSpec => []NeverStuck
<1>1. PoolInv => NeverStuck
  BY SpareConnection DEF NeverStuck
<1> QED
  BY <1>1, InitPoolInv, NextPoolInv, PTL DEF PoolSpec

-----------------------------------------------------------------------------
(* What a lock-up costs.                                                   *)

\* A lock-up is for good.  No query carries a deadline, so once every holder
\* waits for a second connection and none is free, every goroutine that is in a
\* handler stays where it is, and those still to come get nothing either.
LockUpIsFinal ==
    [][~NeverStuck =>
          /\ ~NeverStuck'
          /\ \A h \in Handlers : phase[h] # "idle" => phase'[h] = phase[h]]_poolVars

\* In a lock-up the only step is the arrival of one more request.
LEMMA OnlyArrivals ==
    ASSUME ~NeverStuck, NEW h \in Handlers,
           Acquire(h) \/ AcquireInner(h) \/ ReleaseInner(h) \/ Release(h)
    PROVE  FALSE
<1>1. ~(Free > 0) /\ \A g \in Holders : WantsInner(g)
  BY DEF NeverStuck
<1>2. ~Acquire(h) /\ ~AcquireInner(h)
  BY <1>1 DEF Acquire, AcquireInner, ConnAvailable
<1>3. CASE ReleaseInner(h) \/ Release(h)
  <2>1. h \in Holders /\ (phase[h] = "inner" \/ inner[h] = 0)
    BY <1>3 DEF ReleaseInner, Release, Holders
  <2> QED
    BY <1>1, <2>1 DEF WantsInner
<1> QED
  BY <1>2, <1>3

\* No step ends a lock-up.
THEOREM LockUpsLast == PoolSpec => LockUpIsFinal
<1>1. PoolInv /\ [PoolNext]_poolVars =>
          (~NeverStuck =>
              /\ ~NeverStuck'
              /\ \A h \in Handlers : phase[h] # "idle" => phase'[h] = phase[h])
  <2> SUFFICES ASSUME PoolInv, [PoolNext]_poolVars, ~NeverStuck
               PROVE  /\ ~NeverStuck'
                      /\ \A h \in Handlers : phase[h] # "idle" => phase'[h] = phase[h]
    OBVIOUS
  <2>1. ASSUME NEW h \in Handlers, Arrive(h)
        PROVE  /\ Holders' = Holders /\ Doubled' = Doubled
               /\ \A g \in Handlers : phase[g] # "idle" => phase'[g] = phase[g]
               /\ \A g \in Holders : WantsInner(g)' = WantsInner(g)
    BY <2>1, Zenon DEF Arrive, Holders, Doubled, WantsInner, PoolInv
  <2>2. ASSUME UNCHANGED poolVars
        PROVE  /\ Holders' = Holders /\ Doubled' = Doubled
               /\ \A g \in Handlers : phase[g] # "idle" => phase'[g] = phase[g]
               /\ \A g \in Holders : WantsInner(g)' = WantsInner(g)
    BY <2>2, Zenon DEF poolVars, Holders, Doubled, WantsInner
  <2>3. /\ Holders' = Holders /\ Doubled' = Doubled
        /\ \A g \in Handlers : phase[g] # "idle" => phase'[g] = phase[g]
        /\ \A g \in Holders : WantsInner(g)' = WantsInner(g)
    BY <2>1, <2>2, OnlyArrivals DEF PoolNext
  <2> QED
    BY <2>3 DEF NeverStuck, Free
<1> QED
  BY <1>1, InitPoolInv, NextPoolInv, PTL DEF PoolSpec, LockUpIsFinal
=============================================================================
