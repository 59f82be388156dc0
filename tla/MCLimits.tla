------------------------------ MODULE MCLimits ------------------------------
(* The two limits a request meets: the rate limiter in front of the handlers *)
(* and the connection pool behind them.                                      *)
(*                                                                           *)
(* They share no variable and every property speaks of one of them, so       *)
(* nothing is lost when TLC follows one while the other has not begun.       *)
EXTENDS RateLimiter, MCConnPool

CONSTANTS c1, c2, q6

\* Four requests of one client and one of another.
MCFrom == [r \in Requests |-> IF r = q6 THEN c2 ELSE c1]

NothingLimited == now = 0 /\ known = {}
NothingServed == \A h \in Handlers : phase[h] = "idle"

LimitsNext ==
    \/ NothingServed /\ Next /\ UNCHANGED poolVars
    \/ NothingLimited /\ PoolNext /\ UNCHANGED vars

LimitsInit == Init /\ PoolInit

LimitsSpec ==
    /\ LimitsInit
    /\ [][LimitsNext]_<<vars, poolVars>>
    /\ PoolFairness
=============================================================================
