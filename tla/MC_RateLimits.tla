---------------------------- MODULE MC_RateLimits ----------------------------
(***************************************************************************)
(* The repository's two HTTP rate limiters checked side by side on one     *)
(* clock and one budget of requests: the token bucket of server-analyst    *)
(* (SecurityRateLimit) and the keyed limiter of mini-siem-api              *)
(* (KeyedLimiter).  They share no state; each step is a step of one of    *)
(* them, and a tick of the clock is a tick of both.                        *)
(***************************************************************************)
EXTENDS Naturals, TLC

CONSTANTS
    a1, a2,            \* server-analyst client addresses
    g, k1, e,          \* mini-siem keys: "global", a client IP, ""
    r1, r2,            \* concurrent mini-siem requests
    Cap, Refill, Burst, Rate, TTL, MaxWait, MaxTime, MaxRequests

VARIABLES
    now, requests,
    m, sAdmits, sDenials,
    clients, pc, key, seen, kAdmits, kDenials

vars == <<now, requests, m, sAdmits, sDenials, clients, pc, key, seen, kAdmits, kDenials>>

S == INSTANCE SecurityRateLimit
        WITH Keys <- {a1, a2}, admits <- sAdmits, denials <- sDenials

K == INSTANCE KeyedLimiter
        WITH Keys <- {g, k1}, Global <- g, Empty <- e, Reqs <- {r1, r2},
             Refill <- Rate, admits <- kAdmits, denials <- kDenials

sOnly == <<m, sAdmits, sDenials>>
kOnly == <<clients, pc, key, seen, kAdmits, kDenials>>

Init == S!Init /\ K!Init

Next ==
    \/ S!Tick /\ K!Tick
    \/ \E k \in {a1, a2} : S!Limit(k) /\ UNCHANGED kOnly
    \/ \E r \in {r1, r2} :
          \/ \E k \in {g, k1, e} : K!ReadClock(r, k) /\ UNCHANGED sOnly
          \/ K!Allow(r) /\ UNCHANGED sOnly

Spec == Init /\ [][Next]_vars

\* Both limiters are well typed.
TypeOK == S!TypeOK /\ K!TypeOK

\* server-analyst's RateLimiter.Limit never admits more than an ideal
\* bucket of rl.cap tokens at one token per rl.refill (SecurityRateLimit).
NeverOverAdmits == S!NeverOverAdmits

\* mini-siem-api's Limiter.Allow, eviction and the clock read before the
\* lock included, admits exactly what an ideal bucket would (KeyedLimiter).
IsIdealBucket == K!IsIdealBucket
=============================================================================
