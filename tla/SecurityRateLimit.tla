-------------------------- MODULE SecurityRateLimit --------------------------
(***************************************************************************)
(* The token-bucket middleware of server-analyst                           *)
(* (internal/infrastructure/security/ratelimit.go, RateLimiter.Limit).     *)
(*                                                                         *)
(* A request is limited by the host part of its RemoteAddr (the whole      *)
(* address when SplitHostPort fails); keys are model values.  The whole    *)
(* critical section under rl.mu, clock read included, is one step.  Time   *)
(* is counted in the units of the clock; refill is a whole number of       *)
(* units.  A bucket is [tokens, last].                                     *)
(***************************************************************************)
EXTENDS Naturals, TLC

CONSTANTS
    Keys,         \* client addresses
    Cap,          \* rl.cap
    Refill,       \* rl.refill, in clock units
    MaxTime,      \* bound on the clock
    MaxRequests   \* bound on the requests served

ASSUME Cap \in Nat \ {0} /\ Refill \in Nat \ {0}

VARIABLES
    now,          \* time.Now()
    m,            \* rl.m: the buckets of the keys seen so far
    admits,       \* requests passed to next, per key (history)
    denials,      \* requests answered 429, per key (history)
    requests

svars == <<now, m, admits, denials, requests>>

Bucket == [tokens : 0..Cap, last : 0..MaxTime]

TypeOK ==
    /\ now \in 0..MaxTime
    /\ \E D \in SUBSET Keys : m \in [D -> Bucket]
    /\ admits \in [Keys -> 0..MaxRequests]
    /\ denials \in [Keys -> 0..MaxRequests]
    /\ requests \in 0..MaxRequests

Init ==
    /\ now = 0
    /\ m = [k \in {} |-> [tokens |-> Cap, last |-> 0]]
    /\ admits = [k \in Keys |-> 0]
    /\ denials = [k \in Keys |-> 0]
    /\ requests = 0

Tick ==
    /\ now < MaxTime
    /\ now' = now + 1
    /\ UNCHANGED <<m, admits, denials, requests>>

\* if b == nil { b = &tokenBucket{tokens: rl.cap, last: now} }
Current(k) == IF k \in DOMAIN m THEN m[k] ELSE [tokens |-> Cap, last |-> now]

\* Mutant of Refilled: the bucket is not clamped to rl.cap.
RefilledNoCap(b) ==
    IF now - b.last > Refill
       THEN [tokens |-> b.tokens + (now - b.last) \div Refill, last |-> now]
       ELSE b

\* if elapsed > rl.refill { b.tokens += n; cap; b.last = now }
Refilled(b) ==
    IF now - b.last > Refill
       THEN [tokens |-> IF b.tokens + (now - b.last) \div Refill > Cap
                           THEN Cap
                           ELSE b.tokens + (now - b.last) \div Refill,
             last |-> now]
       ELSE b

\* One request: look the bucket up (creating a full one), refill it, and
\* answer 429 when it is empty, otherwise take a token and call next.
Limit(k) ==
    /\ requests < MaxRequests
    /\ requests' = requests + 1
    /\ LET b == Refilled(Current(k)) IN
         IF b.tokens <= 0
            THEN /\ m' = (k :> b) @@ m
                 /\ denials' = [denials EXCEPT ![k] = @ + 1]
                 /\ UNCHANGED admits
            ELSE /\ m' = (k :> [b EXCEPT !.tokens = @ - 1]) @@ m
                 /\ admits' = [admits EXCEPT ![k] = @ + 1]
                 /\ UNCHANGED denials
    /\ UNCHANGED now

Next == Tick \/ \E k \in Keys : Limit(k)

Spec == Init /\ [][Next]_svars

-----------------------------------------------------------------------------
(* The bucket of a key as credit in clock units: the tokens it holds plus  *)
(* the time since its last refill, up to the capacity.  A key without a    *)
(* bucket is full.                                                         *)

Credit(k) ==
    IF k \in DOMAIN m
       THEN IF m[k].tokens * Refill + (now - m[k].last) > Cap * Refill
               THEN Cap * Refill
               ELSE m[k].tokens * Refill + (now - m[k].last)
       ELSE Cap * Refill

Ideal == INSTANCE TokenBucket WITH level <- [k \in Keys |-> Credit(k)]

\* "refill one token per interval": Limit never lets through a request an
\* ideal bucket of rl.cap tokens refilled at one token per rl.refill would
\* refuse, whatever the arrival times (the floor of elapsed/refill, the
\* cap, and last = now may only forfeit credit, never create it).
NeverOverAdmits == Ideal!LossySpec
=============================================================================
