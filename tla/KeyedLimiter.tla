----------------------------- MODULE KeyedLimiter -----------------------------
(***************************************************************************)
(* The keyed rate limiter of mini-siem-api (infra/ratelimit/limiter.go)   *)
(* behind the RateLimiter middleware of POST /events                       *)
(* (api/middleware/ratelimit.go), built by Config.BuildLimiter.           *)
(*                                                                         *)
(* Allow reads time.Now() before it takes l.mu, so a request is two steps: *)
(* ReadClock, and the critical section, which may run later.  Each key     *)
(* has a rate.Limiter, modelled by what it does: a bucket of Burst tokens  *)
(* refilled continuously at one token per Refill clock units, whose credit *)
(* is kept in clock units together with the time of its last update (the  *)
(* limiter reads its own clock inside Allow).  A client limiter also       *)
(* holds lastSeen, and every call evicts the limiters not seen for more    *)
(* than TTL.                                                               *)
(***************************************************************************)
EXTENDS Naturals, TLC

CONSTANTS
    Keys,         \* limiter keys (client IPs, Global among them)
    Empty,        \* the key "" (no client IP)
    Global,       \* "global"
    Reqs,         \* concurrent requests
    Burst,        \* l.burst
    Refill,       \* 1 / l.rate, in clock units
    TTL,          \* l.ttl, in clock units
    MaxWait,      \* longest time a request waits for l.mu
    MaxTime,
    MaxRequests

ASSUME Global \in Keys /\ Empty \notin Keys
ASSUME Burst \in Nat \ {0} /\ Refill \in Nat \ {0}

Full == Burst * Refill

VARIABLES
    now,
    clients,      \* l.clients: key -> [credit, last, lastSeen]
    pc,           \* per request: "idle" or "locking"
    key,          \* the key the request asks about
    seen,         \* the time.Now() the request read before locking
    admits,       \* per key (history)
    denials,      \* per key (history)
    requests

kvars == <<now, clients, pc, key, seen, admits, denials, requests>>

Client == [credit : 0..Full, last : 0..MaxTime, lastSeen : 0..MaxTime]

TypeOK ==
    /\ now \in 0..MaxTime
    /\ \E D \in SUBSET Keys : clients \in [D -> Client]
    /\ pc \in [Reqs -> {"idle", "locking"}]
    /\ key \in [Reqs -> Keys \cup {Empty}]
    /\ seen \in [Reqs -> 0..MaxTime]
    /\ admits \in [Keys -> 0..MaxRequests]
    /\ denials \in [Keys -> 0..MaxRequests]
    /\ requests \in 0..MaxRequests

Init ==
    /\ now = 0
    /\ clients = [k \in {} |-> [credit |-> Full, last |-> 0, lastSeen |-> 0]]
    /\ pc = [r \in Reqs |-> "idle"]
    /\ key = [r \in Reqs |-> Global]
    /\ seen = [r \in Reqs |-> 0]
    /\ admits = [k \in Keys |-> 0]
    /\ denials = [k \in Keys |-> 0]
    /\ requests = 0

\* The clock; a request waiting for the mutex gets it within MaxWait.
Tick ==
    /\ now < MaxTime
    /\ \A r \in Reqs : pc[r] = "locking" => now + 1 - seen[r] <= MaxWait
    /\ now' = now + 1
    /\ UNCHANGED <<clients, pc, key, seen, admits, denials, requests>>

\* now := time.Now(), before l.mu.Lock().
ReadClock(r, k) ==
    /\ pc[r] = "idle"
    /\ requests < MaxRequests
    /\ requests' = requests + 1
    /\ pc' = [pc EXCEPT ![r] = "locking"]
    /\ key' = [key EXCEPT ![r] = k]
    /\ seen' = [seen EXCEPT ![r] = now]
    /\ UNCHANGED <<now, clients, admits, denials>>

\* if key == "" { key = "global" }
KeyOf(k) == IF k = Empty THEN Global ELSE k

\* Mutant of CreditNow: the refill is not capped at the burst.
CreditNowUncapped(c) == c.credit + (now - c.last)

\* rate.Limiter: the credit at the current time, up to the burst.
CreditNow(c) == IF c.credit + (now - c.last) > Full THEN Full ELSE c.credit + (now - c.last)

\* cl.limiter.Allow(): take a token when a whole one is there.
Allowed(c) == CreditNow(c) >= Refill

\* The limiter after Allow: a token fewer when allowed, untouched otherwise.
AfterAllow(c) ==
    IF Allowed(c) THEN [c EXCEPT !.credit = CreditNow(c) - Refill, !.last = now] ELSE c

\* Mutant of Touched: cl.lastSeen is only set when the limiter is created.
TouchedOnCreate(c, t) == c

\* cl.lastSeen = now
Touched(c, t) == [c EXCEPT !.lastSeen = t]

\* evictExpired(now): drop every client not seen for more than TTL.
Evicted(cs, t) == [k \in {j \in DOMAIN cs : ~(t > cs[j].lastSeen + TTL)} |-> cs[k]]

\* The critical section of Allow, and the middleware's answer.
Allow(r) ==
    /\ pc[r] = "locking"
    /\ LET k == KeyOf(key[r])
           t == seen[r]
           c0 == IF k \in DOMAIN clients
                    THEN clients[k]
                    ELSE [credit |-> Full, last |-> now, lastSeen |-> t]
           c1 == AfterAllow(Touched(c0, t))
       IN /\ clients' = Evicted((k :> c1) @@ clients, t)
          /\ IF Allowed(c0)
                THEN /\ admits' = [admits EXCEPT ![k] = @ + 1]
                     /\ UNCHANGED denials
                ELSE /\ denials' = [denials EXCEPT ![k] = @ + 1]
                     /\ UNCHANGED admits
    /\ pc' = [pc EXCEPT ![r] = "idle"]
    /\ UNCHANGED <<now, key, seen, requests>>

Next ==
    \/ Tick
    \/ \E r \in Reqs : \/ \E k \in Keys \cup {Empty} : ReadClock(r, k)
                       \/ Allow(r)

Spec == Init /\ [][Next]_kvars

-----------------------------------------------------------------------------
(* A key's credit: that of its limiter, or a full bucket when it has none *)
(* (never seen, or evicted).                                               *)

Credit(k) == IF k \in DOMAIN clients THEN CreditNow(clients[k]) ELSE Full

Ideal == INSTANCE TokenBucket WITH Cap <- Burst, level <- [k \in Keys |-> Credit(k)]

\* "keyed rate limiting with TTL eviction": per key, the limiter admits
\* exactly what one token bucket of l.burst tokens at l.rate would, though
\* eviction drops limiters and a request may read the clock long before it
\* gets l.mu (lastSeen may then go back in time).
IsIdealBucket == Ideal!Spec
=============================================================================
