----------------------------- MODULE TokenBucket -----------------------------
(***************************************************************************)
(* The promise of a per-key rate limiter: an ideal token bucket of Cap     *)
(* tokens per key, refilled continuously at one token per Refill time     *)
(* units.  The credit of a key is counted in time units (a token is        *)
(* Refill units), so the bucket is exact on a discrete clock; a key never  *)
(* seen has a full bucket.                                                 *)
(*                                                                         *)
(* Spec admits a request exactly when the key holds a whole token.         *)
(* LossySpec is the safety half of it: a limiter may refuse, or forfeit    *)
(* credit, at any time, but never admits a request the ideal bucket would  *)
(* not.                                                                    *)
(***************************************************************************)
EXTENDS Naturals

CONSTANTS
    Keys,       \* the keys requests are limited by
    Cap,        \* tokens a bucket holds
    Refill,     \* time units per token
    MaxTime     \* bound on the clock

Full == Cap * Refill

VARIABLES
    now,        \* the clock
    level,      \* credit per key, in time units
    admits,     \* requests admitted per key
    denials     \* requests refused per key

bvars == <<now, level, admits, denials>>

Init ==
    /\ now = 0
    /\ level = [k \in Keys |-> Full]
    /\ admits = [k \in Keys |-> 0]
    /\ denials = [k \in Keys |-> 0]

\* Time passes: every bucket gains one unit of credit, up to Full.
Tick ==
    /\ now < MaxTime
    /\ now' = now + 1
    /\ level' = [k \in Keys |-> IF level[k] < Full THEN level[k] + 1 ELSE Full]
    /\ UNCHANGED <<admits, denials>>

Admit(k) ==
    /\ level[k] >= Refill
    /\ level' = [level EXCEPT ![k] = @ - Refill]
    /\ admits' = [admits EXCEPT ![k] = @ + 1]
    /\ UNCHANGED <<now, denials>>

Deny(k) ==
    /\ level[k] < Refill
    /\ denials' = [denials EXCEPT ![k] = @ + 1]
    /\ UNCHANGED <<now, level, admits>>

Next == Tick \/ \E k \in Keys : Admit(k) \/ Deny(k)

Spec == Init /\ [][Next]_bvars

\* The lossy bucket: an admission needs a whole token, and any step that
\* answers a request may also throw credit away.
LossyAdmit(k) ==
    /\ level[k] >= Refill
    /\ \E c \in 0..(level[k] - Refill) : level' = [level EXCEPT ![k] = c]
    /\ admits' = [admits EXCEPT ![k] = @ + 1]
    /\ UNCHANGED <<now, denials>>

LossyDeny(k) ==
    /\ \E c \in 0..level[k] : level' = [level EXCEPT ![k] = c]
    /\ denials' = [denials EXCEPT ![k] = @ + 1]
    /\ UNCHANGED <<now, admits>>

LossyNext == Tick \/ \E k \in Keys : LossyAdmit(k) \/ LossyDeny(k)

LossySpec == Init /\ [][LossyNext]_bvars
=============================================================================
