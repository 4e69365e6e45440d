\* Both rate limiters refine the ideal token bucket: server-analyst's may
\* only forfeit credit, mini-siem-api's admits exactly what the bucket
\* admits.  One token per 2 ticks; the keyed limiter evicts after 2 idle
\* ticks (the time a bucket takes to refill), a request waits at most one
\* tick for the mutex.
CONSTANTS
    a1 = a1  a2 = a2  g = g  k1 = k1  e = e  r1 = r1  r2 = r2
    Cap = 2
    Refill = 2
    Burst = 1
    Rate = 2
    TTL = 2
    MaxWait = 1
    MaxTime = 5
    MaxRequests = 4
SPECIFICATION Spec
INVARIANT TypeOK
PROPERTIES NeverOverAdmits IsIdealBucket
\* The limiters are passive: once the clock and the requests are spent
\* nothing is left to do.
CHECK_DEADLOCK FALSE
