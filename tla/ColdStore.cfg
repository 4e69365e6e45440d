\* At-least-once archival: no acknowledged payload is lost, and every one
\* eventually reaches the bucket, with one direct caller and one flusher.
CONSTANTS
    c1 = c1  f1 = f1  f2 = f2  p1 = p1  p2 = p2 
    s1 = s1  s2 = s2  s3 = s3
    NoJob = NoJob  NoFile = NoFile
    Callers <- MC_Callers
    Flushers <- MC_OneFlusher
    Payloads <- MC_OnePayload
    SpoolIds <- MC_SpoolIds
    MaxRetries = 3
    MaxCrashes = 1
SPECIFICATION FairSpec
INVARIANTS TypeOK NoAcknowledgedLoss
PROPERTIES EventuallyArchived
