\* Two valid rule files, one that fails to parse and one with a bad
\* pattern; one valid and one broken keywords file; three writes over a
\* clock of 0..2.
CONSTANTS
    r1 = r1  r2 = r2  bad = bad  badre = badre  k1 = k1  kbad = kbad
    Versions <- MC_Versions
    Valid <- MC_Valid
    BadRegex <- MC_BadRegex
    KwVersions <- MC_KwVersions
    KwValid <- MC_KwValid
    Defaults = dflt
    NoRules = none
    MaxTime = 2
    MaxWrites = 3
SPECIFICATION FairSpec
\* A panic in the watcher goroutine ends the process.
CHECK_DEADLOCK FALSE
INVARIANTS TypeOK
PROPERTY ChangeEventuallyApplied
