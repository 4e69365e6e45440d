\* The snapshot bytes come from the first read of the file, the rules from the second.
CONSTANTS
    r1 = r1  r2 = r2  bad = bad  badre = badre  k1 = k1  kbad = kbad
    Versions <- MC_Versions
    Valid <- MC_Valid
    BadRegex <- MC_BadRegex
    KwVersions <- MC_KwVersions
    KwValid <- MC_KwValid
    Defaults = dflt
    NoRules = none
    MaxTime = 2
    MaxWrites = 3
SPECIFICATION Spec
CHECK_DEADLOCK FALSE
INVARIANT SnapshotMatchesEngine
