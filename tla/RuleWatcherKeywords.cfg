\* A keywords file that parses never reaches the detector.
CONSTANTS
    r1 = r1  r2 = r2  bad = bad  badre = badre  k1 = k1  kbad = kbad
    Versions <- MC_Versions
    Valid <- MC_Valid
    BadRegex <- MC_BadRegex
    KwVersions <- MC_KwVersions
    KwValid <- MC_KwValid
    Defaults = dflt
    NoRules = none
    MaxTime = 2
    MaxWrites = 3
SPECIFICATION FairSpec
CHECK_DEADLOCK FALSE
PROPERTY KeywordReloadReachesDetector
