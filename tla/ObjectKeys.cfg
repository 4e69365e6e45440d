\* Path normalisation is idempotent and canonical for every path of up to
\* 8 bytes over {s, x}, with "spooled_" as <<"s","x">> and 255 as 7; the
\* archiver's keys are unambiguous for every pair of prefixes of up to two
\* characters over {e, 1, /, space} and every ID up to 11 (two digits).
CONSTANTS
    Alphabet <- MC_Alphabet
    Spooled <- MC_Spooled
    MaxLen = 7
    MaxInputLen = 8
    Chars <- MC_Chars
    Slash = "/"
    Space = " "
    Json = Json
    EventsFallback <- MC_EventsFallback
    DetectionsFallback <- MC_DetectionsFallback
    MaxPrefixLen = 2
    MaxID = 11
SPECIFICATION KeysSpec
INVARIANTS NormalizedIsCanonical ArchiveKeysUnambiguous
