---------------------------- MODULE MC_ObjectKeys ----------------------------
(* The two object-naming algorithms, each over its own inputs: every path  *)
(* of ObjectPath with the default archiver configuration, and every        *)
(* archiver configuration with the empty path.                             *)
EXTENDS ObjectPath, ArchiveKeys

MC_Alphabet == {"s", "x"}
MC_Spooled == <<"s", "x">>
MC_Chars == {"e", "1", "/", " "}
MC_EventsFallback == <<"e", "/">>
MC_DetectionsFallback == <<"d", "/">>

\* MINI_SIEM_MINIO_* all set, the prefixes left unset
DefaultConfig == [complete |-> TRUE, clientOk |-> TRUE,
                  eventsPrefix |-> << >>, detectionsPrefix |-> << >>]

KeysInit == \/ Init /\ cfg = DefaultConfig
            \/ path = << >> /\ ArchiverInit
KeysSpec == KeysInit /\ [][UNCHANGED <<path, cfg>>]_<<path, cfg>>
=============================================================================
