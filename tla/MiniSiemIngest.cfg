\* Two rule-management goroutines and one ingest goroutine: a pattern that
\* compiles and one that does not, up to two rule rows, two rule
\* requests, two ingest requests of up to two events, and one restart.
CONSTANTS
    a = a  b = b  good = good  bad = bad  i1 = i1  m1 = m1  m2 = m2
    NoList = NoList  BadItem = BadItem  NoBody = NoBody  BadDecision = BadDecision
    Clients <- MC_Clients
    Patterns <- MC_Patterns
    Compilable <- MC_Compilable
    Ingesters <- MC_Ingesters
    Msgs <- MC_Msgs
    Match <- MC_Match
    MaxRules = 2
    MaxRequests = 2
    MaxRestarts = 1
    MaxBatch = 2
    MaxIngests = 2
SYMMETRY MC_Symmetry
SPECIFICATION ISpec
\* A restart whose Load fails ends the process with logger.Fatal.
CHECK_DEADLOCK FALSE
INVARIANTS ITypeOK EngineIsSomeTableState AcceptedDetectionsComplete StoredRowsConsistent
