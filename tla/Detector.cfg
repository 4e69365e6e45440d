\* Detect and Decide: two IPs, brute window 2, flood window 1, thresholds 2,
\* three events over a clock of 0..3, an enabled flood rule and a disabled
\* brute rule.
CONSTANTS
    i1 = i1  i2 = i2  NoIP = NoIP
    IPs <- MC_IPs
    Rules <- MC_Rules
    EventSigs <- MC_EventSigs
    Shapes <- MC_Shapes
    BruteWindow = 2
    FloodWindow = 1
    ThrSSH = 2
    Thr401 = 2
    ThrRPS = 2
    MaxTime = 3
    MaxEvents = 3
SYMMETRY MC_Symmetry
SPECIFICATION Spec
\* A CLI replay stops after the last line of its log.
CHECK_DEADLOCK FALSE
INVARIANTS TypeOK WindowMatchesHistory EmitsAtThreshold BlockOnBruteOrFlood
