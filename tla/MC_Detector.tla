---------------------------- MODULE MC_Detector ----------------------------
EXTENDS Detector, TLC
CONSTANTS i1, i2
MC_IPs == {i1, i2}
MC_Symmetry == Permutations(MC_IPs)
\* An enabled user rule tagged flood and a disabled one tagged brute.
MC_Rules == << [name |-> "r_flood", category |-> "flood", enabled |-> TRUE],
               [name |-> "r_brute", category |-> "brute", enabled |-> FALSE] >>
MC_EventSigs == {"sqli"}
\* An sshd "failed password" line, an access-log line with status 401,
\* another access-log line, and a line with no request.
MC_Shapes == { [sshFailed |-> TRUE,  status401 |-> FALSE, method |-> FALSE],
               [sshFailed |-> FALSE, status401 |-> TRUE,  method |-> TRUE],
               [sshFailed |-> FALSE, status401 |-> FALSE, method |-> TRUE],
               [sshFailed |-> FALSE, status401 |-> FALSE, method |-> FALSE] }
=============================================================================
