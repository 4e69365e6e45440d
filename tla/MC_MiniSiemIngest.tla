------------------------- MODULE MC_MiniSiemIngest -------------------------
EXTENDS MiniSiemIngest
CONSTANTS a, b, good, bad, i1, m1, m2
MC_Clients == {a, b}
MC_Patterns == {good, bad}
MC_Compilable == {good}
MC_Ingesters == {i1}
MC_Msgs == {m1, m2}
\* m1 matches the pattern that compiles, m2 matches nothing.
MC_Match == [m \in MC_Msgs |-> IF m = m1 THEN {good} ELSE {}]
MC_Symmetry == Permutations(MC_Clients)
=============================================================================
