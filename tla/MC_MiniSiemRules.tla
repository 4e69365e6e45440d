-------------------------- MODULE MC_MiniSiemRules --------------------------
EXTENDS MiniSiemRules
CONSTANTS a, b, good, bad
MC_Clients == {a, b}
MC_Patterns == {good, bad}
MC_GoodOnly == {good}
MC_Compilable == {good}
MC_Symmetry == Permutations(MC_Clients)
=============================================================================
