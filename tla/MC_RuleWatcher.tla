--------------------------- MODULE MC_RuleWatcher ---------------------------
EXTENDS RuleWatcher
CONSTANTS r1, r2, bad, badre, k1, kbad
MC_Versions == {r1, r2, bad, badre}
MC_Valid == {r1, r2}
MC_BadRegex == {badre}
MC_KwVersions == {k1, kbad}
MC_KwValid == {k1}
=============================================================================
