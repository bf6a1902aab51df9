--------------------------- MODULE MCHistoryFile ---------------------------
EXTENDS HistoryFile, TLC

CONSTANTS s1, s2, a, b
Symmetric == Permutations({s1, s2}) \cup Permutations({a, b})
=============================================================================
