--------------------------- MODULE MCEnvironment ---------------------------
EXTENDS Environment, TLC

CONSTANTS x, v, w
Symmetric == Permutations(Values)
=============================================================================
