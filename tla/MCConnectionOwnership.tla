----------------------- MODULE MCConnectionOwnership -----------------------
EXTENDS ConnectionOwnership, TLC

CONSTANTS key1, key2, conn1, conn2, call1, call2

Symmetry == Permutations(Conns) \cup Permutations(Calls)
=============================================================================
