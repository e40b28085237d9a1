--------------------------- MODULE MC_SessionGraph --------------------------
EXTENDS SessionGraph, TLC

CONSTANTS p, c, t1, t2, i1, i2, i3

Symmetry == Permutations(Tasks) \cup Permutations(Ids)
=============================================================================
