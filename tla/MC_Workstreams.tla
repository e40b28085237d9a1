--------------------------- MODULE MC_Workstreams ---------------------------
EXTENDS Workstreams, TLC

CONSTANTS s1, s2, a, b, w1, w2, w3

Symmetry == Permutations({s1, s2}) \cup Permutations({a, b}) \cup Permutations({w1, w2, w3})
=============================================================================
