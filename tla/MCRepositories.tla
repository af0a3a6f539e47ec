--------------------------- MODULE MCRepositories ---------------------------
EXTENDS Repositories, TLC

CONSTANTS s1, s2, c1, c2, w1, w2

Alike == Permutations({s1, s2}) \cup Permutations({c1, c2}) \cup Permutations({w1, w2})
=============================================================================
