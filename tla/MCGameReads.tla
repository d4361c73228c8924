---------------------------- MODULE MCGameReads ----------------------------
EXTENDS GameReads, TLC

CONSTANTS u1, u2, k1, k2, h1

Symmetry == Permutations(Key)
=============================================================================
