----------------------------- MODULE MCLiveGame -----------------------------
EXTENDS LiveGame, TLC

CONSTANTS c1, c2, t1, t2, l1, l2

Symmetry == Permutations(Conn) \union Permutations(Task) \union Permutations(Load)
=============================================================================
