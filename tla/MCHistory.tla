----------------------------- MODULE MCHistory -----------------------------
EXTENDS History, TLC

CONSTANTS g1, g2, g3

\* x:05Z, x:05.1Z and x:05.5Z
MCFraction == {<<>>, <<1>>, <<5>>}

Symmetry == Permutations(Game)
=============================================================================
