---------------------------- MODULE MCSettlement ----------------------------
EXTENDS Settlement, TLC

CONSTANTS u1, u2, u3, h1, h2

\* u1 creates the game: the other users are interchangeable, as are handlers.
Symmetry == Permutations(User \ {Owner}) \union Permutations(Handler)
=============================================================================
