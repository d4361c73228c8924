--------------------------- MODULE MCCurrentGame ---------------------------
EXTENDS CurrentGame, TLC

CONSTANTS u1, u2, g1, g2, old, new, h1, h2

\* The two digits of the default name collide: both users get the same.
SameDefault == [u \in User |-> old]

Symmetry == Permutations(User) \union Permutations(Game) \union Permutations(Handler)
=============================================================================
