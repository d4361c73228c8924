--------------------------- MODULE MCGameSession ---------------------------
EXTENDS GameSession, TLC

CONSTANTS u1, u2, u3, k1, k2, h1, h2

\* u1 creates the game: the other users are interchangeable, as are handlers
\* and keys.
Symmetry == Permutations(User \ {Owner}) \union Permutations(Handler) \union Permutations(Key)

\* Two requests overlap only while the ledger has at most one entry; after that they
\* follow one another.
OverlapEarly ==
  Cardinality({h \in Handler : ~Free(h)}) > 1 => Len(ledger) <= 1
=============================================================================
