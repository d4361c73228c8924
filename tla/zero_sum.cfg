\* Two requests in flight: every interleaving of their reads and transactions.
SPECIFICATION Spec
CONSTANTS
  u1 = u1
  u2 = u2
  u3 = u3
  k1 = k1
  k2 = k2
  h1 = h1
  h2 = h2
  User = {u1, u2, u3}
  Owner = u1
  Key = {k1}
  Amount = {1}
  MaxParticipants = 2
  MaxTransfers = 2
  Handler = {h1, h2}
SYMMETRY Symmetry
INVARIANT ZeroSum
