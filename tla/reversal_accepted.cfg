\* One request at a time, a longer ledger.
SPECIFICATION Spec
CONSTANTS
  u1 = u1
  u2 = u2
  u3 = u3
  k1 = k1
  k2 = k2
  h1 = h1
  h2 = h2
  User = {u1, u2, u3}
  Owner = u1
  Key = {k1, k2}
  Amount = {1}
  MaxParticipants = 3
  MaxTransfers = 3
  Handler = {h1}
SYMMETRY Symmetry
INVARIANT EligibleReversalIsAccepted
