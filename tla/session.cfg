\* Three users for two places, two keys: every interleaving of the reads and the
\* transactions of two requests over a ledger of at most one entry, and every
\* sequence of requests that follows, over several rounds.
SPECIFICATION Spec
CONSTANTS
  u1 = u1
  u2 = u2
  u3 = u3
  k1 = k1
  k2 = k2
  h1 = h1
  h2 = h2
  User = {u1, u2, u3}
  Owner = u1
  Key = {k1, k2}
  Amount = {1}
  MaxParticipants = 2
  MaxTransfers = 2
  Handler = {h1, h2}
SYMMETRY Symmetry
CONSTRAINT OverlapEarly
INVARIANT TypeOK PendingPlayersCanPlay SatisfiedByLiveTransfer ReversedOnce ScoresFollowLedger
INVARIANT OncePerKey AnswersAreRecorded CapacityRespected OneOwner IInv
PROPERTY ImplementsScoreBook EndIsFinal
