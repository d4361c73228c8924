\* Two requests in flight, the scheduler and one restart.  No symmetry: the run
\* checks a liveness property.
SPECIFICATION FairSpec
CONSTANTS
  u1 = u1
  u2 = u2
  u3 = u3
  h1 = h1
  h2 = h2
  User = {u1, u2}
  Owner = u1
  Handler = {h1, h2}
  Threshold = 2
  MaxClock = 4
  MaxTransfers = 1
  MaxAsks = 2
  MaxRestarts = 1
INVARIANT TypeOK OnePendingAsk ApprovalEndsTheGame
PROPERTY ForgottenGameEnds OutcomeStands
\* The game may end and the clock reach its bound.
CHECK_DEADLOCK FALSE
