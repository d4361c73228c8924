\* Two users, one request at a time, two entries, pages of one entry; the
\* statements of one reader fall anywhere between those of the requests.
SPECIFICATION ReadsSpec
CONSTANTS
  u1 = u1
  u2 = u2
  k1 = k1
  k2 = k2
  h1 = h1
  User = {u1, u2}
  Owner = u1
  Key = {k1, k2}
  Amount = {1}
  MaxParticipants = 2
  MaxTransfers = 2
  Handler = {h1}
  PageSize = 1
SYMMETRY Symmetry
INVARIANT ReadsTypeOK ReplayAgreesWithScores WinnerLeadsSettlement SettlementIsExplained RowsAreExplained SummaryOfOneMoment
PROPERTY LoadsLeaveNoGap RefreshKeepsRange
