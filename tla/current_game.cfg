\* Two accounts, two games, two requests in flight, of one user or of both.
SPECIFICATION Spec
CONSTANTS
  u1 = u1
  u2 = u2
  g1 = g1
  g2 = g2
  old = old
  new = new
  h1 = h1
  h2 = h2
  User = {u1, u2}
  Game = {g1, g2}
  Name = {old, new}
  DefaultName <- SameDefault
  Handler = {h1, h2}
  NoRow = NoRow
  Unnamed = Unnamed
SYMMETRY Symmetry
INVARIANT TypeOK NamesUnique
PROPERTY ClosedTakesNobody
\* All games of the bound may be over: nothing is left to do.
CHECK_DEADLOCK FALSE
