\* Three games of one user, pages of two, two seconds.
SPECIFICATION Spec
CONSTANTS
  g1 = g1
  g2 = g2
  g3 = g3
  Game = {g1, g2, g3}
  Second = {4, 5}
  Fraction <- MCFraction
  PageSize = 2
SYMMETRY Symmetry
INVARIANT NoGameTwice
