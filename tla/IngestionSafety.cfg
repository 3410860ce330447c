SPECIFICATION Spec
CONSTANTS
  f = f
  g = g
  none = none
  a = a
  b = b
  junk = junk
  File <- Both
  NoFile <- none
  Row <- AB
  Junk <- junk
  Contents <- TwoWays
  Limit <- Anything
SYMMETRY FileSymmetry
INVARIANT TypeOK
INVARIANT TrackedIsStored
INVARIANT StoredOnce
PROPERTY RowsAreKept
