SPECIFICATION FairSpec
CONSTANTS
  f = f
  g = g
  none = none
  a = a
  b = b
  junk = junk
  File <- Both
  NoFile <- none
  Row <- AB
  Junk <- junk
  Contents <- Mixed
  Limit <- Faults
INVARIANT TypeOK
INVARIANT TrackedIsStored
INVARIANT StoredOnce
PROPERTY RowsAreKept
PROPERTY EverythingStored
