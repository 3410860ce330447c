SPECIFICATION FairSpec
CONSTANTS
  f = f
  g = g
  none = none
  a = a
  b = b
  junk = junk
  File <- One
  NoFile <- none
  Row <- AB
  Junk <- junk
  Contents <- Clean
  Limit <- Reader
PROPERTY ReadersDontBlock
