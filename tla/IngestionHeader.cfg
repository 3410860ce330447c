SPECIFICATION Spec
CONSTANTS
  f = f
  g = g
  none = none
  a = a
  b = b
  junk = junk
  File <- One
  NoFile <- none
  Row <- AB
  Junk <- junk
  Contents <- Headerless
  Limit <- Quiet
INVARIANT OnlyHeadersSkipped
