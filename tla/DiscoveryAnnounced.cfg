SPECIFICATION Spec
CONSTANTS
  Node <- Two
  KnownNodes <- Mesh2
  PeerEndpoints <- Shared2
  MAX_NODES = 1
  BroadcastPermitted = TRUE
  Limit <- CrashExpiry
INVARIANT TypeOK
