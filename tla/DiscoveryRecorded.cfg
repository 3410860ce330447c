SPECIFICATION Spec
CONSTANTS
  Node <- Three
  KnownNodes <- Mesh3
  PeerEndpoints <- Nobody3
  MAX_NODES = 2
  BroadcastPermitted = FALSE
  Limit <- OneBeat
PROPERTY LeaderIsRecorded
