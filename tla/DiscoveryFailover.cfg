SPECIFICATION FailoverSpec
CONSTANTS
  Node <- Three
  KnownNodes <- Older3
  PeerEndpoints <- Nobody3
  MAX_NODES = 2
  BroadcastPermitted = FALSE
  Limit <- OneCrash
PROPERTY LeaderAfterFailure
