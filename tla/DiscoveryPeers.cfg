SPECIFICATION PeerSpec
CONSTANTS
  Node <- Three
  KnownNodes <- Nobody3
  PeerEndpoints <- Shared3
  MAX_NODES = 3
  BroadcastPermitted = FALSE
  Limit <- Quiet
PROPERTY HighestEventuallyLeads
