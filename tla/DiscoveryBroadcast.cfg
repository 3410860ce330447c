SPECIFICATION FairSpec
CONSTANTS
  Node <- Three
  KnownNodes <- Unlisted3
  PeerEndpoints <- Nobody3
  MAX_NODES = 2
  BroadcastPermitted = FALSE
  Limit <- Quiet
PROPERTY EverybodyMeets
