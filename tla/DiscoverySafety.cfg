SPECIFICATION Spec
CONSTANTS
  Node <- Three
  KnownNodes <- Some3
  PeerEndpoints <- Nobody3
  MAX_NODES = 2
  BroadcastPermitted = FALSE
  Limit <- CrashBeat
INVARIANT CandidateKnowsHigher
PROPERTY OutrankedNeverTakesOver
PROPERTY HighestKeepsLeading
PROPERTY BullyElection
