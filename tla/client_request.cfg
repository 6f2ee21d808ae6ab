CONSTANTS
  p1 = p1
  p2 = p2
  p3 = p3
  None = None
  Foreign = Foreign
  Peers <- MCPeers
  MaxElections = 3
  MaxRetries = 2
SPECIFICATION FairSpec
INVARIANTS TypeOK AcceptedAtMostOnce OkMeansAccepted SetOnce
PROPERTIES RequestEnds
