CONSTANTS
  f1 = f1
  f2 = f2
  d1 = d1
  p1 = p1
  w1 = w1
  w2 = w2
  w3 = w3
  c1 = c1
  c2 = c2
  c3 = c3
  None = None
  Null = Null
  ErrorClient = ErrorClient
  Factories <- MCFactories
  DataThreads <- MCDataThreads
  Peers <- MCPeers
  Wrappers <- MCWrappers
  Chans <- MCChans
SPECIFICATION Spec
SYMMETRY Symmetry
INVARIANTS NoNullVisible NuRaftHoldsCached FreshIdentity BadTransportAvoided
