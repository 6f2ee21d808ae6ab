CONSTANTS
  a1 = a1
  a2 = a2
  n1 = n1
  n2 = n2
  g1 = g1
  m1 = m1
  m2 = m2
  m3 = m3
  s1 = s1
  s2 = s2
  s3 = s3
  None = None
  DataService = TRUE
  AppThreads <- OneApp
  GrpcThreads <- OneGrpc
  Groups <- OneGroup
  Smgrs <- TwoSmgrs
  Servers <- TwoServers
  Overlaps <- JoinLeave
SPECIFICATION Spec
INVARIANT NoServerOnDestroyedStorage
