CONSTANTS
  G = G
  H = H
  join = join
  join2 = join2
  vote = vote
  append = append
  beat = beat
  Groups <- MCGroups
  Joined <- MCJoined
  Rpcs <- MCRpcs
  Kind <- MCKind
  Group <- MCGroup
  RaftThreads = 2
  IoThreads = 1
  MaxServers = 2
SPECIFICATION FastSpec
INVARIANTS OneResponse CountersDoNotLeak
PROPERTIES EveryMessageAnswered ShutdownEnds FastAnswered
