CONSTANTS
  G = G
  H = H
  join = join
  join2 = join2
  vote = vote
  append = append
  beat = beat
  Groups <- MCGroups
  Joined <- MCBeatJoined
  Rpcs <- MCBeatRpcs
  Kind <- MCBeatKind
  Group <- MCBeatGroup
  RaftThreads = 1
  IoThreads = 1
  MaxServers = 1
SPECIFICATION FastSpec
PROPERTIES HeartbeatAnswered
