CONSTANTS
  Names = {n1, n2}
  MaxServers = 3
SPECIFICATION FairSpec
INVARIANT AllServed
INVARIANT ServerKept
PROPERTY CrashesKnown
PROPERTY RestartEnds
CHECK_DEADLOCK FALSE
