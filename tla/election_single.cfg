SPECIFICATION FairSpec
CONSTANTS
  Nodes <- TwoNodes
  Heartbeat = 2
  TTL = 4
  Grace = 6
  Delay = 1
  PerSite = FALSE
  Score <- ScoreOf
  MaxFaults = 2
  MayWipe = TRUE
  MayDrain = TRUE
  MayPartition = FALSE
INVARIANTS TypeOK OnePrimary
PROPERTIES IncumbentKept Settles
