SPECIFICATION FairSpec
CONSTANTS
  Nodes <- TwoNodes
  Heartbeat = 2
  TTL = 4
  Grace = 6
  Delay = 1
  PerSite = TRUE
  Score <- ScoreOf
  MaxFaults = 1
  MayWipe = TRUE
  MayDrain = FALSE
  MayPartition = TRUE
PROPERTIES SettlesOnOwner
