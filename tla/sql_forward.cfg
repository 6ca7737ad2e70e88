SPECIFICATION FairSpec
CONSTANTS
  c1 = c1
  Nodes <- ThreeNodes
  Starting <- FirstTwo
  Clients <- OneClient
  Home <- OnForwarder
  Wire = {}
  Statements = {"begin", "lock", "unlock", "rollback"}
  MaxStreams = 2
  MaxFaults = 1
INVARIANTS TypeOK LockDiesWithSession
PROPERTIES DemotedIsQuiet LossIsTold AbandonedLockFreed StaleForwardRecovers
CHECK_DEADLOCK FALSE
