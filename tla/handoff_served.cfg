SPECIFICATION FairSpec
CONSTANTS
  Nodes <- TwoNodes
  MaxWrites = 1
  MaxFaults = 1
  Crashing <- FirstNode
  Leaving <- NoNode
  Failing <- NoNode
  Holding <- NoNode
CHECK_DEADLOCK FALSE
PROPERTIES Served
