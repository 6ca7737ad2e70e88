SPECIFICATION Spec
CONSTANTS
  Nodes <- TwoNodes
  MaxWrites = 1
  MaxFaults = 1
  Crashing <- TwoNodes
  Leaving <- FirstNode
  Failing <- SecondNode
  Holding <- SecondNode
CHECK_DEADLOCK FALSE
INVARIANTS TypeOK
PROPERTIES  FoundsAfterGrace
