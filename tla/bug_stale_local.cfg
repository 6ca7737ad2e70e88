SPECIFICATION Spec
CONSTANTS
  c1 = c1
  Nodes <- ThreeNodes
  Starting <- FirstTwo
  Clients <- OneClient
  Home <- OnOwner
  Wire = {}
  Statements = {"begin", "write"}
  MaxStreams = 2
  MaxFaults = 1
CHECK_DEADLOCK FALSE
INVARIANT LocalWriteByOwner
