SPECIFICATION Spec
CONSTANTS
  Nodes <- ThreeNodes
  Workers <- OneEach
  Commands = {"set", "setex"}
  Values = {1}
  Wall = {0}
  Drift = 1
  MaxOps = 2
  MayShed = TRUE
  MayPrune = FALSE
  MayCrash = TRUE
CHECK_DEADLOCK FALSE
INVARIANTS StoresConverge NoStaleCopy
