SPECIFICATION Spec
CONSTANTS
  Nodes <- TwoNodes
  Workers <- OneEach
  Commands = {"set", "setex", "del", "incr", "expire"}
  Values = {1}
  Wall = {0, 1}
  Drift = 1
  MaxOps = 3
  MayShed = TRUE
  MayPrune = FALSE
  MayCrash = FALSE
CHECK_DEADLOCK FALSE
INVARIANTS TypeOK OneWritePerStamp
