SPECIFICATION FairSpec
CONSTANTS
  Nodes <- TwoNodes
  Workers <- TwoAndOne
  Commands = {"set"}
  Values = {1, 2}
  Wall = {0, 1}
  Drift = 1
  MaxOps = 3
  MayShed = FALSE
  MayPrune = TRUE
  MayCrash = FALSE
CHECK_DEADLOCK FALSE
INVARIANTS NoStaleCopy StoresConverge NewestWriteWins
PROPERTIES OwnStateAdvances EventuallyConverged
