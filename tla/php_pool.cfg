SPECIFICATION PoolFairSpec
CONSTANTS
    Jobs = {r1, r2}
    Workers = {t1, t2, t3}
    NoJob = nojob
    Capacity = 1
    Target = 1
    Stuck = {r1}
    MaxCrashes = 1
    MaxSpawnFails = 1
    Deadline = TRUE
INVARIANT PoolTypeOK
INVARIANT PermitHolderFindsRoom
INVARIANT ContextsCounted
PROPERTY BackToTarget
PROPERTY AcceptedRuns
