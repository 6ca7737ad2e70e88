SPECIFICATION Spec
CONSTANTS
    Callers = {c1, c2, c3}
    Threads = {t1, t2}
    Closer = closer
    NoJob = nojob
    Capacity = 1
    MaxDeaths = 1
INVARIANT TypeOK
INVARIANT IdleOnlyWhenEmpty
INVARIANT NoSleeperBesideRoom
INVARIANT SleeperIsReachable
PROPERTY ImplementsJobQueue
SYMMETRY Sym
