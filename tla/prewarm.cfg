SPECIFICATION FairSpec
CONSTANTS
    Workers = {w1, w2}
    Pools = {cpp}
    Image = cpp
    Target = 2
    PoolMax = 2
    MaxFaults = 1
    MaxMoves = 1
    NoWorker = NoWorker
INVARIANTS
    LockExcludes
PROPERTIES
    ForeignLockKept
    PrewarmEnds
    RoundsEnd
