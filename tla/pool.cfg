SPECIFICATION FairSpec
CONSTANTS
    Jobs = {j1, j2}
    Reapers = {r1}
    Containers = {c1, c2}
    PoolMax = 1
    TTL = 0
    MaxTime = 1
    MaxFaults = 1
    NoEntry = NoEntry
INVARIANTS
    Exclusive
    Undisturbed
    PoolBounded
    
PROPERTIES
    ExpiredLeaves
