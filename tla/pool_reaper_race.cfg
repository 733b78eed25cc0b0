SPECIFICATION Spec
CONSTANTS
    Jobs = {j1, j2}
    Reapers = {r1}
    Containers = {c1, c2}
    PoolMax = 2
    TTL = 0
    MaxTime = 1
    MaxFaults = 0
    NoEntry = NoEntry
INVARIANT OneUser
