SPECIFICATION Spec
CONSTANTS
    Clients = {c1, c2}
    Slots = {s1, s2}
    Jobs = {j1, j2}
    MaxQueueDepth = 1
    JobMaxAge = 0
    ResultTimeout = 1
    FallbackMax = 1
    MaxFaults = 2
    MaxStops = 1
    NoJob = NoJob
SYMMETRY QueueSymmetry
INVARIANTS
    OneResult
    JobNotLost
    OverfullByRaceOnly
PROPERTY ImplementsService
