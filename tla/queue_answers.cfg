SPECIFICATION FairSpec
CONSTANTS
    Clients = {c1, c2}
    Slots = {s1}
    Jobs = {j1, j2}
    MaxQueueDepth = 1
    JobMaxAge = 0
    ResultTimeout = 1
    FallbackMax = 1
    MaxFaults = 1
    MaxStops = 1
    NoJob = NoJob
PROPERTIES
    EveryRequestAnswered
    JobsFinish
