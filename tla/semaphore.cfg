SPECIFICATION FairSpec
CONSTANTS
    Tasks = {t1, t2, t3, t4, t5}
    Concurrency = 2
    MaxFaults = 2
    MaxRestarts = 1
INVARIANTS
    SlotBudget
    NoSlotLost
PROPERTIES
    ImplementsSemaphore
    KeepsServing
