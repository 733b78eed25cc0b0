SPECIFICATION FairSpec
CONSTANTS
    MaxCases = 3
    Limit = 2
    Kinds = {"pass", "slow", "wrong", "throw", "crash", "hang", "flood", "linger"}
INVARIANTS
    SingleFirstFailure
    
PROPERTIES
    EveryRunJudged
