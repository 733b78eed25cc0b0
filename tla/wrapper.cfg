SPECIFICATION Spec
CONSTANTS
    Unit = 10
    MaxTree = 7
    MaxList = 3
    MaxGraph = 3
INVARIANTS
    Symmetric
    AcceptsPromised
    TreesByLevel
    CycleOfThisCase
    JudgedRight
