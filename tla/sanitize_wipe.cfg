SPECIFICATION Spec
CONSTANTS
    FirstPid = 7
    MaxPid = 13
INVARIANT
    AppWiped
