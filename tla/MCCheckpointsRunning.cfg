SPECIFICATION Spec
CONSTANTS
    alice = alice
    bob = bob
    Labels <- MCLabelsStop
    OnStop = TRUE
    Reflink = FALSE
    Keep = 1
    Restorers <- One
    MaxClock = 2
    MaxWrites = 1
    MaxOps = 3
    MaxCrashes = 0
INVARIANT FilesWhole
CHECK_DEADLOCK FALSE
