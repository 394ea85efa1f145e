SPECIFICATION FairSpec
CONSTANTS
    alice = alice
    bob = bob
    Labels <- MCLabelsPlain
    OnStop = TRUE
    Reflink = FALSE
    Keep = 1
    Restorers <- One
    MaxClock = 2
    MaxWrites = 1
    MaxOps = 3
    MaxCrashes = 1
INVARIANTS
    FilesWhole
    RestoreInstalls
PROPERTIES
    WritersEnd
    RestoresEnd
CHECK_DEADLOCK FALSE
