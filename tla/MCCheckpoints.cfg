SPECIFICATION Spec
CONSTANTS
    alice = alice
    bob = bob
    Labels <- MCLabels
    OnStop = TRUE
    Reflink = TRUE
    Keep = 1
    Restorers <- One
    MaxClock = 2
    MaxWrites = 1
    MaxOps = 3
    MaxCrashes = 1
INVARIANTS
    TypeOK
    TmpOwned
    KeptUntilRemoved
    NewestKept
    WithinKeep
    RunsOnImage
PROPERTIES
    CheckpointsFrozen
    ReplacedIsSaved
    ImplementsStore
CHECK_DEADLOCK FALSE
