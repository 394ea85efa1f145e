SPECIFICATION FairSpec
CONSTANTS
    name = name
    aaaa = aaaa
    odd = odd
    s1 = s1
    s2 = s2
    Queries <- MCQueries
    ClassOf <- MCClassOf
    Says <- MCSays
    Streams = {s1, s2}
    HostGrant = TRUE
    Burst = 1
    Rate = 1
    MaxQueries = 1
    MaxStreams = 1
    MaxTime = 2
INVARIANTS
    TypeOK
    WithinRate
    AskedIsPaid
    SlotsCounted
    AnswersFit
PROPERTY SlotsReturn
CHECK_DEADLOCK FALSE
