SPECIFICATION FairSpec
CONSTANTS
    Domains <- MCDomains
    Denied <- MCDenied
    Intercepted <- MCIntercepted
    HostTLS = FALSE
    Hellos <- MCHellos
    Units = {0, 1, 3}
    Prefix = 2
    MaxHello = 4
    MaxAddresses = 2
    MaxRecords = 4
    MaxAnswers = 1
INVARIANTS
    RoutedByName
    InOrder
    EndIsComplete
    NeverInside
PROPERTY ConnectionsEnd
CHECK_DEADLOCK FALSE
