SPECIFICATION Spec
CONSTANTS
    HostPorts = {443}
    Pins <- MCPins
    Patterns <- MCPatterns
    Credentials <- MCCredentials
    Hosts <- MCHosts
    Ports = {53, 443}
    MaxConnections = 1
    MaxLines = 1
    JournalLines = 1
    MaxSteps = 3
INVARIANTS
    GrantsDecide
    DoorsServed
    HintAdmits
    UnusedIsSafe
CHECK_DEADLOCK FALSE
