SPECIFICATION GatewayFairSpec
CONSTANTS
    list1 = list1
    tool1 = tool1
    web = web
    c1 = c1
    c2 = c2
    c3 = c3
    Requests <- MCRequests
    Principals <- MCPrincipals
    PrincipalOf <- MCPrincipalOf
    Listings <- MCListings
    Window = 1
    MaxTime = 1
    MaxFaults = 1
    Clients <- MCClients
    HomeOf <- MCHomeOf
    CarrierOf <- MCCarrierOf
    MaxSessions = 2
INVARIANTS
    SentOnce
    RetriedElsewhere
    NoLeak
    WithinSessions
PROPERTIES
    NoLockout
    CallsEnd
CHECK_DEADLOCK FALSE
