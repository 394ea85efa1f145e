SPECIFICATION Spec
CONSTANTS
    list1 = list1
    list2 = list2
    tool1 = tool1
    tool2 = tool2
    web = web
    mail = mail
    Requests <- MCListings
    Principals <- MCPrincipals
    PrincipalOf <- MCTwoListings
    Listings <- MCListings
    Window = 1
    MaxTime = 0
    MaxFaults = 2
INVARIANT OneDeathUnnoticed
CHECK_DEADLOCK FALSE
