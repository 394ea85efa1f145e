SPECIFICATION Spec
CONSTANTS
    list1 = list1
    list2 = list2
    tool1 = tool1
    tool2 = tool2
    web = web
    mail = mail
    Requests <- MCRequests
    Principals <- MCPrincipals
    PrincipalOf <- MCPrincipalOf
    Listings <- MCListing
    Window = 1
    MaxTime = 2
    MaxFaults = 2
INVARIANT OnlyIdleDropped
CHECK_DEADLOCK FALSE
