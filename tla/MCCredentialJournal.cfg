SPECIFICATION Spec
CONSTANTS
    one = one
    both = both
    broken = broken
    stray = stray
    dots = dots
    header = header
    query = query
    Requests <- MCRequests
    Target <- MCTarget
    Body <- MCBody
    Mentions <- MCMentions
    Credentials = {header, query}
    DomainOf <- MCDomainOf
    Allow <- MCAllow
    Substitutes = {query}
    Scrubbed = {header, query}
    EscapedIn <- MCEscapedIn
    MaxInFlight = 2
INVARIANT JournalAgrees
CHECK_DEADLOCK FALSE
