SPECIFICATION Spec
CONSTANTS
    a1 = a1
    x1 = x1
    x2 = x2
    s1 = s1
    s2 = s2
    l1 = l1
    l2 = l2
    l3 = l3
    None = None
    Free = Free
    Clients <- MCClients
    Aps <- MCAps
    ApOf <- MCApOf
    Services <- MCServices
    Listeners <- TwoListeners
    Rows <- OneRow
PROPERTIES
    RequestIsRegistered
\* Every connection may have come and gone.
CHECK_DEADLOCK FALSE
