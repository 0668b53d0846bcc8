SPECIFICATION TSpec
CONSTANTS
    a1 = a1
    x1 = x1
    x2 = x2
    s1 = s1
    s2 = s2
    l1 = l1
    l2 = l2
    q1 = q1
    None = None
    Free = Free
    Aps <- MCAps
    Clients <- MCClients
    ApOf <- MCApOf
    Services <- MCServices
    Listeners <- TwoListeners
    Rows <- OneRow
    Calls <- OneCall
    Want <- MCWant
INVARIANTS
    RightTarget
    HungOnlyByDeparture
PROPERTIES
    CallIsAnswered
    TunnelEndsWhole
\* Every call may have ended and every connection be gone.
CHECK_DEADLOCK FALSE
