SPECIFICATION Spec
CONSTANTS
    u1 = u1
    k1 = k1
    k2 = k2
    l1 = l1
    l2 = l2
    None = None
    Users <- OneUser
    Keys <- TwoKeys
    Logins <- TwoLogins
    MaxGrants = 3
    MaxRows = 2
INVARIANTS
    OneKeyPerGrant
    AcceptedWasStored
    OneRole
SYMMETRY Symmetry
CHECK_DEADLOCK FALSE
