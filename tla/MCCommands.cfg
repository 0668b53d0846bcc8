SPECIFICATION CommandsSpec
CONSTANTS
    c1 = c1
    c2 = c2
    Blank = Blank
    Bad = Bad
    Absent = Absent
    None = None
    Calls <- TwoCalls
    First = c1
    Arguments <- ConnectArguments
    ApUsers <- MCUsers
    ServerAddrs <- MCServerAddrs
    Hosts <- MCHosts
    Dsns <- MCDsns
    ApInputs <- MCApInputs
    ForwardInputs <- MCForwardInputs
    Slash = 1
    Paths <- MCPaths
    Balancers <- MCBalancers
    Auth <- MCAuth
    Requests <- MCRequests
    MaxMounts = 3
INVARIANTS
    RawOnlyIfCut
    ApSlotsServe
    
    RequestLongestMount
PROPERTIES
    CallEndsWhole
CHECK_DEADLOCK FALSE
