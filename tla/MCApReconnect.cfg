SPECIFICATION Spec
CONSTANTS
    s1 = s1
    s2 = s2
    Services <- TwoServices
    MaxConnects = 2
    ShortReconnect = FALSE
PROPERTIES
    Reconnects
\* The process may have crashed, or the bound on connections be reached.
CHECK_DEADLOCK FALSE
