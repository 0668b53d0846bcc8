SPECIFICATION Spec
CONSTANTS
    s1 = s1
    l1 = l1
    l2 = l2
    c1 = c1
    None = None
    Services <- OneService
    Locals <- TwoLocals
    Callers <- OneCaller
    MaxSessions = 2
INVARIANTS
    ReconnectSurvives
\* The process may have ended, or the main loop.
CHECK_DEADLOCK FALSE
