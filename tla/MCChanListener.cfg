SPECIFICATION Spec
CONSTANTS
    d1 = d1
    d2 = d2
    d3 = d3
    c1 = c1
    c2 = c2
    Nobody = Nobody
    Dialers <- MCDialers
    Closers <- MCClosers
INVARIANTS
    ClosedOnce
    NoForgottenPipe
    NoSenderAtDeadListener
PROPERTIES
    CloseStopsAccept
    ImplementsVirtualListener
\* Every goroutine may have finished.
CHECK_DEADLOCK FALSE
