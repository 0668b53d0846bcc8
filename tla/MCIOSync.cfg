SPECIFICATION Spec
CONSTANT N = 2
INVARIANTS
    OneWinner
    LeftClosed
    LeakedMutexUnwanted
PROPERTIES
    OneEndEndsAll
\* Every goroutine may have returned.
CHECK_DEADLOCK FALSE
