\* The main thread may wait for ever for a connection that failed, hence no deadlock check.
CHECK_DEADLOCK FALSE
CONSTANTS
    PoolSize = 2
    NumWorkers = 2
    Sizes = {"short"}
    Faults = {"refuse", "drop"}
SPECIFICATION Spec
INVARIANTS TypeOK UsesOnlyLive ExitIsClean
PROPERTIES ImplementsLending BorrowerProceeds DestructorReturns
