\* One session, to which requests return; checks only what the documentation says.
CHECK_DEADLOCK FALSE
CONSTANTS
    PoolSize = 1
    NumWorkers = 1
    Sizes = {"short", "long"}
    Faults = {}
SPECIFICATION Spec
INVARIANTS SentAsRendered
