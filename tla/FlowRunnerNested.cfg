\* A subflow that calls a subflow.
CONSTANTS
    Bodies <- MCBodies
    StepsOf <- MCStepsOf
    Disk <- MCDisk
    Plans <- NestedPlans
    Names <- MCNames
    DataDir <- MCDataDir
    PoolSize = 4
    RepeatGarbage = {0, 1, 3}
    MaxUnread = 2
    Faults = {}
    Absent = Absent
    Malformed = Malformed
SPECIFICATION Spec
INVARIANT SubflowInFlowsDir
