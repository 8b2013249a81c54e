\* A block without repeat.
CONSTANTS
    Bodies <- MCBodies
    StepsOf <- MCStepsOf
    Disk <- MCDisk
    Plans <- DefaultPlans
    Names <- MCNames
    DataDir <- MCDataDir
    PoolSize = 2
    RepeatGarbage = {0, 1, 3}
    MaxUnread = 2
    Faults = {}
    Absent = Absent
    Malformed = Malformed
SPECIFICATION Spec
PROPERTY RepeatDefaultsToOne
