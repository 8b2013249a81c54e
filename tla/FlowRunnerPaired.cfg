\* Requests and responses in pairs, every session connects, anything else may fail.
CONSTANTS
    Bodies <- MCBodies
    StepsOf <- MCStepsOf
    Disk <- MCDisk
    Plans <- PairedPlans
    Names <- MCNames
    DataDir <- MCDataDir
    PoolSize = 3
    RepeatGarbage = {0, 1, 3}
    MaxUnread = 2
    Faults = {"drop", "notjson", "mismatch", "template"}
    Absent = Absent
    Malformed = Malformed
SPECIFICATION Spec
INVARIANTS OwnReply ReadsAreAnswered
PROPERTIES Ends
