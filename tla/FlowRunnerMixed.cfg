\* Scripts of every kind; the main thread may hang for ever, hence no deadlock check.
CHECK_DEADLOCK FALSE
CONSTANTS
    Bodies <- MCBodies
    StepsOf <- MCStepsOf
    Disk <- MCDisk
    Plans <- MixedPlans
    Names <- MCNames
    DataDir <- MCDataDir
    PoolSize = 3
    RepeatGarbage = {0, 1, 3}
    MaxUnread = 2
    Faults = {"refuse", "drop", "notjson", "mismatch", "template"}
    Absent = Absent
    Malformed = Malformed
SPECIFICATION Spec
INVARIANTS TypeOK SessionsConserved ReturnNeverBlocks StarvesOnlyWhenNested ExitClosesAll
           NothingFromLater FailureTellsTheTrail
PROPERTIES FreshConnection NoReplyStolen KeepsSchedule ImplementsLending EndsOrHangs
