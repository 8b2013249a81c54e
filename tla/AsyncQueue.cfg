CONSTANTS
    Threads = {t1, t2, t3}
    Elements = {a, b}
    Capacity = 2
    None = None
SPECIFICATION Spec
INVARIANTS TypeOK CapacityRespected NoLostWakeup StoppedIsQuiet
PROPERTIES ImplementsFifo StopReleasesEveryone NobodyOversleeps
