SPECIFICATION Spec
CONSTANTS
    Subscribers = {a, b}
    RecordThreadId = rec
    NoMsg = NoMsg
    MAX_TASK_COUNT = 2
    MsgsPerSub = 2
    MaxSignals = 2
    Options <- StopOptions
    MaxTime = 0
    DiskPeriod = 2
    IntRange = 16
    ULongRange = 64
    CanFail = TRUE
INVARIANTS
    TypeOK
    CleanExit
    OneSignalIsClean
    NoGaps
PROPERTIES
    ThreadAsSpecified
