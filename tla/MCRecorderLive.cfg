SPECIFICATION FairSpec
CONSTANTS
    Subscribers = {a, b}
    RecordThreadId = rec
    NoMsg = NoMsg
    MAX_TASK_COUNT = 1
    MsgsPerSub = 1
    MaxSignals = 2
    Options <- PlainOptions
    MaxTime = 1
    DiskPeriod = 2
    IntRange = 16
    ULongRange = 64
    CanFail = TRUE
PROPERTIES
    StopCompletes
    ProcessEnds
    AcceptedIsHandled
