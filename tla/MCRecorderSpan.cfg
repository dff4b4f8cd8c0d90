SPECIFICATION Spec
CONSTANTS
    Subscribers = {a, b}
    RecordThreadId = rec
    NoMsg = NoMsg
    MAX_TASK_COUNT = 1
    MsgsPerSub = 1
    MaxSignals = 0
    Options <- SplitOptions
    MaxTime = 2
    DiskPeriod = 2
    IntRange = 16
    ULongRange = 64
    CanFail = FALSE
INVARIANTS
    SpanWithinDuration
