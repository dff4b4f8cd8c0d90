SPECIFICATION Spec
CONSTANTS
    Subscribers = {a, b}
    RecordThreadId = rec
    NoMsg = NoMsg
    MAX_TASK_COUNT = 1
    MsgsPerSub = 2
    MaxSignals = 0
    Options <- LimitOptions
    MaxTime = 0
    DiskPeriod = 2
    IntRange = 16
    ULongRange = 64
    CanFail = FALSE
INVARIANTS
    LimitLeavesABag
