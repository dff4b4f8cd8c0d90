SPECIFICATION Spec
CONSTANTS
    Options <- MCOptions
    Msgs <- MCMsgs
    MaxTime = 4
    MaxMsgs = 4
    DiskPeriod = 2
    IntRange = 4
    ULongRange = 16
    MinSpace = 1
    CanFail = TRUE
INVARIANTS
    TypeOK
    Accounted
    HeaderCounts
    SplitWithinLimits
    LimitStops
    Retention
    OneActive
PROPERTIES
    FinishedBagIsFinal
