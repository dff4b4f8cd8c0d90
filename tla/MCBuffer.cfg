SPECIFICATION Spec
CONSTANTS
    Byte = {0, 1, 2}
    Zero = 0
    kCheapPrepend = 2
    kInitialSize = 2
    ExtraLen = 2
    Data <- MCData
    Sizes = {0, 1, 3}
    MaxSize = 7
INVARIANTS
    TypeOK
PROPERTIES
    ImplementsByteQueue
    GrowsOnlyWhenFull
    PrependRoomKept
