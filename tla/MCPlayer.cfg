SPECIFICATION FairSpec
CONSTANTS
    BagLists <- SomeBags
    Refused = Refused
    Horizon = 6
    MaxSignals = 2
    MaxSetBacks = 1
INVARIANTS
    TypeOK
    PrintsAll
PROPERTIES
    ImplementsPlayback
    Ends
