SPECIFICATION FairSpec
CONSTANTS
    Putters = {p1, p2, p3}
    Takers = {t1, t2}
    Stoppers = {s1}
    Items = {x, y}
    None = None
    max_size_ = 2
    MaxPuts = 3
INVARIANTS
    TypeOK
    NoLostWakeup
    StopLeavesNobodyAsleep
PROPERTIES
    ImplementsChannel
    QueueDrained
    StopReleasesEveryone
