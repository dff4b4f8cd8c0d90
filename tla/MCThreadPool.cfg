SPECIFICATION FairSpec
CONSTANTS
    Workers = {w1, w2}
    Clients = {c1}
    Stoppers = {s1, s2}
    NoTask = NoTask
    Adds <- FirstTwoAdd
    MAX_TASK_COUNT = 2
    ClientTasks = 2
    MaxTasks = 6
INVARIANTS
    TypeOK
PROPERTIES
    ImplementsTaskPool
    AcceptedAreBegun
    StopReturns
