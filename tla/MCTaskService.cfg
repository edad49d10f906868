CONSTANTS
    t1 = t1
    k1 = k1
    k2 = k2
    k3 = k3
    k4 = k4
    Tasks = {t1}
    Keys = {k1, k2, k3, k4}
    KeyOrder <- SomeOrder
    Requests <- SomeRequests
    MaxKeys = 3
    Concurrency = 2
    CheckpointEvery = 2
    DbConnections = 1
    QueueLimit = 1
    MaxStops = 2
    NoRow = NoRow
SPECIFICATION FairSpec
CHECK_DEADLOCK FALSE
INVARIANTS
    AllKeysAccounted
    VerdictMatches
    QueueIsAccounted
PROPERTIES
    FinishedRowsAreFinal
    ProgressIsKept
    AcceptedFinishes
    InterruptedIsClosed
