SPECIFICATION FairSpec
CONSTANTS
    p1 = p1
    p2 = p2
    Producers = {p1, p2}
    MaxRecords = 2
    MaxStarts = 2
INVARIANTS
    SinksHaveOneWriter
    StopDelivers
PROPERTIES
    RecordsReachSinks
    ImplementsLog
CHECK_DEADLOCK FALSE
