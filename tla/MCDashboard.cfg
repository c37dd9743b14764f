SPECIFICATION FairSpec
CONSTANTS
    s1 = s1
    s2 = s2
    NULL = NULL
    MAX_PRICE_POINTS = 1
    MAX_FILLS_ROWS = 2
    MAX_LAT_SAMPLES = 2
    Symbols = {s1, s2}
    SymList <- TwoSymbols
    Lines <- SomeLines
    SaveInterval = 2
    MaxTime = 3
    MaxRecords = 3
    MaxStarts = 2
    MaxFaults = 1
    MaxLines = 3
INVARIANTS
    StateFollowsRecords
    PanelsFollowState
    SnapshotAlmostCurrent
    CompleteShowsFile
PROPERTIES
    Reconnects
CHECK_DEADLOCK FALSE
