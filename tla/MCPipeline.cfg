SPECIFICATION FairSpec
CONSTANTS
    s1 = s1
    s2 = s2
    NULL = NULL
    Symbols <- TwoSymbols
    Capacity = 1
    MaxTicks <- Uneven
INVARIANTS
    TicksAccountedFor
    NobodyPublishesLate
    EveryFillReported
PROPERTIES
    EveryTickHandled
    ShutdownCompletes
CHECK_DEADLOCK FALSE
