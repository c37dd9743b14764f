SPECIFICATION Spec
CONSTANTS
    s1 = s1
    s2 = s2
    NULL = NULL
    Symbols <- OneSymbol
    Capacity = 1
    MaxTicks <- Three
INVARIANT StatusAddsUp
CHECK_DEADLOCK FALSE
