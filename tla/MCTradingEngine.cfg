SPECIFICATION Spec
CONSTANTS
    Configs <- SmallConfigs
    Ticks <- SmallTicks
    Scale = 2
    Prices = {2, 3, 5}
    Quantities = {0, 1, 3}
    NULL = NULL
    MaxFills = 3
INVARIANTS
    QuotesMatchBook
    PositionWithinLimit
PROPERTIES
    FillsWithinLimits
    FillsMakeNoMoney
    ImplementsAccount
