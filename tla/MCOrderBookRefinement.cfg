SPECIFICATION Spec
CONSTANTS
    i1 = i1
    i2 = i2
    i3 = i3
    NULL = NULL
    Capacity = 3
    Ids = {i1, i2, i3}
    Prices = {1, 2, 3}
    Quantities = {0, 1, 2}
    QtyModulus = 8
    AllowDuplicateIds = FALSE
SYMMETRY IdSymmetry
INVARIANTS
    LevelsSorted
    IndexExact
PROPERTY ImplementsPriceTime
