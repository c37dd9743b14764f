SPECIFICATION Spec
CONSTANTS
    i1 = i1
    NULL = NULL
    Capacity = 4
    Ids = {i1}
    Prices = {1, 2, 3}
    Quantities = {1, 2}
    QtyModulus = 4
    AllowDuplicateIds = TRUE
INVARIANTS
    TypeOK
    BookNeverCrossed
    LevelsWellFormed
    SlotsPartitioned
    IndexEntriesLive
    FokAllOrNothing
    FokKilledOnlyWhenShort
