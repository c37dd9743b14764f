SPECIFICATION GuardedSpec
CONSTANTS
    Configs <- SmallConfigs
    Equities <- SmallEquities
    Scale = 2
    Proposals = {1, 2, 5}
    ExecPrices = {1, 3, 4}
    MaxObservations = 3
    MaxTraded = 6
INVARIANTS
    LimitsHold
    NothingTakenForNothing
    HaltedByDrawdown
