SPECIFICATION FairSpec
CONSTANTS
    v1 = v1
    v2 = v2
    NULL = NULL
    Values = {v1, v2}
    MinCapacity = 3
    Capacity = 4
    Modulus = 8
INVARIANTS
    TypeOK
    CountersInOrder
    NoSlotRace
PROPERTIES
    EveryPushIsPopped
    ImplementsFifo
