SPECIFICATION StrategySpec
CONSTANTS
    Window = 3
    EntryBps = 1000
    CoolDown = 2
    Mids = {0, 9, 10, 11}
    MaxTicks = 9
INVARIANT AnswersFollowHistory
CHECK_DEADLOCK FALSE
