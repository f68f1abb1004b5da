CONSTANTS
    Ids = {s1, s2}
    Latecomers = {s2}
    MaxSlots = 1
    QueueCap = 1
    Window = 1
    MaxUp = 2
    MaxDown = 1
    None = None
SPECIFICATION MCFairSpec
CHECK_DEADLOCK FALSE
INVARIANTS
    SlotAccounting
    StopComplete
PROPERTIES
    SilentAfterGoodbye
    StopReturns
