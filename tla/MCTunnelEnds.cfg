CONSTANTS
    Ids = {s1}
    MaxSlots = 1
    QueueCap = 1
    Window = 1
    MaxUp = 2
    MaxDown = 0
    None = None
SPECIFICATION RunningFairSpec
CHECK_DEADLOCK FALSE
PROPERTIES
    NoOrphanTarget
    NoOrphanSession
    Delivered
