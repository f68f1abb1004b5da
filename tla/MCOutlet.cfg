CONSTANTS
    Ids = {s1}
    Attempts = {a1}
    QueueCap = 1
    Window = 1
    MaxUp = 3
    MaxDown = 2
    None = None
SPECIFICATION MCFairSpec
CHECK_DEADLOCK FALSE
INVARIANTS
    Managed
    StopComplete
PROPERTIES
    Reclaimed
