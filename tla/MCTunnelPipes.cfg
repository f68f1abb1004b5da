CONSTANTS
    Ids = {s1}
    MaxSlots = 1
    QueueCap = 1
    Window = 2
    MaxUp = 2
    MaxDown = 2
    None = None
SPECIFICATION RunningSpec
CHECK_DEADLOCK FALSE
INVARIANTS
    CreditConserved
PROPERTIES
    UpIsPipe
    DownIsPipe
