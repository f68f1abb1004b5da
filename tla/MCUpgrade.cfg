SPECIFICATION MCFairSpec
CONSTANTS
    Tasks = {t1, t2}
    Size = 2
    Old = Old
    New = New
    Torn = Torn
    None = None
    MaxFaults = 2
INVARIANTS StagedWhileRunning NoHole OldKept NotLeftStopped
PROPERTY Settles
CHECK_DEADLOCK FALSE
