SPECIFICATION MCSpec
CONSTANTS
    Tasks = {t1, t2}
    Size = 2
    Old = Old
    New = New
    Torn = Torn
    None = None
    MaxFaults = 1
INVARIANT RollbackWorks
CHECK_DEADLOCK FALSE
