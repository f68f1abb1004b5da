CONSTANTS
    Scripts <- Clients
    Senders = {a, b, c}
    Own = {a, b}
    Window = 1
    HeaderCap = 2
    BufferCap = 5
    MaxDown = 1
    MaxDatagrams = 2
    None = None
SPECIFICATION FairSpec
CHECK_DEADLOCK FALSE
INVARIANTS
    Faithful
    ClientView
PROPERTIES
    EndsInFull
    RefusalEnds
    AllHanded
