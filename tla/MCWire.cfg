CONSTANTS
    Senders = {s1, s2}
    MaxSends = 2
    First <- MCFirst
    Behind <- MCBehind
    Led <- MCLed
    Cut <- MCCut
    QueueCap = 1
    MaxFrame <- MCMaxFrame
    InitialCap = 6
    CompactAt = 4
    Buffers = {b1, b2, b3, b4}
    None = None
SPECIFICATION FairSpec
CHECK_DEADLOCK FALSE
INVARIANTS
    Faithful
    Stable
PROPERTY
    Arrives
