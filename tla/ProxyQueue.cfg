\* Three slots and three kinds of message: the ring wraps around several times.
CONSTANTS
    Msgs = {m1, m2, m3}
    Nil = Nil
    Max = 3
SPECIFICATION QueueFairSpec
INVARIANTS
    NoLostSignal
PROPERTIES
    ImplementsFifo
    Delivered
