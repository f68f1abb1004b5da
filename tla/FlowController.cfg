\* One goroutine acquires, the session's reader; size 8 is an oversized payload.
CONSTANTS
    Callers = {c1}
    Sizes = {1, 2, 3, 8}
    MaxBytes = 7
SPECIFICATION FairSpec
INVARIANTS
    NoCreditDrift
    NoLostWakeup
PROPERTIES
    NoGrantAfterClose
    AcquireReturns
