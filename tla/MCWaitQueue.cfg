SPECIFICATION FairSpec
CONSTANTS
    Waiters = {w1, w2}
    Wakers = {k1, k2}
    WAITERS = 1
    MaxItems = 1
    FREE = FREE
INVARIANTS
    NoLostWake
PROPERTY
    EveryWaitEnds
