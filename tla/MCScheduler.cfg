SPECIFICATION MCSpec
CONSTANTS
    CPUS = 2
    MaxLevel = 1
    N = 4
    None = None
    Masks = {{0}, {1, 2}}

    QueueN = 3
    LEVELS = 2
    Threads = {t1, t2, t3, t4}
    NoSlot = NoSlot
INVARIANTS
    
    NoWorkOnHaltedCpu
    TimersBelongToBlocked
PROPERTY
    QueueImplementsReadyQueue
