SPECIFICATION MCSpec
CONSTANTS
    N = 2
    BAG = 1
    M = 8
    MaxDepth = 2
    FirstEpoch = 7
    MaxEpoch = 1
    Nodes = {n1, n2}
    Null = Null
    Flusher = Flusher
    Quiescent = TRUE
    EventWaiters = {e1}
    QueueWaiters = {q1, q2}
    ProcessWaiters = {p1}
    PollWaiters = {s1}
    Actors = {a1, a2}
    Scenes <- MCScenes
    QUEUE_DEPTH = 1
    MaxNow = 2
SYMMETRY MCSymmetry
INVARIANTS
    NeverReclaimedWhileRead
    NoWaitMissesItsObject
    
PROPERTY
    FlushLeavesNothing
CHECK_DEADLOCK FALSE
