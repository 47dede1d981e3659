SPECIFICATION WaitsSpec
CONSTANTS
    EventWaiters = {}
    QueueWaiters = {}
    ProcessWaiters = {}
    PollWaiters = {s1}
    Actors = {a1}
    Scenes <- MCScenes
    QUEUE_DEPTH = 2
    MaxNow = 1
INVARIANTS
    PollSeesSignal
