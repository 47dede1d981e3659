SPECIFICATION MCSpec
CONSTANTS
    Setups <- MCSetups
    Rigs <- MCRigs
    InboxSize = 1
    DomainSlots = 2
    MaxAsked = 3
    MaxStarts = 2
    MaxServes = 2
INVARIANTS
    ReadsNewest
    SyncedSurvives
    RingSound
    CompletionAnnounced
    NoStrandedCompletion
PROPERTIES
    RefinesOrderedDisk
    ResultsAreOwn
