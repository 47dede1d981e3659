SPECIFICATION VmSpec
CONSTANTS
    Spaces = {1, 2}
    NBlocks = 3
    PerBlock = 2
    Plans <- MCPlans
INVARIANTS
    
    PrivateCopies
PROPERTY
    FailuresUndone
CHECK_DEADLOCK FALSE
