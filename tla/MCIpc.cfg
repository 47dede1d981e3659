SPECIFICATION Spec
CONSTANTS
    StoreN = 2
    StoreMaxGeneration = 2
    StoreMaxRefs = 3
    StoreIds = {i1, i2}
    StoreKinds = {Event, Job}
    StoreObjects = {o1, o2}
    Tasks = {t1, t2}
    NoObject = NoObject

    N = 2
    Stride = 2
    MaxGeneration = 2
    Objects = {"A", "B", "E"}
    Kinds = {"Channel", "Event"}
    Rights <- MCRights
    NoEntry = NoEntry
    D = 2
    H = 1
    NoBytes = NoBytes
    Procs = {p1, p2}
    MaxRefs = 2
    Masks <- MCMasks
    MaxSent = 3
    Loose <- MCLoose

    CAP = 2
    MaxIds = 2
    SetD = 1
    SetH = 1
    SetMaxRefs = 2
    Others = {X}
    NoChannel = NoChannel
SYMMETRY MCSymmetry
INVARIANTS
    StoreSound
    ChannelConserves
    ChannelOrdered
    SetCollected
PROPERTIES
    StoreImplementsLifetime
    ReachableKept
CHECK_DEADLOCK FALSE
