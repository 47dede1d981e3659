SPECIFICATION Spec
CONSTANTS
    N = 2
    Stride = 2
    MaxGeneration = 4
    Objects = {o1, o2}
    Kinds = {Event}
    Rights = {"DUPLICATE", "TRANSFER"}
    NoEntry = NoEntry
    MaxList = 2
INVARIANTS
    TypeOK
    ResolvesExactlyWhileOpen
    RetiredAfterItsCycles
    AllOrNothing
    RightsNeverWiden
