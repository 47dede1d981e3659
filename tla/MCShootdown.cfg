SPECIFICATION ShootFair
CONSTANTS
    CPUs = {c1, c2, c3}
    c1 = c1
    c2 = c2
    c3 = c3
    p1 = p1
    Procs = {0, 1}
    Pages = {p1}
    ALL = ALL
    None = None
    Workloads <- MCWorkloads
INVARIANTS
    NoStaleTranslation
    BooksBalance
PROPERTY
    EveryOperationReturns
