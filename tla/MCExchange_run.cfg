SPECIFICATION MCSpec
CONSTANTS
    q1 = q1
    q2 = q2
    Requests = {q1, q2}
    Arrivals <- MCArrivals
    WellFormed <- MCWellFormed
    Timeouts = {1, 2}
    BootTimeout = 1
    None = None
    MaxOps = 3
    MaxApplies = 1
SYMMETRY Symmetry
CHECK_DEADLOCK FALSE
INVARIANTS
    TypeOK
    LoggedStatusTrue
    LoggedBytesTrue
    LoggedOnce
    PanicAborts
    IDReturned
    DeadlineFresh
    OwnRoutesExact
