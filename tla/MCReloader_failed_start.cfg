\* Start gives up because the file cannot be watched.
CONSTANTS
    c1 = c1
    c2 = c2
    s1 = s1
    s2 = s2
    Clients = {c1, c2}
    SubNames = {}
    SourceList <- FileOnly
    Debounce = 0
    StopAfterStart = TRUE
    FileWatchMayFail = TRUE
    MaxWrites = 0
SPECIFICATION Spec
SYMMETRY Symmetry
INVARIANT
    ErrStoppedAfterStop
CHECK_DEADLOCK FALSE
