\* Start, Stop, Trigger and cancellation racing each other and both trigger
\* goroutines.  Nothing is dispatched to: no subscriber.  A Reloader whose
\* Start failed has nothing left to do.
CONSTANTS
    c1 = c1
    c2 = c2
    s1 = s1
    s2 = s2
    Clients = {c1, c2}
    SubNames = {}
    SourceList <- BothTriggers
    Debounce = 1
    StopAfterStart = TRUE
    FileWatchMayFail = TRUE
    MaxWrites = 1
SPECIFICATION Spec
SYMMETRY Symmetry
INVARIANTS
    TypeOK
    NoLostTrigger
    StopQuiesces
CHECK_DEADLOCK FALSE
