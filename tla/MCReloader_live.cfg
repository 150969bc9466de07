\* Fair runs with two clients and the file trigger, a debounce window of one
\* tick and one rewrite of the file; endless triggers are allowed.
CONSTANTS
    c1 = c1
    c2 = c2
    s1 = s1
    s2 = s2
    Clients = {c1, c2}
    SubNames = {}
    SourceList <- FileOnly
    Debounce = 1
    StopAfterStart = TRUE
    FileWatchMayFail = TRUE
    MaxWrites = 1
SPECIFICATION LiveSpec
PROPERTIES
    StopTerminates
    CancelStopsAll
    TriggerCollected
    FileChangeLoaded
CHECK_DEADLOCK FALSE
