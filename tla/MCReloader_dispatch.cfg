\* Two clients racing Trigger against the worker, two subscribers that may
\* fail, two rewrites of the file.
CONSTANTS
    c1 = c1
    c2 = c2
    s1 = s1
    s2 = s2
    Clients = {c1, c2}
    SubNames = {s1, s2}
    SourceList <- NoTriggers
    Debounce = 1
    StopAfterStart = TRUE
    FileWatchMayFail = FALSE
    MaxWrites = 2
SPECIFICATION Spec
SYMMETRY Symmetry
INVARIANTS
    TriggerSeesItsFile
    LaggingReported
    LastAppliedIsCarried
PROPERTIES
    AppliedAdvances
    ImplementsService
