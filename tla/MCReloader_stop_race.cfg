\* One client calls Stop while another is inside Start.
CONSTANTS
    c1 = c1
    c2 = c2
    s1 = s1
    s2 = s2
    Clients = {c1, c2}
    SubNames = {s1}
    SourceList <- NoTriggers
    Debounce = 0
    StopAfterStart = FALSE
    FileWatchMayFail = FALSE
    MaxWrites = 0
SPECIFICATION Spec
SYMMETRY Symmetry
INVARIANT
    StopQuiesces
