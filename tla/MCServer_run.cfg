\* Two goroutines call Run; the shutdown timeout is reloaded between two values.
CONSTANTS
    m1 = m1
    m2 = m2
    q1 = q1
    q2 = q2
    root = root
    Callers = {m1, m2}
    Requests = {q1, q2}
    Patterns = {root}
    Timeouts = {1, 2}
SPECIFICATION FairSpec
INVARIANTS
    TypeOK
    OneRun
    NilIsGraceful
    DeadlineKept
PROPERTIES
    ImplementsService
    RunReturns
