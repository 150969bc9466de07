\* Two probes run two checkers in order.  Once every probe is answered and
\* every execution is over, the system rests.
CONSTANTS
    r1 = r1
    r2 = r2
    db = db
    cache = cache
    None = None
    Requests = {r1, r2}
    CheckerList <- TwoCheckers
SPECIFICATION Spec
SYMMETRY Symmetry
INVARIANTS
    TypeOK
    OneRunPerChecker
PROPERTY
    OKMeansAllHealthy
CHECK_DEADLOCK FALSE
