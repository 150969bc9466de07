\* A second probe arrives after the first was answered.
CONSTANTS
    r1 = r1
    r2 = r2
    db = db
    cache = cache
    None = None
    Requests = {r1, r2}
    CheckerList <- OneChecker
SPECIFICATION Spec
SYMMETRY Symmetry
INVARIANT
    FreshExecution
CHECK_DEADLOCK FALSE
