\* Fair runs of two probes and one checker that may block for ever.
CONSTANTS
    r1 = r1
    r2 = r2
    db = db
    cache = cache
    None = None
    Requests = {r1, r2}
    CheckerList <- OneChecker
SPECIFICATION FairSpec
PROPERTIES
    EveryProbeAnswered
    SlotReleased
    ImplementsService
CHECK_DEADLOCK FALSE
