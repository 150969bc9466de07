\* One Run whose listener fails while the context is cancelled.
CONSTANTS
    m1 = m1
    m2 = m2
    q1 = q1
    q2 = q2
    root = root
    Callers = {m1}
    Requests = {q1}
    Patterns = {root}
    Timeouts = {1}
SPECIFICATION Spec
INVARIANT
    ServeFailureReported
