SPECIFICATION OnceSpec
CONSTANTS
    Conns = {c1, c2}
    None = None
    MaxData = 2
INVARIANTS OneReader IsOpenIsExact DataInOrder ClosedForCause
PROPERTIES DataDelivered
CHECK_DEADLOCK FALSE
