SPECIFICATION SequentialSpec
CONSTANTS
    Conns = {c1, c2}
    None = None
    MaxData = 2
INVARIANT ClosedForCause
CHECK_DEADLOCK FALSE
