SPECIFICATION Spec
CONSTANTS
    Conns = {c1, c2}
    Writes = {}
    Searches = {}
    None = None
    MaxData = 1
    MaxCalls = 1
PROPERTY ReleasedForCause
CHECK_DEADLOCK FALSE
