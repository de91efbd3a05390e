SPECIFICATION Spec
CONSTANTS
    Conns = {c1, c2}
    Writes = {w1}
    Handles = {h1, h2}
    Threads = 2
    None = None
    MaxData = 1
    MaxOpen = 1
    Overlap = FALSE
PROPERTY SentToOwn
CHECK_DEADLOCK FALSE
