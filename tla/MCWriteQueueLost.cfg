\* The smallest case: two writes on one connection, then a second connection.
SPECIFICATION FairSpec
CONSTANTS
    Writes = {w1, w2}
    Conns = {c1, c2}
    Size = 1
    Sentinel = Sentinel
    NULL = NULL
PROPERTIES EveryWriteAnswered
CHECK_DEADLOCK FALSE
