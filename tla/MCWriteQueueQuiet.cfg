\* Connections are constructed only while nothing is pending; buffers of two
\* units, so that write(2) can take a part of one.  No symmetry: liveness.
SPECIFICATION FairQuietSpec
CONSTANTS
    Writes = {w1, w2, w3}
    Conns = {c1, c2}
    Size = 2
    Sentinel = Sentinel
    NULL = NULL
INVARIANTS TypeOK RingIsLog
PROPERTIES ImplementsSerialWriter EveryWriteAnswered
CHECK_DEADLOCK FALSE
