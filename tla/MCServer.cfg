SPECIFICATION Spec
CONSTANTS
    Clients = {c1, c2, c3}
    NoClient = NoClient
    Failed = Failed
    MaxData = 1
    MaxPipe = 2
SYMMETRY Interchangeable
INVARIANTS TypeOK OneReader OneAcceptor HeldIsKnown ReadIsCurrent
CHECK_DEADLOCK FALSE
