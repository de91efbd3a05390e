SPECIFICATION CalmSpec
CONSTANTS
    Clients = {c1, c2}
    NoClient = NoClient
    Failed = Failed
    MaxData = 1
    MaxPipe = 1
INVARIANT DroppedOnRequest
CHECK_DEADLOCK FALSE
