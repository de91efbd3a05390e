\* One client, whose link may break with any errno.
SPECIFICATION CalmSpec
CONSTANTS
    Clients = {c1}
    NoClient = NoClient
    Failed = Failed
    MaxData = 1
    MaxPipe = 1
PROPERTIES ReadErrorEnds
CHECK_DEADLOCK FALSE
