SPECIFICATION FairSpec
CONSTANTS
    Producers = {p1}
    Consumers = {c1}
    Owner = owner
    Nobody = nobody
    MinCap = 2
    Requests = {1, 3}
    MaxPush = 3
    MaxItems = 7
PROPERTY PopReturns
CHECK_DEADLOCK FALSE
