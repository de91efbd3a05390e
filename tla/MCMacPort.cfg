SPECIFICATION FairSpec
CONSTANTS
    Conns = {c1, c2}
    Writes = {w1}
    Searches = {q1}
    None = None
    MaxData = 1
    MaxCalls = 1
INVARIANTS TypeOK ResultIsOwn ProducerIsHeld OpenHasConsumer
PROPERTIES EveryCallReturns EndNoticed
CHECK_DEADLOCK FALSE
