SPECIFICATION FairSpec
CONSTANTS
    Channels = {c1, c2}
    None = None
    MaxGiven = 3
    MaxSize = 2
    MaxElements = 6
    MaxServices = 2
    MaxRecords = 2
INVARIANTS AnswerIsGiven EndsForCause
PROPERTIES EveryCallAnswered
CHECK_DEADLOCK FALSE
