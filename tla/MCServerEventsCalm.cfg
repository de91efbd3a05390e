SPECIFICATION CalmSpec
CONSTANTS
    Clients = {c1, c2}
    NoClient = NoClient
    Failed = Failed
    MaxData = 2
    MaxPipe = 1
PROPERTIES ImplementsSessions KnockAnswered DataDelivered DisconnectWorks SessionEnds
CHECK_DEADLOCK FALSE
