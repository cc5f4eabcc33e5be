CONSTANTS
    Client = {c1, c2, c3}
    MaxSends = 1
    Backlog = 2
    MaxFd = 3
    SendBuffer = 1
    MAX_CLIENTS = 2
SPECIFICATION Spec
CHECK_DEADLOCK FALSE
INVARIANTS
    TypeOK
    SlotsMatchConnections
PROPERTIES NobodyWaitsForever ClosedOnlyWhenOver
