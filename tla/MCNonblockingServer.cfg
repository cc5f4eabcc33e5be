CONSTANTS
    Client = {c1, c2, c3}
    MaxSends = 2
    Backlog = 1
    MaxFd = 3
    SendBuffer = 1
    MAX_CLIENTS = 2
    Talkative = {c1}
    Mute = {c3}
SPECIFICATION MCSpec
CHECK_DEADLOCK FALSE
INVARIANTS
    TypeOK
    SlotsMatchConnections
PROPERTIES
    ImplementsEcho
    NobodyWaitsForever
