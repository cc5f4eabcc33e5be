CONSTANTS
    Client = {c1, c2}
    MaxSends = 3
    Backlog = 2
    MaxFd = 2
    SendBuffer = 2
SPECIFICATION Spec
CHECK_DEADLOCK FALSE
INVARIANTS
    TypeOK
    AllRegistered
    EchoedAll
PROPERTIES
    ImplementsEcho
    NobodyWaitsForever
