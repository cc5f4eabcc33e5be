CONSTANTS
    Client = {c1, c2, c3}
    Scripted = {c3}
    MaxSends = 2
    Backlog = 2
    MaxFd = 1
    SendBuffer = 1
SPECIFICATION Spec
CHECK_DEADLOCK FALSE
INVARIANTS
    TypeOK
    OnlyAbortsAreFelt
PROPERTIES
    GracefulClose
    ImplementsOneReply
    OnlySilenceDelays
    PairsFinish
