CONSTANTS
    Client = {c1, c2}
    MaxSends = 2
    Backlog = 2
    MaxFd = 2
    SendBuffer = 2
    Address = {a1, a2}
    Thread = {t1, t2}
SPECIFICATION Spec
CHECK_DEADLOCK FALSE
INVARIANTS
    TypeOK
    OwnConnection
    OneOwner
PROPERTIES
    AnswersOnce
    ImplementsOneReply
    EveryClientServed
