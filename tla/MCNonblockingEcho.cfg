CONSTANTS
    Client = {c1, c2}
    MaxSends = 2
    Backlog = 2
    MaxFd = 2
    SendBuffer = 1
    MAX_CLIENTS = 2
    Talkative = {c1, c2}
    Mute = {}
SPECIFICATION Spec
CHECK_DEADLOCK FALSE
INVARIANT EchoesAll
