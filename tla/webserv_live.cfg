SPECIFICATION WireSpec
CONSTANTS
    NULL = NULL
    Clients = {c1, c2}
    Cgis = {g1}
    Fds = {5, 6, 7}
    MaxEvents = 4
    Timeout = 1
    RespLen = 2
    MaxFaults = 0
    Stubborn = {}
INVARIANTS
    NoUseAfterFree
PROPERTIES
    LoopReturns
    QuietClientIsClosed
    ImplementsConnection
    BegunAnswerEnds
