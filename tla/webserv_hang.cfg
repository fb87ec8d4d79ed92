SPECIFICATION Spec
CONSTANTS
    NULL = NULL
    Clients = {c1}
    Cgis = {g1}
    Fds = {5, 6, 7}
    MaxEvents = 10
    Timeout = 1
    RespLen = 1
    MaxFaults = 0
    Stubborn = {g1}
PROPERTY LoopReturns
