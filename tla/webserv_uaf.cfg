SPECIFICATION Spec
CONSTANTS
    NULL = NULL
    Clients = {c1, c2}
    Cgis = {g1, g2}
    Fds = {5, 6, 7, 8, 9}
    MaxEvents = 10
    Timeout = 1
    RespLen = 1
    MaxFaults = 0
    Stubborn = {}
SYMMETRY Symmetry
INVARIANT NoUseAfterFree
CHECK_DEADLOCK FALSE
