SPECIFICATION Spec
CONSTANTS
    NULL = NULL
    Clients = {c1, c2}
    Cgis = {g1, g2}
    Fds = {5, 6, 7, 8}
    MaxEvents = 2
    Timeout = 1
    RespLen = 2
    MaxFaults = 1
    Stubborn = {}
SYMMETRY Symmetry
INVARIANTS
    TypeOK
    LinksAgree
    SocketsExact
    ClientEventsLive
    DanglingOnlyIfInherited
    NoOrphanChild
    OutHasAnswer
    NoStrandedClient
PROPERTIES
    PartialResponseKept
CHECK_DEADLOCK FALSE
