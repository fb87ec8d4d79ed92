SPECIFICATION Spec
CONSTANTS
    Clients = {"body"}
    Heads <- MCHeads
    BodyBytes <- MCBodyBytes
    MaxStream <- MCMaxStream
    Limit = 2
    MaxPayloadSize = 4
    MaxUriSize = 3
    MaxHeaderSize = 3
    SizeBits = 8
    MaxPending = 5
    MaxSegment = 2
INVARIANT MalformedIsRefused
CHECK_DEADLOCK FALSE
