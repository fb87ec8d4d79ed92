SPECIFICATION Spec
CONSTANTS
    Clients <- MCClients
    Heads <- MCHeads
    BodyBytes <- MCBodyBytes
    MaxStream <- MCMaxStream
    Limit = 2
    MaxPayloadSize = 4
    MaxUriSize = 3
    MaxHeaderSize = 3
    SizeBits = 8
    MaxPending = 5
    MaxSegment = 2
INVARIANTS
    TypeOK
    ReadPosInBuffer
    ContentLengthExact
    BodyWithinLimit
    BodyHeadersEnsured
    ChunkedAgrees
    MalformedNoticed
PROPERTY ParseReturns
CHECK_DEADLOCK FALSE
