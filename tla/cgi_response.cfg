SPECIFICATION Spec
CONSTANTS
    Scripts <- MCScripts
    MaxHeaderSize = 8
INVARIANTS
    LoopStaysInHeader
    BodyIsRest
    StatusFromScript
    IsDelimited
CHECK_DEADLOCK FALSE
