SPECIFICATION Spec
CONSTANTS
    MaxUriLen = 6
    Characters <- MCCharacters
    Requests <- BodyRequests
    Capacity = 2
INVARIANT BodyIsPassed
CHECK_DEADLOCK FALSE
