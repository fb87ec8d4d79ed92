SPECIFICATION Spec
CONSTANTS
    MaxUriLen = 6
    Characters <- MCCharacters
    Requests <- MCRequests
    Capacity = 2
INVARIANTS
    OwnedOnce
    EndsAreApart
    SplitsAtSegment
    MetaVarsSplitUri
PROPERTY SmallBodyArrives
CHECK_DEADLOCK FALSE
