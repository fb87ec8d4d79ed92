SPECIFICATION Spec
CONSTANTS
    Characters <- MCCharacters
    Uris <- MCUris
    Methods <- MCMethods
    Confs <- MCConfs
    MaxUriLen = 6
INVARIANTS
    TypeOK
    LongestMatch
    TargetUnderRoot
    PlainPathIsServed
CHECK_DEADLOCK FALSE
