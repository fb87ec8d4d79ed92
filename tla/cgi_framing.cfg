SPECIFICATION Spec
CONSTANTS
    Scripts <- FieldScripts
    MaxHeaderSize = 8
INVARIANT OneFraming
CHECK_DEADLOCK FALSE
