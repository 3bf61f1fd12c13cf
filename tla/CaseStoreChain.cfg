SPECIFICATION Spec
CONSTANTS
    None = None
    MaxVersion = 6
    MaxFailures = 2
INVARIANTS
    TypeOK
    ChainVerifies
    GapsAreFailures
CHECK_DEADLOCK FALSE
