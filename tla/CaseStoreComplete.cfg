SPECIFICATION Spec
CONSTANTS
    None = None
    MaxVersion = 6
    MaxFailures = 2
INVARIANTS
    TimelineComplete
CHECK_DEADLOCK FALSE
