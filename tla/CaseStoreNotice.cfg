SPECIFICATION Spec
CONSTANTS
    None = None
    MaxVersion = 6
    MaxFailures = 2
INVARIANTS
    NoticeSurvives
CHECK_DEADLOCK FALSE
