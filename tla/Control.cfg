SPECIFICATION ControlSpec
CONSTANTS
    Requests = {r1, r2}
    MaxPages = 2
    LargeResults = {r2}
INVARIANTS
    SafeToRetry
    RunsAtMostOnce
PROPERTIES
    ReplacedPagesAreSilent
    
CHECK_DEADLOCK FALSE
