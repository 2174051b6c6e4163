\* Two tabs, two ownership terms, one failing write or callback.
SPECIFICATION FairSpec
CONSTANTS
    Tabs = {a, b}
    None = None
    MaxEpoch = 2
    MaxFailures = 1
PROPERTIES  StopSettles FailedStartLetsGo
CHECK_DEADLOCK FALSE
