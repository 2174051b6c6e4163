\* Any three calls, the first of which is initialize, with one fault.
SPECIFICATION Spec
CONSTANTS
    GuestCount = 2
    Kinds = {"initialize", "save", "suspend", "retrySuspendCleanup", "exportImage", "importImage", "dispose"}
    MaxCalls = 3
    MaxContexts = 2
    Workers = {1}
    MaxWork = 1
    MaxFaults = 1
INVARIANTS GenerationsAreOneMoment ColdIsDurable GuestsComeBack ImportIsAtomic
 
CHECK_DEADLOCK FALSE
