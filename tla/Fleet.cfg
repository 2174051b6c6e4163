\* Three machines, one of them pinned, and a limit that moves around two.
SPECIFICATION FairSpec
CONSTANTS
    Machines = {a, b, c}
    Pinned = {c}
    InitialLimit = 2
    Limits = {1, 3}
    None = None
    MaxLeases = 2
    MaxWakes = 2
    MaxFailures = 1
    MaxCommands = 1
INVARIANTS HotBudget CommandsUnderLease OnlySafeSuspended
PROPERTIES ImplementsPool MutationSettles
CHECK_DEADLOCK FALSE
