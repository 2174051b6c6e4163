SPECIFICATION Spec
CONSTANTS
    Calls <- AllCalls
    CommandId <- CallId
    Operation <- CallOperation
    None = None
    Clients <- PipelinedProgram
INVARIANT GenerationsAgree
CHECK_DEADLOCK FALSE
