SPECIFICATION FairSpec
CONSTANTS
    Calls <- AllCalls
    CommandId <- CallId
    Operation <- CallOperation
    None = None
    Clients <- Programs
INVARIANTS  SameIdSameReceipt GenerationsAgreeApart
    ReferencesExpire SealedDeltaMatchesParent
PROPERTIES CallsSettle
CHECK_DEADLOCK FALSE
