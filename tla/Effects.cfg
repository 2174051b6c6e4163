SPECIFICATION Spec
CONSTANTS
    Txs = {t1}
    Calls = {c1, c2}
    Nonces = {k1}
    MaxCrashes = 1
    MaxTx = 8
    MaxSession = 4
SYMMETRY Interchangeable
INVARIANTS
    SentAtMostOnce
    SentIsRecorded
    
PROPERTIES
    ResultStays
CHECK_DEADLOCK FALSE
