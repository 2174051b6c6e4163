SPECIFICATION Spec
CONSTANTS
    Txs = {t1}
    Calls = {c1, c2}
    Nonces = {k1}
    MaxCrashes = 1
    MaxTx = 8
    MaxSession = 4
SYMMETRY Interchangeable
INVARIANT OneSendBudget
CHECK_DEADLOCK FALSE
