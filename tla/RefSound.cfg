SPECIFICATION Spec
CONSTANTS
    Writers = {w}
    Commits = {"c1", "c2", "c3"}
    Tree <- TreeOf
    Payloads <- PayloadsOf
    Branches = {"branch"}
    None = None
    Stores <- SoundStores
INVARIANTS  PrevIsPredecessor 
CHECK_DEADLOCK FALSE
