\* Two computers share a payload and one database; two tabs, and a storage
\* that may lose one item; g1 has an owner epoch from a legacy database.
SPECIFICATION Spec
CONSTANTS
    None = None
    Groups = {"g1", "g2"}
    Owners = {o1, o2}
    Payloads = {p1}
    MaxDepth = 3
    MaxEpoch = 2
    MaxDamage = 1
    LegacyEpoch <- OneLegacy
    Generations <- MCGenerations
    Digests <- MCDigests
    Parent <- MCParent
    Fence <- MCFence
    Reach <- MCReach
INVARIANTS
    LineageUnbroken
    RecoveryWindowKept
PROPERTY HeadMovesUnderFence
CHECK_DEADLOCK FALSE
