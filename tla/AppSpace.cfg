SPECIFICATION AppSpec
CONSTANTS
    Ops = {o1, o2, o3}
    MaxWrites = 1
    MaxBoots = 1
    Pipelined = FALSE
INVARIANTS
    PairsAreOneMoment
    FailedAdoptKeepsHead
    FenceReleased
PROPERTIES
    BothSidesTogether
CHECK_DEADLOCK FALSE
SYMMETRY Interchangeable
