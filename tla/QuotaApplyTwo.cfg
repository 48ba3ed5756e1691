CONSTANTS
    a = a
    b = b
    SubOrder <- MCSubOrder
    RegionOf <- MCRegionOf
    Limit0 <- MCLimit0
    Usage0 <- MCUsage0
    Asks <- MCAllKinds
    Growing = {"donor"}
    ScopeOrder <- MCOneScope
    Requests <- MCTwoRequests
    MaxChangesAsked = {0}
    Runtimes = 1
    MaxRuns = 2
    MaxSeconds = 2
    MaxGrowth = 1
SPECIFICATION Spec
INVARIANTS
    DonorsKeepCapturedBuffer
    SubmittedMeansChanged
SYMMETRY RequestSymmetry
CHECK_DEADLOCK FALSE
