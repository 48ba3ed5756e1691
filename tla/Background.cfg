CONSTANTS
    a = a
    b = b
    SubOrder <- MCSubOrder
    RegionOf <- MCRegionOf
    Limit0 <- MCLimit0
    Usage0 <- MCUsage0
    Asks <- MCAllKinds
    Growing = {"donor"}
    ScopeOrder <- MCTwoScopes
    Requests <- MCOneRequest
    MaxChangesAsked = {0, 2}
    Runtimes = 2
    MaxRuns = 1
    MaxSeconds = 1
    MaxGrowth = 1
    Jobs = {j1}
    Ticks = {t1}
    Internal = {r1}
    MaxRestarts = 1
    RejectionFatal = FALSE
SPECIFICATION BackgroundSpec
INVARIANTS
    NothingUnreported
PROPERTIES
    JobsSettle
    RunsEnd
    AppliesEnd
CHECK_DEADLOCK FALSE
