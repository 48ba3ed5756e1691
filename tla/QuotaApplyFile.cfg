CONSTANTS
    a = a
    b = b
    SubOrder <- MCSubOrder
    RegionOf <- MCRegionOf
    Limit0 <- MCLimit0
    Usage0 <- MCUsage0
    Asks <- MCTwoDonors
    Growing = {"donor"}
    ScopeOrder <- MCTwoScopes
    Requests <- MCTwoRequests
    MaxChangesAsked = {0}
    Runtimes = 1
    MaxRuns = 1
    MaxSeconds = 1
    MaxGrowth = 0
SPECIFICATION Spec
INVARIANT AppliesItsOwnPlan
CHECK_DEADLOCK FALSE
