CONSTANTS
    Offers <- MCOffers
    Target <- MCTarget
    TopN = 1
    MinScore = 40
SPECIFICATION LookupSpec
INVARIANT WorkerIsNotReplaced
CHECK_DEADLOCK FALSE
