CONSTANTS
    j1 = j1
    j2 = j2
    t1 = t1
    Jobs <- MCJobs
    Ticks <- MCTicks
    Requests <- MCRequests
    MaxRestarts = 1
    RejectionFatal = TRUE
SPECIFICATION Spec
INVARIANTS
    NoStrandedJob
    ReportedSuccessIsDurable
    LogAgreesWithJob
    FailureIsReported
PROPERTIES
    JobsMoveForward
    PublishesInTurn
SYMMETRY JobSymmetry
CHECK_DEADLOCK FALSE
