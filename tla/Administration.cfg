CONSTANTS
    p = p
    q = q
    Puts <- MCPuts
    Inputs <- MCInputs
    EnvSettings <- MCEnvSettings
    Null = Null
    NotANumber = NotANumber
    MaxRestarts = 1
    MaxJobs = 1
    MaxFailures = 1
    MaxVisits = 1
SPECIFICATION AdminSpec
INVARIANTS
    TimersMatchConfig
    SchedulesAreWhole
    UndisturbedSaveTakesEffect
PROPERTIES
    WarmupStartsSchedulers
    EndedRunsAreShown
CHECK_DEADLOCK FALSE
