CONSTANTS
    p = p
    q = q
    Puts <- MCPuts
    Inputs <- MCInputs
    EnvSettings <- MCEnvSettings
    Null = Null
    NotANumber = NotANumber
    MaxRestarts = 1
SPECIFICATION Spec
INVARIANT EnvironmentIsFallback
CHECK_DEADLOCK FALSE
