CONSTANTS
    u1 = u1
    Users <- MCUsers
    Ticks <- MCTicks
    Scopes <- MCScopes
    RegionsPerCall = 2
    Changing = {"west"}
    Partial = {"west"}
    MaxChanges = 1
    MaxLookups = 2
    MaxAge = 1
    MaxRestarts = 1
SPECIFICATION Spec
PROPERTY WarningsStayInTheirChunk
CHECK_DEADLOCK FALSE
