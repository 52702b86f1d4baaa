SPECIFICATION Spec
CONSTANTS
    MaxSessions = 2
    MaxRestarts = 0
    NoId = NoId
    Callers = {main}
    Free = Free
    Main = main
    MaxVars = 0
    MaxLines = 1
PROPERTY EnsureReuses
CHECK_DEADLOCK FALSE
