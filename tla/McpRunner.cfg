SPECIFICATION Spec
CONSTANTS
    MaxSessions = 3
    MaxRestarts = 1
    NoId = NoId
    Callers = {main, other}
    Free = Free
    Main = main
    MaxVars = 1
    MaxLines = 1
INVARIANTS
    ChildServed
PROPERTIES
    LiveNotReplaced
    FetchReturns
    RunnerFollowsChild
CHECK_DEADLOCK FALSE
