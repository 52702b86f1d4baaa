SPECIFICATION Spec
CONSTANTS
    MaxMsgs = 2
    Notes = {n}
    Modes = {"http", "sse", "auto"}
    Cap = 1
    Slots = 1
    NoMsg = NoMsg
INVARIANTS
    RequestsOnce
    ResponsesKept
    AcceptedOrReported
PROPERTIES
    MainLoopReturns
    ReceivedIsDelivered
CHECK_DEADLOCK FALSE
