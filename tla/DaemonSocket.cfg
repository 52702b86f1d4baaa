SPECIFICATION Spec
CONSTANTS
    Procs = {p1, p2, p3}
    NoFile = NoFile
    Stale = Stale
    MaxStarts = 5
    MaxFaults = 3
INVARIANTS
    ServingReachable
PROPERTIES
    SpawnedAnswers
CHECK_DEADLOCK FALSE
