SPECIFICATION FairSpec
CONSTANTS
    gopass = gopass
    keychain = keychain
    personal = personal
    other = other
    NoServer = NoServer
    Types = {gopass, keychain}
    Vaults = {personal, other}
    TypeOf <- TwoTypes
    MaxProcs = 4
    MaxRpcs = 2
    MaxEdits = 1
    MaxHups = 2
    Early = TRUE
    MayFail = TRUE
INVARIANTS
    DrainBeforeKill
    StoppedClean
PROPERTIES
    QueuedTermShutsDown
CHECK_DEADLOCK FALSE
