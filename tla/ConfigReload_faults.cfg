SPECIFICATION Spec
CONSTANTS
    gopass = gopass
    keychain = keychain
    bitwarden = bitwarden
    vaultA = vaultA
    vaultB = vaultB
    sighup = sighup
    rpcCall = rpcCall
    watcher = watcher
    r1 = r1
    Invalid = Invalid
    NoTrigger = NoTrigger
    Watcher = watcher
    Types = {gopass, keychain, bitwarden}
    Configs <- FaultConfigs
    Triggers = {rpcCall, watcher}
    Requests = {r1}
    MaxEdits = 3
    MaxProcs = 7
    MayFail = TRUE
    MayCrash = TRUE
    MayMiss = FALSE
INVARIANTS
    NoOrphans
    ActivePluginsLoaded
    LeftoversContained
PROPERTIES
    KeptPluginsUntouched
CHECK_DEADLOCK FALSE
