SPECIFICATION FairSpec
CONSTANTS
    gopass = gopass
    keychain = keychain
    bitwarden = bitwarden
    vaultA = vaultA
    vaultB = vaultB
    sighup = sighup
    rpcCall = rpcCall
    watcher = watcher
    r1 = r1
    Invalid = Invalid
    NoTrigger = NoTrigger
    Watcher = watcher
    Types = {gopass, keychain}
    Configs <- MCConfigs
    Triggers = {sighup, rpcCall, watcher}
    Requests = {}
    MaxEdits = 2
    MaxProcs = 4
    MayFail = FALSE
    MayCrash = TRUE
    MayMiss = TRUE
PROPERTIES
    EditsTakeEffect
    ReloadsReturn
CHECK_DEADLOCK FALSE
