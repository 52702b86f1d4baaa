SPECIFICATION Spec
CONSTANTS
    p1 = p1
    p2 = p2
    pinentry = pinentry
    gopass = gopass
    keychain = keychain
    Procs = {p1, p2}
    Entries = {pinentry, gopass, keychain}
    Pinentry = pinentry
    InBundle = {pinentry, gopass, keychain}
    Corrupt = {keychain}
    Chunks = 1
    Wants <- MCWants
    Homes <- MCHomes
SYMMETRY Symmetry
INVARIANTS
    InstallationWorks
    UserFilesKept
PROPERTIES
    ConsentRespected
    InitDelivers
CHECK_DEADLOCK FALSE
