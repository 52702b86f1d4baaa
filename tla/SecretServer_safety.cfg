SPECIFICATION Spec
CONSTANTS
    s1 = s1
    s2 = s2
    r1 = r1
    r2 = r2
    r3 = r3
    gopass = gopass
    work = work
    token = token
    p1 = p1
    p2 = p2
    storeOpt = storeOpt
    NoSession = NoSession
    NoBuffer = NoBuffer
    NoOpts = NoOpts
    Absent = Absent
    Unresolved = Unresolved
    NoCall = NoCall
    Names <- MCNames
    Aliases <- MCAliases
    Paths <- MCPaths
    CacheKeys <- MCCacheKeys
    Opts <- MCOpts
    Prefixes <- MCPrefixes
    Sids = {s1, s2}
    Buffers = {r1, r2}
    TTLs <- MCTTLs
    Allowlists <- SomeRestricted
    MaxTime = 1
    Configs <- MCConfigs
    Queries <- MCQueries
    MaxInFlight = 2
SYMMETRY Symmetry
INVARIANTS
    CacheCoherent
    SessionIsolation
    ExpiredNeverServed
    WipedOnlyWhenGone
    WipedOrReplaced
    
PROPERTIES
    NoResurrection
    ServiceSpec
CHECK_DEADLOCK FALSE
