SPECIFICATION FairSpec
CONSTANTS
    s1 = s1
    s2 = s2
    r1 = r1
    r2 = r2
    r3 = r3
    gopass = gopass
    work = work
    token = token
    p1 = p1
    p2 = p2
    storeOpt = storeOpt
    NoSession = NoSession
    NoBuffer = NoBuffer
    NoOpts = NoOpts
    Absent = Absent
    Unresolved = Unresolved
    NoCall = NoCall
    Names <- MCNames
    Aliases <- MCAliases
    Paths <- MCPaths
    CacheKeys <- MCCacheKeys
    Opts <- MCOpts
    Prefixes <- MCPrefixes
    Sids = {s1}
    Buffers = {r1, r2}
    TTLs <- OddTTLs
    Allowlists <- AnySession
    MaxTime = 2
    Configs <- OneConfig
    Queries <- AllQueries
    MaxInFlight = 2
PROPERTIES
    EndedNeverServed
    RequestsAnswered
    ExpiredSessionsRemoved
CHECK_DEADLOCK FALSE
