SPECIFICATION FairSpec
CONSTANTS
    server = server
    visitor = visitor
    cli = cli
    r1 = r1
    r2 = r2
    r3 = r3
    s1 = s1
    s2 = s2
    i1 = i1
    i2 = i2
    NoRow = NoRow
    NoAnswer = NoAnswer
    ErrorResult = ErrorResult
    Exception = Exception
    Engines <- ServerOnly
    CachedEngines <- ServerOnly
    Requests <- TwoRequests
    Sources <- TwoSources
    Iocs <- OneIoc
    HostOf <- BothOnServer
    Configured <- MCConfigured
    Supported <- MCSupported
    MaxConcurrency = 2
    TTL = 1
    MaxFlight = 0
    SourceMayRaise = TRUE
    CacheMayRaise = TRUE
    MaxCrashes = 1
    MaxClock = 0
INVARIANTS
    TypeOK
    SlotsConserved
    NoLostWakeup
PROPERTIES
    EveryRequestCloses
CHECK_DEADLOCK FALSE
