SPECIFICATION Spec
CONSTANTS
    server = server
    visitor = visitor
    cli = cli
    r1 = r1
    r2 = r2
    r3 = r3
    s1 = s1
    s2 = s2
    i1 = i1
    i2 = i2
    NoRow = NoRow
    NoAnswer = NoAnswer
    ErrorResult = ErrorResult
    Exception = Exception
    Engines <- ThreeEngines
    CachedEngines <- ServerAndCli
    Requests <- ThreeRequests
    Sources <- OneSource
    Iocs <- OneIoc
    HostOf <- OneEach
    Configured <- MCConfigured
    Supported <- MCSupported
    MaxConcurrency = 1
    TTL = 2
    MaxFlight = 1
    SourceMayRaise = FALSE
    CacheMayRaise = FALSE
    MaxCrashes = 1
    MaxClock = 4
INVARIANTS
    RowsTruthful
    CallJustified
PROPERTIES
    ImplementsService
CHECK_DEADLOCK FALSE
