SPECIFICATION FairSpec
CONSTANTS
    addr = addr
    host = host
    cve = cve
    Iocs <- MCIocs
    Mappable <- MCMappable
    Batch <- MCBatch
    MaxAttempts = 3
    MaxPushes = 2
    MaxForeign = 1
INVARIANTS
    NothingLost
    SmartWhenReliable
PROPERTIES
    PushEnds
CHECK_DEADLOCK FALSE
