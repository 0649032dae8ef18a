SPECIFICATION Spec
CONSTANTS
    addr = addr
    host = host
    cve = cve
    Iocs <- MCIocs
    Mappable <- MCMappable
    Batch <- MCBatch
    MaxAttempts = 3
    MaxPushes = 2
    MaxForeign = 0
INVARIANTS
    NoDuplicateEvents
CHECK_DEADLOCK FALSE
