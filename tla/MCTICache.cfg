SPECIFICATION Spec
CONSTANTS
    k1 = k1
    k2 = k2
    p1 = p1
    p2 = p2
    NoRow = NoRow
    Keys <- MCKeys
    Payloads <- MCPayloads
    TTL = 2
    TicksPerSecond = 2
    MaxClock = 8
INVARIANTS
    TypeOK
    ServedWithinTTL
PROPERTIES
    FreshUntilExpiry
    NoResurrection
