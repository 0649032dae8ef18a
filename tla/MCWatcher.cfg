SPECIFICATION FairSpec
CONSTANTS
    a = a
    b = b
    c = c
    NL = NL
    Iocs <- MCIocs
    BatchMax = 2
    MaxLine = 3
    MaxWrites = 4
    MaxRotations = 1
    LookupMayRaise = TRUE
INVARIANTS
    NothingSkipped
PROPERTIES
    ExtractedIsLookedUp
CHECK_DEADLOCK FALSE
