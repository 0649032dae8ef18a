SPECIFICATION FairSpec
CONSTANTS
    a = a
    b = b
    c = c
    NL = NL
    Iocs <- MCIocs
    BatchMax = 2
    MaxLine = 3
    MaxWrites = 4
    MaxRotations = 0
    LookupMayRaise = FALSE
PROPERTIES
    TailsForever
CHECK_DEADLOCK FALSE
