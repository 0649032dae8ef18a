SPECIFICATION Spec
CONSTANTS
    alice = alice
    bob = bob
    carol = carol
    q1 = q1
    q2 = q2
    NoBucket = NoBucket
    NoDay = NoDay
    NoClient = NoClient
    Ids <- ThreeClients
    Requests <- TwoRequests
    MaxRequests = 2
    Window = 2
    Limit = 2
    DayLength = 2
    MaxEntries = 2
    MaxClock = 3
SYMMETRY Symmetry
INVARIANTS
    ScansCounted
    BurstBounded
    TablesBounded
CHECK_DEADLOCK FALSE
