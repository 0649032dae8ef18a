SPECIFICATION Spec
CONSTANTS
    alice = alice
    bob = bob
    carol = carol
    q1 = q1
    q2 = q2
    NoBucket = NoBucket
    NoDay = NoDay
    NoClient = NoClient
    Ids <- TwoClients
    Requests <- TwoRequests
    MaxRequests = 2
    Window = 2
    Limit = 2
    DayLength = 3
    MaxEntries = 2
    MaxClock = 4
INVARIANTS
    BudgetHolds
CHECK_DEADLOCK FALSE
