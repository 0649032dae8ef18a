SPECIFICATION FairSpec
CONSTANTS
    Files <- MCFiles
    Kind <- MCKind
    Size <- MCSize
    Members <- MCMembers
    Iocs <- MCIocs
    Roots <- MCRoots
    MaxDepth = 3
    MaxMembers = 5
    MaxMember = 4
    MaxTotal = 18
    BombBytes = 4
    BombRatio = 6
INVARIANTS
    TypeOK
    BudgetHeld
    WorstSurfaces
    IocsSurface
    ShortageReported
PROPERTIES
    WalkEnds
CHECK_DEADLOCK FALSE
