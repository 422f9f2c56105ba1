SPECIFICATION FairSpec
CONSTANTS
    Width = 2
    ZoomStart = 100
    ZoomMin = 92
    ZoomMax = 105
    MaxOptions = 2
INVARIANTS
    TypeOK
    StartOrder
    NothingOutlivesRun
    GripHolds
    ZoomAgrees
PROPERTY ClosingEnds
