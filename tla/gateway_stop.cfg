SPECIFICATION FairSpec
CONSTANTS
    CameraEnabled = FALSE
    SpuriousWakeups = TRUE
    MaxPackets = 1
INVARIANTS
    ClosedAfterStop
PROPERTY StopReturns
