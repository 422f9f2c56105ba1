SPECIFICATION Spec
CONSTANTS
    CameraEnabled = TRUE
    SpuriousWakeups = FALSE
    MaxPackets = 2
INVARIANTS
    TypeOK
    SoleManager
    DescriptorMatchesFlag
    ClosedAfterStop
    BlockingIO
PROPERTY ChannelSpec
CHECK_DEADLOCK TRUE
