SPECIFICATION Spec
CONSTANTS
    CameraEnabled = FALSE
    SpuriousWakeups = FALSE
    MaxPackets = 0
INVARIANT ThreadFailureIsHandled
