SPECIFICATION LiveSpec
CONSTANTS
    CameraEnabled = FALSE
    SpuriousWakeups = FALSE
    MaxPackets = 1
PROPERTY QueueDrains
