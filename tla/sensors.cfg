SPECIFICATION SensorsSpec
CONSTANTS
    Xres = 3
    Yres = 2
    MaxPackets = 2
    Rays = 5
    Begin <- MCBegin
    Front = 0
    MinDistance = 1
    MaxDistance = 2
    Captures <- MCCaptures
    MaxCaptures = 2
CHECK_DEADLOCK FALSE
INVARIANTS
    SensorsTypeOK
    PixelsAreCells
    PairFromOnePacket
    RawStaysInBounds
    LidarAgrees
