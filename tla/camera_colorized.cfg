SPECIFICATION Spec
CONSTANTS
    Xres = 3
    Yres = 2
    MaxPackets = 2
CHECK_DEADLOCK FALSE
INVARIANT ConversionInBounds
