SPECIFICATION Spec
CONSTANTS
    Types = {"odo", "image"}
    StreamOf <- MCStreamOf
    Odo = "odo"
    Camera = TRUE
    MaxPackets = 3
    MaxBad = 1
INVARIANTS
    TypeOK
    NothingTwice
    NoTickTwice
PROPERTIES
    NewestIsKept
