SPECIFICATION DriveFairSpec
CONSTANTS
    MaxTicks = 20
    MaxQueue = 4
INVARIANTS
    DriveTypeOK
    TurnHasStart
    RobotFollows
PROPERTIES
    StopBeforeTurn
    LegsInOrder
    TurnLength
    TurnEnds
    RobotObeys
