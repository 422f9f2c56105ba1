SPECIFICATION Spec
CONSTANTS
    Grid <- MCGrid
    Epsilon = 2
    Near = 4
    Horizon = 16
    MaxPoints = 6
CHECK_DEADLOCK FALSE
INVARIANT NeighborsShareCluster
