--------------------------------- MODULE MCSensors ---------------------------------
(* Sensors for TLC: pictures of three by two pixels, so that a pixel has     *)
(* neighbours in its row and its column, and width is not taken for height.  *)
(* The lidar has five rays, two of them on each side; a value below, at and  *)
(* beyond the limits of its range (1 and 2) is met on every side and ahead.  *)
EXTENDS Sensors

Values(a, b, c, d, e) ==
    [i \in Indices |-> CASE i = 0 -> a [] i = 1 -> b [] i = 2 -> c [] i = 3 -> d [] i = 4 -> e]

MCBegin == -2

MCCaptures == { Values(0, 2, 3, 1, 2), Values(3, 0, 2, 0, 3), Values(1, 3, 1, 3, 0),
                Values(0, 3, 0, 2, 3), Values(1, 1, 0, 2, 1), Values(0, 3, 0, 0, 0) }
====================================================================================
