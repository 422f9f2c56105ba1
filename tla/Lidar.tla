----------------------------------- MODULE Lidar -----------------------------------
(***************************************************************************)
(* Oz::Lidar: the capture of the last lidar packet is copied, its values   *)
(* are filtered one after the other while the detections are counted and   *)
(* the outermost ones noted, and the copy takes the place of the distances *)
(* the algorithm and the display read.                                     *)
(***************************************************************************)
EXTENDS Integers, FiniteSets

CONSTANTS
    Rays,          \* LIDAR_CAPTURE_RESOLUTION
    Begin, Front,  \* the angle of the first value, -45, and straight ahead, 90
    MinDistance, MaxDistance,
    Captures,      \* what a packet may hold
    MaxCaptures    \* bound: lidar packets the robot sends

Indices == 0 .. Rays - 1

ASSUME LidarAssumption ==
    /\ Rays \in Nat /\ Begin \in Int /\ Front \in Int
    /\ MinDistance \in Nat \ {0} /\ MaxDistance \in Nat
    /\ Captures \subseteq [Indices -> Nat] /\ MaxCaptures \in Nat

VARIABLES
    captured,      \* how many lidar packets have come
    capture,       \* the lidar packet in _last_packets: a set of one, or {}
    scanning,      \* the packet update() is scanning: a set of one, or {}
    buffer,        \* its local copy
    at,            \* the value of the loop
    distances,     \* _distances
    detections,    \* _detections
    rightmost,     \* _rightmost_angle
    leftmost,      \* _leftmost_angle
    source         \* history: the capture the distances were made of

scan      == <<scanning, buffer, at>>
extremes  == <<detections, rightmost, leftmost>>
lidarVars == <<captured, capture, scan, distances, extremes, source>>

Nothing  == [i \in Indices |-> 0]
Angle(i) == Begin + i

LidarInit ==
    /\ captured = 0 /\ capture = {}
    /\ scanning = {} /\ buffer = Nothing /\ at = 0
    /\ distances = Nothing /\ source = Nothing
    /\ detections = 0 /\ rightmost = Front /\ leftmost = Front

\* The gateway stores a packet: the last one is all the lidar gets to see.
CaptureArrives ==
    /\ captured < MaxCaptures
    /\ captured' = captured + 1
    /\ \E c \in Captures : capture' = {c}
    /\ UNCHANGED <<scan, distances, extremes, source>>

----------------------------------------------------------------------------
(* Lidar::update.                                                          *)

NoCapture ==
    /\ scanning = {} /\ capture = {}
    /\ UNCHANGED lidarVars

\* A mutant of BeginScan: the detections are not reset.
BeginScanKeepsCount ==
    /\ scanning = {}
    /\ \E c \in capture : scanning' = {c} /\ buffer' = c
    /\ at' = 0 /\ rightmost' = Front /\ leftmost' = Front
    /\ UNCHANGED <<captured, capture, distances, detections, source>>

BeginScan ==
    /\ scanning = {}
    /\ \E c \in capture : scanning' = {c} /\ buffer' = c
    /\ at' = 0 /\ detections' = 0 /\ rightmost' = Front /\ leftmost' = Front
    /\ UNCHANGED <<captured, capture, distances, source>>

InRange(value) == MinDistance <= value /\ value <= MaxDistance

Scan == scanning # {} /\ at < Rays /\ at' = at + 1

Discard ==
    /\ Scan /\ ~ InRange(buffer[at])
    /\ buffer' = [buffer EXCEPT ![at] = 0]
    /\ UNCHANGED <<captured, capture, scanning, distances, extremes, source>>

Count ==
    /\ Scan /\ InRange(buffer[at])
    /\ detections' = detections + 1
    /\ rightmost' = IF Angle(at) < Front /\ rightmost = Front THEN Angle(at) ELSE rightmost
    /\ leftmost' = IF Angle(at) > Front THEN Angle(at) ELSE leftmost
    /\ UNCHANGED <<captured, capture, scanning, buffer, distances, source>>

\* The swap; the old distances go when update() returns.
EndScan ==
    /\ scanning # {} /\ at = Rays
    /\ distances' = buffer
    /\ source' \in scanning /\ scanning' = {}
    /\ UNCHANGED <<captured, capture, buffer, at, extremes>>

LidarNext == CaptureArrives \/ NoCapture \/ BeginScan \/ Discard \/ Count \/ EndScan

LidarSpec == LidarInit /\ [][LidarNext]_lidarVars

\* detect_between: its bounds are places in the array, not angles.
DetectBetween(begin, end) == Cardinality({ i \in begin .. end : distances[i] > 0 })

----------------------------------------------------------------------------
(* Properties.                                                             *)

\* The registers keep their types; there are never more detections than rays.
LidarTypeOK ==
    /\ captured \in 0 .. MaxCaptures
    /\ capture \subseteq Captures /\ Cardinality(capture) <= 1
    /\ scanning \subseteq Captures /\ Cardinality(scanning) <= 1
    /\ buffer \in [Indices -> Nat] /\ at \in 0 .. Rays
    /\ distances \in [Indices -> Nat] /\ source \in Captures \cup {Nothing}
    /\ detections \in 0 .. Rays
    /\ rightmost \in Int /\ leftmost \in Int

\* Of the first n values of c: which the lidar believes in, the values it
\* makes of them, and the outermost detections of the two sides; straight ahead
\* is on neither.
Hits(c, n)     == { i \in 0 .. n - 1 : InRange(c[i]) }
ToTheRight(c, n) == { Angle(i) : i \in { j \in Hits(c, n) : Angle(j) < Front } }
ToTheLeft(c, n)  == { Angle(i) : i \in { j \in Hits(c, n) : Angle(j) > Front } }

IsFiltered(f, c, n) == \A i \in 0 .. n - 1 : f[i] = IF InRange(c[i]) THEN c[i] ELSE 0

IsRightmost(a, c, n) ==
    IF ToTheRight(c, n) = {} THEN a = Front
    ELSE a \in ToTheRight(c, n) /\ \A b \in ToTheRight(c, n) : a <= b

IsLeftmost(a, c, n) ==
    IF ToTheLeft(c, n) = {} THEN a = Front
    ELSE a \in ToTheLeft(c, n) /\ \A b \in ToTheLeft(c, n) : b <= a

\* The distances are one whole capture with what is out of range removed, in
\* the middle of an update too; and after it the number of detections, which
\* the mission stops by, is that of these distances, and the two angles are
\* those of the outermost of them.
LidarAgrees ==
    /\ IsFiltered(distances, source, Rays)
    /\ scanning = {} =>
          /\ detections = DetectBetween(0, Rays - 1)
          /\ IsRightmost(rightmost, source, Rays)
          /\ IsLeftmost(leftmost, source, Rays)
====================================================================================
