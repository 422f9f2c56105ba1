---------------------------------- MODULE Mission ----------------------------------
(***************************************************************************)
(* What the update thread does to the robot: in each cycle the lidar, the  *)
(* motor and the odometer are updated in this order, then the current step *)
(* of the algorithm runs. So the motor command a step sets leaves in the   *)
(* next cycle. Distances are in thousandths of a centimetre.               *)
(***************************************************************************)
EXTENDS Integers

CONSTANT MaxTicks    \* bound: how far the robot ever drives, in odometer ticks

ASSUME MaxTicksAssumption == MaxTicks \in Nat

Wheels == 4
Tick   == 6465           \* what one tick of the odometer adds to _distance
Unset  == -2000000000    \* _startTurn before endPlow first writes it

\* The limits of the legs of the turn. The first two are written with another
\* length for the tick.
StraightEnd  == 6645 * 2
LeftEnd      == 6645 * 4
RightEnd     == Tick * 11
LastLeftEnd  == Tick * 16

VARIABLES
    next,         \* _next, the step of the algorithm
    detections,   \* Lidar::_detections; 2 stands for two or more
    speed, angle, \* Motor::_speed and _angle
    command,      \* the last HaMotorsPacket queued: <<left, right>>
    distance,     \* ODO::_distance
    startTurn     \* Algorithm::_startTurn

vars == <<next, detections, speed, angle, command, distance, startTurn>>

Stopped == <<0, 0>>

Abs(n) == IF n < 0 THEN -n ELSE n

\* Motor::update: with an angle set, only one side drives and the speed has no
\* effect.
MotorsPacket ==
    IF angle = 0 THEN <<speed, speed>>
    ELSE IF angle > 0 THEN <<Abs(angle), 0>> ELSE <<0, Abs(angle)>>

\* Mutants of OdoUpdate: the distance grows with every wheel, or by the other
\* length of a tick.
OdoUpdateEach(moved) == distance' = distance + Tick * moved

OdoUpdateOther(moved) ==
    distance' = IF moved > 2 THEN distance + 6645 ELSE distance

\* ODO::update: the distance grows when more than two of the four wheels have
\* changed their value since the last cycle; moved is how many have.
OdoUpdate(moved) ==
    distance' = IF moved > 2 THEN distance + Tick ELSE distance

\* Lidar::update: a packet may be new, old or not there yet, and hold any
\* number of detections.
LidarUpdate == detections' \in 0 .. 2

\* The units of a cycle. The wheels move as the ground and the robot want.
Units ==
    /\ LidarUpdate
    /\ command' = MotorsPacket
    /\ \E moved \in 0 .. Wheels :
          /\ moved > 2 => distance < MaxTicks * Tick
          /\ OdoUpdate(moved)

Init ==
    /\ next = "wait" /\ detections = 0
    /\ speed = 0 /\ angle = 0 /\ command = Stopped
    /\ distance = 0 /\ startTurn = Unset

----------------------------------------------------------------------------
(* Algorithm::wait and goStraightForPlow.                                  *)

Wait ==
    /\ next = "wait"
    /\ Units
    /\ next' = IF detections' > 1 THEN "goStraightForPlow" ELSE "wait"
    /\ UNCHANGED <<speed, angle, startTurn>>

GoStraightForPlow ==
    /\ next = "goStraightForPlow"
    /\ Units
    /\ IF detections' > 0
          THEN speed' = 60 /\ angle' = 0
          ELSE UNCHANGED <<speed, angle>>
    /\ next' = "endPlow"
    /\ UNCHANGED startTurn

----------------------------------------------------------------------------
(* Algorithm::adjust. The four tests are made one after the other and the  *)
(* else belongs to the last one only, which therefore decides.             *)

\* nearer: which of the two near points is the nearer one; x2: the side (sign
\* of x) of the second. The side of the first no longer matters at the end.
AdjustAngle(nearer, x2) ==
    IF nearer = "first" /\ x2 > 0 THEN -60 ELSE 0

Adjust ==
    \E nearer \in {"first", "second", "same"}, x2 \in {-1, 0, 1} :
        angle' = AdjustAngle(nearer, x2)

(* Algorithm::endPlow: follow the lines until the lidar sees nothing, then *)
(* stop and turn.                                                          *)
Follow ==
    /\ next = "endPlow"
    /\ Units /\ detections' # 0
    /\ Adjust
    /\ UNCHANGED <<next, speed, startTurn>>

\* Mutants of EndPlow: the angle is not reset, or _startTurn is not.
EndPlowTurning ==
    /\ next = "endPlow"
    /\ Units /\ detections' = 0
    /\ speed' = 0 /\ UNCHANGED angle
    /\ startTurn' = -1
    /\ next' = "turnOnNextLigne"

EndPlowUnmarked ==
    /\ next = "endPlow"
    /\ Units /\ detections' = 0
    /\ speed' = 0 /\ angle' = 0
    /\ UNCHANGED startTurn
    /\ next' = "turnOnNextLigne"

EndPlow ==
    /\ next = "endPlow"
    /\ Units /\ detections' = 0
    /\ speed' = 0 /\ angle' = 0
    /\ startTurn' = -1
    /\ next' = "turnOnNextLigne"

----------------------------------------------------------------------------
(* Algorithm::turnOnNextLigne. The distance is a sum of doubles: the       *)
(* comparison with an equal limit may come out either way.                 *)

Within(d, limit) == d <= limit
Beyond(d, limit) == d >= limit

\* What each leg sets, and when it is chosen.
Straight(d) ==
    /\ Within(d, StraightEnd)
    /\ speed' = 125 /\ UNCHANGED <<angle, next>>

Left(d) ==
    /\ \/ Beyond(d, StraightEnd) /\ Within(d, LeftEnd)
       \/ Beyond(d, RightEnd) /\ Within(d, LastLeftEnd)
    /\ angle' = 125 /\ speed' = 125 /\ UNCHANGED next

Right(d) ==
    /\ Beyond(d, LeftEnd) /\ Within(d, RightEnd)
    /\ angle' = -125 /\ speed' = -125 /\ UNCHANGED next

\* A mutant of TurnOver: the next step is not chosen.
TurnOverAgain(d) ==
    /\ Beyond(d, LastLeftEnd)
    /\ UNCHANGED <<next, angle, speed>>

TurnOver(d) ==
    /\ Beyond(d, LastLeftEnd)
    /\ next' = "endPlow" /\ UNCHANGED <<angle, speed>>

\* The first cycle of a turn only notes where it begins.
BeginTurn ==
    /\ next = "turnOnNextLigne" /\ startTurn = -1
    /\ Units
    /\ startTurn' = distance'
    /\ UNCHANGED <<next, speed, angle>>

Turn ==
    /\ next = "turnOnNextLigne" /\ startTurn # -1
    /\ Units
    /\ LET d == distance' - startTurn
       IN  Straight(d) \/ Left(d) \/ Right(d) \/ TurnOver(d)
    /\ UNCHANGED startTurn

Next == Wait \/ GoStraightForPlow \/ Follow \/ EndPlow \/ BeginTurn \/ Turn

Spec == Init /\ [][Next]_vars

----------------------------------------------------------------------------
Multiples == {Tick * k : k \in 0 .. MaxTicks}

TypeOK ==
    /\ next \in {"wait", "goStraightForPlow", "endPlow", "turnOnNextLigne"}
    /\ detections \in 0 .. 2
    /\ speed \in -128 .. 127 /\ angle \in -128 .. 127
    /\ command \in (-128 .. 128) \X (-128 .. 128)
    /\ distance \in Multiples
    /\ startTurn \in Multiples \cup {Unset, -1}

(* _startTurn, which no constructor initialises, is never used before it   *)
(* is written, and a turn never begins ahead of the robot (the sentinel -1 *)
(* is told apart from every distance).                                     *)
TurnHasStart ==
    next = "turnOnNextLigne" => startTurn # Unset /\ startTurn <= distance

(* The robot has been sent a stop before the first leg of a turn sets it   *)
(* moving again, though commands lag one cycle behind the algorithm.       *)
StopBeforeTurn == [][Turn /\ speed = 0 => command = Stopped]_vars

(* The legs of a turn follow each other without a gap: straight on, left,  *)
(* right, left; no leg is skipped or taken again, since the distance grows *)
(* by one tick a cycle whatever the number of wheels.                      *)
Setpoint == <<angle, speed>>

LegsInOrder ==
    [][Turn /\ next' = next /\ Setpoint' # Setpoint =>
          <<Setpoint, Setpoint'>> \in
              {<< <<0, 0>>, <<0, 125>> >>, << <<0, 125>>, <<125, 125>> >>,
               << <<125, 125>>, <<-125, -125>> >>, << <<-125, -125>>, <<125, 125>> >>}]_vars

(* A turn ends 16 or 17 ticks after it began, in its last leg.             *)
TurnLength ==
    [][Turn /\ next' # next =>
          angle = 125 /\ distance' - startTurn \in {16 * Tick, 17 * Tick}]_vars
====================================================================================
