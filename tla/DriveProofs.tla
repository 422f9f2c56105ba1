-------------------------------- MODULE DriveProofs --------------------------------
(* Theorems about the update cycle, first of the mission by itself, then of *)
(* its commands on their way to the robot, for any distance driven and any *)
(* number of packets on their way.                                         *)
EXTENDS Drive, TLAPS

(* A packet for the motors is made of two magnitudes a byte can hold.      *)
LEMMA MotorsPacketType ==
    ASSUME speed \in -128 .. 127, angle \in -128 .. 127
    PROVE  MotorsPacket \in (-128 .. 128) \X (-128 .. 128)
BY DEF MotorsPacket, Abs

(* A cycle of the units keeps their types, and the distance never shrinks. *)
LEMMA UnitsStep ==
    ASSUME TypeOK, Units
    PROVE  /\ detections' \in 0 .. 2
           /\ command' \in (-128 .. 128) \X (-128 .. 128)
           /\ distance' \in Multiples
           /\ distance' >= distance
<1>1. command' \in (-128 .. 128) \X (-128 .. 128)
  BY MotorsPacketType DEF TypeOK, Units
<1>2. PICK moved \in 0 .. Wheels :
          /\ moved > 2 => distance < MaxTicks * Tick
          /\ OdoUpdate(moved)
  BY DEF Units
<1>3. PICK k \in 0 .. MaxTicks : distance = Tick * k
  BY DEF TypeOK, Multiples
<1>4. CASE moved > 2
  <2>1. distance' = distance + Tick /\ distance < MaxTicks * Tick
    BY <1>2, <1>4 DEF OdoUpdate
  <2>2. k + 1 \in 0 .. MaxTicks /\ distance' = Tick * (k + 1)
    BY <1>3, <2>1, MaxTicksAssumption DEF Tick
  <2> QED
    BY <1>1, <1>3, <2>1, <2>2, MaxTicksAssumption DEF Units, LidarUpdate, Multiples, Tick
<1>5. CASE ~ (moved > 2)
  <2>1. distance' = distance
    BY <1>2, <1>5 DEF OdoUpdate
  <2> QED
    BY <1>1, <1>3, <2>1, MaxTicksAssumption DEF Units, LidarUpdate, Multiples, Tick
<1> QED
  BY <1>4, <1>5

(* The types are kept by every step of the algorithm.                      *)
LEMMA TypeStep ==
    ASSUME TypeOK, [Next]_vars
    PROVE  TypeOK'
<1> USE DEF TypeOK
<1>1. CASE Wait
  BY <1>1, UnitsStep DEF Wait
<1>2. CASE GoStraightForPlow
  BY <1>2, UnitsStep DEF GoStraightForPlow
<1>3. CASE Follow
  BY <1>3, UnitsStep DEF Follow, Adjust, AdjustAngle
<1>4. CASE EndPlow
  BY <1>4, UnitsStep DEF EndPlow
<1>5. CASE BeginTurn
  BY <1>5, UnitsStep DEF BeginTurn
<1>6. CASE Turn
  BY <1>6, UnitsStep DEF Turn, Straight, Left, Right, TurnOver
<1>7. CASE UNCHANGED vars
  BY <1>7 DEF vars, Multiples
<1> QED
  BY <1>1, <1>2, <1>3, <1>4, <1>5, <1>6, <1>7 DEF Next

(* THEOREM: the registers of the cycle keep their types and the odometer   *)
(* counts whole ticks, however long the robot drives.                      *)
THEOREM MissionTypeCorrect == Spec => []TypeOK
<1>1. Init => TypeOK
  BY MaxTicksAssumption DEF Init, TypeOK, Multiples, Stopped, Unset, Tick
<1>2. TypeOK /\ [Next]_vars => TypeOK'
  BY TypeStep
<1> QED
  BY <1>1, <1>2, PTL DEF Spec

----------------------------------------------------------------------------
(* Every step keeps the start of a turn known and behind the robot.        *)
LEMMA StartStep ==
    ASSUME TypeOK, TurnHasStart, [Next]_vars
    PROVE  TurnHasStart'
<1> USE DEF TurnHasStart
<1>1. CASE Wait
  BY <1>1 DEF Wait
<1>2. CASE GoStraightForPlow
  BY <1>2 DEF GoStraightForPlow
<1>3. CASE Follow
  BY <1>3 DEF Follow
<1>4. CASE EndPlow
  <2>1. distance' \in Multiples
    BY <1>4, UnitsStep DEF EndPlow
  <2> QED
    BY <1>4, <2>1, MaxTicksAssumption DEF EndPlow, Unset, Multiples, Tick
<1>5. CASE BeginTurn
  <2>1. distance' \in Multiples
    BY <1>5, UnitsStep DEF BeginTurn
  <2> QED
    BY <1>5, <2>1, MaxTicksAssumption DEF BeginTurn, Unset, Multiples, Tick
<1>6. CASE Turn
  <2>1. distance \in Multiples /\ distance' \in Multiples /\ distance' >= distance
    BY <1>6, UnitsStep DEF Turn, TypeOK
  <2>2. startTurn \in Int
    BY MaxTicksAssumption DEF TypeOK, Multiples, Tick, Unset
  <2> QED
    BY <1>6, <2>1, <2>2, MaxTicksAssumption DEF Turn, Multiples, Tick
<1>7. CASE UNCHANGED vars
  BY <1>7 DEF vars
<1> QED
  BY <1>1, <1>2, <1>3, <1>4, <1>5, <1>6, <1>7 DEF Next

(* THEOREM: a turn is never measured from an uninitialised _startTurn, nor *)
(* from a place the robot has not reached.                                 *)
THEOREM TurnHasStartHolds == Spec => []TurnHasStart
<1>1. Init => TurnHasStart
  BY DEF Init, TurnHasStart
<1>2. TypeOK /\ TurnHasStart /\ [Next]_vars => TurnHasStart'
  BY StartStep
<1> QED
  BY <1>1, <1>2, MissionTypeCorrect, PTL DEF Spec

----------------------------------------------------------------------------
(* With the robot at a stop in a turn, neither speed nor angle is set; and *)
(* once the turn has begun, the command sent last is a stop.               *)
StopReachesMotors ==
    next = "turnOnNextLigne" /\ speed = 0 =>
        angle = 0 /\ (startTurn # -1 => command = Stopped)

LEMMA StopStep ==
    ASSUME TypeOK, StopReachesMotors, [Next]_vars
    PROVE  StopReachesMotors'
<1> USE DEF StopReachesMotors
<1>1. CASE Wait
  BY <1>1 DEF Wait
<1>2. CASE GoStraightForPlow
  BY <1>2 DEF GoStraightForPlow
<1>3. CASE Follow
  BY <1>3 DEF Follow
<1>4. CASE EndPlow
  BY <1>4 DEF EndPlow
<1>5. CASE BeginTurn
  BY <1>5 DEF BeginTurn, Units, MotorsPacket, Stopped
<1>6. CASE Turn
  BY <1>6 DEF Turn, Straight, Left, Right, TurnOver
<1>7. CASE UNCHANGED vars
  BY <1>7 DEF vars
<1> QED
  BY <1>1, <1>2, <1>3, <1>4, <1>5, <1>6, <1>7 DEF Next

(* THEOREM: before the first leg of a turn moves the robot, the motors     *)
(* have been sent a stop.                                                  *)
THEOREM StopBeforeTurnHolds == Spec => StopBeforeTurn
<1>1. Init => StopReachesMotors
  BY DEF Init, StopReachesMotors
<1>2. TypeOK /\ StopReachesMotors /\ [Next]_vars => StopReachesMotors'
  BY StopStep
<1>3. StopReachesMotors /\ [Next]_vars => [Turn /\ speed = 0 => command = Stopped]_vars
  BY DEF StopReachesMotors, Turn
<1> QED
  BY <1>1, <1>2, <1>3, MissionTypeCorrect, PTL DEF Spec, StopBeforeTurn
----------------------------------------------------------------------------
(* Where a turn stands: how many ticks it has taken, and which leg the     *)
(* setpoint belongs to. The same setpoint serves the two legs to the left. *)
Legs(k) ==
    \/ Setpoint = <<0, 0>> /\ k = 0
    \/ Setpoint = <<0, 125>> /\ k \in 0 .. 2
    \/ Setpoint = <<125, 125>> /\ k \in (3 .. 4) \cup (11 .. 16)
    \/ Setpoint = <<-125, -125>> /\ k \in 5 .. 11

LegInv ==
    next = "turnOnNextLigne" =>
        IF startTurn = -1 THEN Setpoint = <<0, 0>>
        ELSE \E k \in 0 .. 16 : distance = startTurn + Tick * k /\ Legs(k)

(* The distance grows by a tick a cycle at most.                           *)
LEMMA OneTick ==
    ASSUME TypeOK, Units
    PROVE  distance' = distance \/ distance' = distance + Tick
BY DEF Units, OdoUpdate

(* One step of a turn: the ticks it has taken and the leg it chooses.      *)
LEMMA TurnStep ==
    ASSUME TypeOK, TurnHasStart, LegInv, Turn
    PROVE  \E k \in 0 .. 16, m \in 0 .. 17 :
              /\ m = k \/ m = k + 1
              /\ distance' = startTurn + Tick * m
              /\ Legs(k)
              /\ Straight(Tick * m) \/ Left(Tick * m) \/ Right(Tick * m) \/ TurnOver(Tick * m)
<1>1. PICK k \in 0 .. 16 : distance = startTurn + Tick * k /\ Legs(k)
  BY DEF Turn, LegInv
<1>2. startTurn \in Int
  BY MaxTicksAssumption DEF TypeOK, Multiples, Tick, Unset
<1>3. distance' = distance \/ distance' = distance + Tick
  BY OneTick DEF Turn
<1>4. PICK m \in {k, k + 1} : distance' = startTurn + Tick * m
  BY <1>1, <1>2, <1>3 DEF Tick
<1>5. distance' - startTurn = Tick * m
  BY <1>2, <1>4 DEF Tick
<1>6. Straight(Tick * m) \/ Left(Tick * m) \/ Right(Tick * m) \/ TurnOver(Tick * m)
  BY <1>5 DEF Turn
<1>7. m \in 0 .. 17
  BY <1>4
<1> QED
  BY <1>1, <1>4, <1>6, <1>7

(* The setpoint always belongs to the leg the distance calls for.          *)
LEMMA LegStep ==
    ASSUME TypeOK, TurnHasStart, LegInv, [Next]_vars
    PROVE  LegInv'
<1>1. CASE Wait
  BY <1>1 DEF Wait, LegInv
<1>2. CASE GoStraightForPlow
  BY <1>2 DEF GoStraightForPlow, LegInv
<1>3. CASE Follow
  BY <1>3 DEF Follow, LegInv
<1>4. CASE EndPlow
  BY <1>4 DEF EndPlow, LegInv, Setpoint
<1>5. CASE BeginTurn
  <2>1. distance' \in Int /\ startTurn' = distance'
    BY <1>5, UnitsStep, MaxTicksAssumption DEF BeginTurn, Multiples, Tick
  <2>2. Setpoint' = <<0, 0>>
    BY <1>5 DEF BeginTurn, LegInv, Setpoint
  <2>3. distance' = startTurn' + Tick * 0
    <3>1. Tick * 0 = 0
      BY DEF Tick
    <3>2. \A n \in Int : n = n + 0
      OBVIOUS
    <3> QED
      BY <2>1, <3>1, <3>2
  <2>4. Legs(0)'
    BY <2>2 DEF Legs
  <2>5. 0 \in 0 .. 16
    OBVIOUS
  <2>6. startTurn' # -1
    BY <1>5, UnitsStep, MaxTicksAssumption DEF BeginTurn, Multiples, Tick
  <2> QED
    BY <2>3, <2>5, <2>6, <2>4 DEF LegInv
<1>6. CASE Turn
  <2>1. PICK k \in 0 .. 16, m \in 0 .. 17 :
            /\ m = k \/ m = k + 1
            /\ distance' = startTurn + Tick * m
            /\ Legs(k)
            /\ Straight(Tick * m) \/ Left(Tick * m) \/ Right(Tick * m) \/ TurnOver(Tick * m)
    BY <1>6, TurnStep
  <2>2. startTurn' = startTurn /\ startTurn # -1
    BY <1>6 DEF Turn
  <2>3. CASE Straight(Tick * m)
    <3>1. m \in 0 .. 2 /\ speed' = 125 /\ angle' = angle
      BY <2>3 DEF Straight, Within, StraightEnd, Tick
    <3>2. angle = 0
      BY <2>1, <3>1 DEF Legs, Setpoint
    <3>3. m \in 0 .. 16 /\ Legs(m)'
      BY <3>1, <3>2 DEF Legs, Setpoint
    <3> QED
      BY <2>1, <2>2, <3>3 DEF LegInv
  <2>4. CASE Left(Tick * m)
    <3>1. m \in (3 .. 4) \cup (11 .. 16) /\ Setpoint' = <<125, 125>>
      BY <2>4 DEF Left, Within, Beyond, StraightEnd, LeftEnd, RightEnd, LastLeftEnd, Tick, Setpoint
    <3>2. m \in 0 .. 16 /\ Legs(m)'
      BY <3>1 DEF Legs
    <3> QED
      BY <2>1, <2>2, <3>2 DEF LegInv
  <2>5. CASE Right(Tick * m)
    <3>1. m \in 5 .. 11 /\ Setpoint' = <<-125, -125>>
      BY <2>5 DEF Right, Within, Beyond, LeftEnd, RightEnd, Tick, Setpoint
    <3>2. m \in 0 .. 16 /\ Legs(m)'
      BY <3>1 DEF Legs
    <3> QED
      BY <2>1, <2>2, <3>2 DEF LegInv
  <2>6. CASE TurnOver(Tick * m)
    BY <2>6 DEF TurnOver, LegInv
  <2> QED
    BY <2>1, <2>3, <2>4, <2>5, <2>6
<1>7. CASE UNCHANGED vars
  BY <1>7 DEF vars, LegInv, Legs, Setpoint
<1> QED
  BY <1>1, <1>2, <1>3, <1>4, <1>5, <1>6, <1>7 DEF Next

(* The legs keep their order in every step from a state of the invariant.  *)
LEMMA OrderStep ==
    ASSUME TypeOK, TurnHasStart, LegInv,
           Turn, next' = next, Setpoint' # Setpoint
    PROVE  <<Setpoint, Setpoint'>> \in
              {<< <<0, 0>>, <<0, 125>> >>, << <<0, 125>>, <<125, 125>> >>,
               << <<125, 125>>, <<-125, -125>> >>, << <<-125, -125>>, <<125, 125>> >>}
<1>1. PICK k \in 0 .. 16, m \in 0 .. 17 :
          /\ m = k \/ m = k + 1
          /\ distance' = startTurn + Tick * m
          /\ Legs(k)
          /\ Straight(Tick * m) \/ Left(Tick * m) \/ Right(Tick * m) \/ TurnOver(Tick * m)
  BY TurnStep
<1>2. next = "turnOnNextLigne"
  BY DEF Turn
<1>3. CASE Straight(Tick * m)
  <2>1. m \in 0 .. 2 /\ Setpoint' = <<angle, 125>>
    BY <1>3 DEF Straight, Within, StraightEnd, Tick, Setpoint
  <2>2. Setpoint = <<0, 0>> \/ Setpoint = <<0, 125>>
    BY <1>1, <2>1 DEF Legs
  <2> QED
    BY <2>1, <2>2 DEF Setpoint
<1>4. CASE Left(Tick * m)
  <2>1. m \in (3 .. 4) \cup (11 .. 16) /\ Setpoint' = <<125, 125>>
    BY <1>4 DEF Left, Within, Beyond, StraightEnd, LeftEnd, RightEnd, LastLeftEnd, Tick, Setpoint
  <2>2. Setpoint # <<0, 0>>
    BY <1>1, <2>1 DEF Legs, Setpoint
  <2> QED
    BY <1>1, <2>1, <2>2 DEF Legs
<1>5. CASE Right(Tick * m)
  <2>1. m \in 5 .. 11 /\ Setpoint' = <<-125, -125>>
    BY <1>5 DEF Right, Within, Beyond, LeftEnd, RightEnd, Tick, Setpoint
  <2>2. k \in 4 .. 11
    BY <1>1, <2>1
  <2>3. Setpoint = <<125, 125>> \/ Setpoint = <<-125, -125>>
    BY <1>1, <2>2 DEF Legs
  <2> QED
    BY <2>1, <2>3
<1>6. CASE TurnOver(Tick * m)
  BY <1>2, <1>6 DEF TurnOver
<1> QED
  BY <1>1, <1>3, <1>4, <1>5, <1>6

(* A turn that ends does so in its last leg, 16 or 17 ticks long.          *)
LEMMA LengthStep ==
    ASSUME TypeOK, TurnHasStart, LegInv, Turn, next' # next
    PROVE  angle = 125 /\ distance' - startTurn \in {16 * Tick, 17 * Tick}
<1>1. PICK k \in 0 .. 16, m \in 0 .. 17 :
          /\ m = k \/ m = k + 1
          /\ distance' = startTurn + Tick * m
          /\ Legs(k)
          /\ Straight(Tick * m) \/ Left(Tick * m) \/ Right(Tick * m) \/ TurnOver(Tick * m)
  BY TurnStep
<1>2. TurnOver(Tick * m)
  BY <1>1 DEF Straight, Left, Right
<1>3. m \in 16 .. 17
  BY <1>2 DEF TurnOver, Beyond, LastLeftEnd, Tick
<1>4. k \in 15 .. 16
  BY <1>1, <1>3
<1>5. angle = 125
  BY <1>1, <1>4 DEF Legs, Setpoint
<1>6. startTurn \in Int
  BY MaxTicksAssumption DEF TypeOK, Multiples, Tick, Unset
<1>7. distance' - startTurn = Tick * m
  BY <1>1, <1>6 DEF Tick
<1> QED
  BY <1>3, <1>5, <1>7 DEF Tick

(* The invariant behind the two theorems holds in every reachable state.   *)
LEMMA LegInvariant == Spec => [](TypeOK /\ TurnHasStart /\ LegInv)
<1>1. Init => LegInv
  BY DEF Init, LegInv
<1>2. TypeOK /\ TurnHasStart /\ LegInv /\ [Next]_vars => LegInv'
  BY LegStep
<1> QED
  BY <1>1, <1>2, MissionTypeCorrect, TurnHasStartHolds, PTL DEF Spec

(* THEOREM: the legs of a turn follow each other, straight on, left,       *)
(* right, left, and none is skipped.                                       *)
THEOREM LegsInOrderHolds == Spec => LegsInOrder
<1>1. TypeOK /\ TurnHasStart /\ LegInv /\ [Next]_vars
        => [Turn /\ next' = next /\ Setpoint' # Setpoint =>
               <<Setpoint, Setpoint'>> \in
                   {<< <<0, 0>>, <<0, 125>> >>, << <<0, 125>>, <<125, 125>> >>,
                    << <<125, 125>>, <<-125, -125>> >>, << <<-125, -125>>, <<125, 125>> >>}]_vars
  BY OrderStep
<1> QED
  BY <1>1, LegInvariant, PTL DEF Spec, LegsInOrder

(* THEOREM: a turn ends in its last leg, 16 or 17 ticks after it began.    *)
THEOREM TurnLengthHolds == Spec => TurnLength
<1>1. TypeOK /\ TurnHasStart /\ LegInv /\ [Next]_vars
        => [Turn /\ next' # next =>
               angle = 125 /\ distance' - startTurn \in {16 * Tick, 17 * Tick}]_vars
  BY LengthStep
<1> QED
  BY <1>1, LegInvariant, PTL DEF Spec, TurnLength

----------------------------------------------------------------------------
(* THEOREM: with a robot that is late or out of reach the mission does     *)
(* what Mission says: what holds of its every step holds here.             *)
THEOREM DriveIsMission == DriveSpec => Spec
<1>1. DriveInit => Init
  BY DEF DriveInit
<1>2. [DriveNext]_driveVars => [Next]_vars
  BY DEF DriveNext, Cycle, Receive, Lose, driveVars, vars
<1> QED
  BY <1>1, <1>2, PTL DEF DriveSpec, Spec

----------------------------------------------------------------------------
(* Which setpoints a step of the algorithm finds when it is no turn; those *)
(* of a turn are LegInv's.                                                 *)
SetpointInv ==
    /\ next \in {"wait", "goStraightForPlow"} => angle = 0 /\ speed = 0
    /\ next = "endPlow" => \/ angle \in {0, -60} /\ speed \in {0, 60, 125}
                           \/ angle = 125 /\ speed = 125

MissionInv == TypeOK /\ TurnHasStart /\ LegInv /\ SetpointInv

(* The setpoints of a turn.                                                *)
LEMMA TurnSetpoint ==
    ASSUME MissionInv, next = "turnOnNextLigne"
    PROVE  \/ angle = 0 /\ speed \in {0, 125}
           \/ angle = 125 /\ speed = 125
           \/ angle = -125 /\ speed = -125
BY DEF MissionInv, LegInv, Legs, Setpoint

(* The last leg is one to the left, so a turn leaves that setpoint.        *)
LEMMA SetpointStep ==
    ASSUME MissionInv, [Next]_vars
    PROVE  SetpointInv'
<1> USE DEF SetpointInv
<1>1. CASE Wait
  BY <1>1 DEF Wait, MissionInv
<1>2. CASE GoStraightForPlow
  BY <1>2 DEF GoStraightForPlow, MissionInv
<1>3. CASE Follow
  BY <1>3 DEF Follow, Adjust, AdjustAngle, MissionInv
<1>4. CASE EndPlow
  BY <1>4 DEF EndPlow
<1>5. CASE BeginTurn
  BY <1>5 DEF BeginTurn
<1>6. CASE Turn
  <2>1. CASE next' = next
    BY <1>6, <2>1 DEF Turn
  <2>2. CASE next' # next
    <3>1. angle = 125
      BY <1>6, <2>2, LengthStep DEF MissionInv
    <3>2. speed = 125
      BY <1>6, <3>1, TurnSetpoint DEF Turn
    <3>3. angle' = angle /\ speed' = speed
      BY <1>6, <2>2 DEF Turn, Straight, Left, Right, TurnOver
    <3>4. next' = "endPlow"
      BY <1>6, <2>2 DEF Turn, Straight, Left, Right, TurnOver
    <3> QED
      BY <3>1, <3>2, <3>3, <3>4
  <2> QED
    BY <2>1, <2>2
<1>7. CASE UNCHANGED vars
  BY <1>7 DEF vars, MissionInv
<1> QED
  BY <1>1, <1>2, <1>3, <1>4, <1>5, <1>6, <1>7 DEF Next

LEMMA MissionStep ==
    ASSUME MissionInv, [Next]_vars
    PROVE  MissionInv'
BY TypeStep, StartStep, LegStep, SetpointStep DEF MissionInv

LEMMA MissionInitially == Init => MissionInv
<1> SUFFICES ASSUME Init PROVE MissionInv
  OBVIOUS
<1>1. TypeOK
  BY MaxTicksAssumption DEF Init, TypeOK, Multiples, Stopped, Unset, Tick
<1> QED
  BY <1>1 DEF Init, MissionInv, TurnHasStart, LegInv, SetpointInv

(* The packet of every setpoint is one of six.                             *)
LEMMA PacketOf ==
    /\ angle = 0    => MotorsPacket = Ahead(speed)
    /\ angle = -60  => MotorsPacket = ToRight
    /\ angle = 125  => MotorsPacket = TurnLeft
    /\ angle = -125 => MotorsPacket = TurnRight
BY DEF MotorsPacket, Abs, Ahead, ToRight, TurnLeft, TurnRight

LEMMA PacketOfNext ==
    /\ angle' = 0    => MotorsPacket' = Ahead(speed')
    /\ angle' = -60  => MotorsPacket' = ToRight
    /\ angle' = 125  => MotorsPacket' = TurnLeft
    /\ angle' = -125 => MotorsPacket' = TurnRight
BY DEF MotorsPacket, Abs, Ahead, ToRight, TurnLeft, TurnRight

LEMMA PacketIsCommand ==
    ASSUME MissionInv
    PROVE  MotorsPacket \in Commands
<1>1. next \in {"wait", "goStraightForPlow", "endPlow", "turnOnNextLigne"}
  BY DEF MissionInv, TypeOK
<1>2. \/ angle = 0 /\ speed \in {0, 60, 125}
      \/ angle = -60
      \/ angle = 125
      \/ angle = -125
  BY <1>1, TurnSetpoint DEF MissionInv, SetpointInv
<1> QED
  BY <1>2, PacketOf DEF Commands, Stopped, Ahead

(* What a step of the algorithm makes of the setpoint may follow it.       *)
LEMMA PacketStep ==
    ASSUME MissionInv, Next
    PROVE  MayFollow(MotorsPacket, MotorsPacket')
<1> USE DEF MayFollow, Stopped, Ahead
<1>0. angle' = angle /\ speed' = speed => MotorsPacket' = MotorsPacket
  BY DEF MotorsPacket
<1>1. CASE Wait
  BY <1>0, <1>1 DEF Wait
<1>2. CASE GoStraightForPlow
  <2>1. MotorsPacket = Stopped
    BY <1>2, PacketOf DEF GoStraightForPlow, MissionInv, SetpointInv
  <2>2. MotorsPacket' = Ahead(60) \/ MotorsPacket' = MotorsPacket
    BY <1>0, <1>2, PacketOfNext DEF GoStraightForPlow
  <2> QED
    BY <2>1, <2>2
<1>3. CASE Follow
  <2>1. MotorsPacket' \in {ToRight, Ahead(speed)}
    BY <1>3, PacketOfNext DEF Follow, Adjust, AdjustAngle
  <2>2. \/ angle \in {0, -60} /\ speed \in {0, 60, 125}
        \/ angle = 125 /\ speed = 125
    BY <1>3 DEF Follow, MissionInv, SetpointInv
  <2>3. CASE angle = 0
    BY <2>1, <2>2, <2>3, PacketOf
  <2>4. CASE angle = -60
    BY <2>1, <2>2, <2>4, PacketOf
  <2>5. CASE angle = 125
    BY <2>1, <2>2, <2>5, PacketOf
  <2> QED
    BY <2>2, <2>3, <2>4, <2>5
<1>4. CASE EndPlow
  BY <1>4, PacketOfNext DEF EndPlow
<1>5. CASE BeginTurn
  BY <1>0, <1>5 DEF BeginTurn
<1>6. CASE Turn
  <2>1. CASE angle' = angle /\ speed' = speed
    BY <1>0, <2>1
  <2>2. CASE next' = next /\ Setpoint' # Setpoint
    <3>1. \/ angle = 0 /\ speed = 0 /\ angle' = 0 /\ speed' = 125
          \/ angle = 0 /\ speed = 125 /\ angle' = 125
          \/ angle = 125 /\ angle' = -125
          \/ angle = -125 /\ angle' = 125
      BY <1>6, <2>2, OrderStep DEF MissionInv, Setpoint
    <3> QED
      BY <3>1, PacketOf, PacketOfNext
  <2>3. next' # next => angle' = angle /\ speed' = speed
    BY <1>6 DEF Turn, Straight, Left, Right, TurnOver
  <2> QED
    BY <2>1, <2>2, <2>3 DEF Setpoint
<1> QED
  BY <1>1, <1>2, <1>3, <1>4, <1>5, <1>6 DEF Next

(* So what the next cycle queues may follow what the last one has.         *)
CommandInv == MayFollow(command, MotorsPacket)

LEMMA CommandIsPacket == Units => command' = MotorsPacket
BY DEF Units

LEMMA CommandStep ==
    ASSUME MissionInv, CommandInv, [Next]_vars
    PROVE  CommandInv'
<1>1. CASE Next
  <2>1. command' = MotorsPacket
    BY <1>1, CommandIsPacket
       DEF Next, Wait, GoStraightForPlow, Follow, EndPlow, BeginTurn, Turn
  <2> QED
    BY <1>1, <2>1, PacketStep DEF CommandInv, MayFollow
<1>2. CASE UNCHANGED vars
  BY <1>2 DEF vars, CommandInv, MayFollow, MotorsPacket
<1> QED
  BY <1>1, <1>2

----------------------------------------------------------------------------
(* What the queue holds after a packet more and a packet less.             *)
LEMMA QueueGrows ==
    ASSUME DriveTypeOK, DriveTypeOK', Emplace
    PROVE  /\ Len(queue) \in Nat
           /\ MotorsAt' = MotorsAt \cup {Len(queue) + 1}
           /\ \A i \in MotorsAt : i \in 1 .. Len(queue) /\ queue'[i] = queue[i]
           /\ queue'[Len(queue) + 1].wheels = command'
<1> DEFINE n == Len(queue)
<1>1. n \in Nat /\ queue \in Seq({Other} \cup {Motors(c) : c \in Commands})
  BY DEF DriveTypeOK
<1>2. /\ DOMAIN queue = 1 .. n /\ DOMAIN queue' = 1 .. n + 2
      /\ \A i \in 1 .. n : queue'[i] = queue[i]
      /\ queue'[n + 1] = Motors(command') /\ queue'[n + 2] = Other
  BY <1>1 DEF Emplace
<1>3. IsMotors(Motors(command')) /\ ~ IsMotors(Other) /\ Motors(command').wheels = command'
  BY DEF IsMotors, Motors, Other
<1>4. \A i : i \in MotorsAt' <=> i \in MotorsAt \cup {n + 1}
  BY <1>1, <1>2, <1>3 DEF MotorsAt, IsMotors
<1> QED
  BY <1>1, <1>2, <1>3, <1>4 DEF MotorsAt

LEMMA QueueShrinks ==
    ASSUME DriveTypeOK, queue # <<>>, queue' = Tail(queue)
    PROVE  /\ 1 \in MotorsAt <=> IsMotors(Head(queue))
           /\ Head(queue) = queue[1]
           /\ MotorsAt \subseteq Nat \ {0}
           /\ \A i \in Nat \ {0} : i \in MotorsAt' <=> i + 1 \in MotorsAt
           /\ MotorsAt' \subseteq Nat \ {0}
           /\ \A i \in MotorsAt' : queue'[i] = queue[i + 1]
<1> DEFINE n == Len(queue)
<1>1. n \in Nat \ {0} /\ queue \in Seq({Other} \cup {Motors(c) : c \in Commands})
  BY DEF DriveTypeOK
<1>2. /\ DOMAIN queue = 1 .. n /\ DOMAIN queue' = 1 .. n - 1
      /\ \A i \in 1 .. n - 1 : queue'[i] = queue[i + 1]
      /\ Head(queue) = queue[1]
  BY <1>1
<1> QED
  BY <1>1, <1>2 DEF MotorsAt, IsMotors

----------------------------------------------------------------------------
(* The packets keep their types.                                           *)
LEMMA DriveTypeStep ==
    ASSUME DriveTypeOK, MissionInv, MissionInv', [DriveNext]_driveVars
    PROVE  DriveTypeOK'
<1> USE DEF DriveTypeOK
<1>0. TypeOK'
  BY DEF MissionInv
<1> DEFINE Packets == {Other} \cup {Motors(c) : c \in Commands}
<1>1. CASE Cycle
  <2>1. command' \in Commands
    <3>1. command' = MotorsPacket
      BY <1>1 DEF Cycle, Next, Wait, GoStraightForPlow, Follow, EndPlow, BeginTurn, Turn, Units
    <3> QED
      BY <3>1, PacketIsCommand
  <2>2. <<Motors(command'), Other>> \in Seq(Packets)
    BY <2>1
  <2>3. queue' \in Seq(Packets) /\ Len(queue') = Len(queue) + 2
    BY <1>1, <2>2 DEF Cycle, Emplace
  <2>4. robot' = robot /\ gap' = gap /\ Len(queue) + 2 <= MaxQueue
    BY <1>1 DEF Cycle
  <2> QED
    BY <1>0, <2>1, <2>3, <2>4
<1>2. CASE Receive
  <2>1. /\ queue' \in Seq(Packets) /\ Len(queue') <= MaxQueue
        /\ Head(queue) \in Packets
    BY <1>2, MaxQueueAssumption DEF Receive
  <2>2. IsMotors(Head(queue)) => Head(queue).wheels \in Commands
    BY <2>1 DEF IsMotors, Motors, Other
  <2>3. robot' \in Commands
    BY <1>2, <2>2 DEF Receive
  <2>4. gap' \in BOOLEAN /\ command' \in Commands
    BY <1>2 DEF Receive, vars
  <2> QED
    BY <1>0, <2>1, <2>3, <2>4
<1>3. CASE Lose
  <2>1. queue' \in Seq(Packets) /\ Len(queue') <= MaxQueue
    BY <1>3, MaxQueueAssumption DEF Lose
  <2>2. gap' \in BOOLEAN /\ command' \in Commands /\ robot' \in Commands
    BY <1>3 DEF Lose, vars
  <2> QED
    BY <1>0, <2>1, <2>2
<1>4. CASE UNCHANGED driveVars
  BY <1>0, <1>4 DEF driveVars, vars
<1> QED
  BY <1>1, <1>2, <1>3, <1>4 DEF DriveNext

LEMMA DriveTypeInitially == DriveInit => DriveTypeOK
<1> SUFFICES ASSUME DriveInit PROVE DriveTypeOK
  OBVIOUS
<1>1. TypeOK
  BY MissionInitially DEF DriveInit, MissionInv
<1>2. queue \in Seq({Other} \cup {Motors(c) : c \in Commands}) /\ Len(queue) <= MaxQueue
  BY MaxQueueAssumption DEF DriveInit
<1>3. command \in Commands /\ robot \in Commands /\ gap \in BOOLEAN
  BY DEF DriveInit, Init, Commands
<1> QED
  BY <1>1, <1>2, <1>3 DEF DriveTypeOK

----------------------------------------------------------------------------
(* A cycle puts a command that may follow the last at the end.             *)
LEMMA FollowsCycle ==
    ASSUME DriveTypeOK, DriveTypeOK', CommandInv, RobotFollows, Cycle
    PROVE  RobotFollows'
<1> DEFINE n == Len(queue)
<1>1. MayFollow(command, command')
  <2>1. command' = MotorsPacket
    BY CommandIsPacket
       DEF Cycle, Next, Wait, GoStraightForPlow, Follow, EndPlow, BeginTurn, Turn
  <2> QED
    BY <2>1 DEF CommandInv, MayFollow
<1>2. /\ n \in Nat
      /\ MotorsAt' = MotorsAt \cup {n + 1}
      /\ \A i \in MotorsAt : i \in 1 .. n /\ queue'[i] = queue[i]
      /\ queue'[n + 1].wheels = command'
  BY QueueGrows DEF Cycle
<1>3. ASSUME NEW i \in MotorsAt', NEW j \in MotorsAt', i < j,
             \A k \in MotorsAt' : ~ (i < k /\ k < j)
      PROVE  MayFollow(queue'[i].wheels, queue'[j].wheels)
  <2>1. CASE j \in MotorsAt
    BY <1>2, <1>3, <2>1 DEF RobotFollows
  <2>2. CASE j = n + 1
    <3>0. i \in MotorsAt
      BY <1>2, <1>3, <2>2
    <3>1. ASSUME NEW k \in MotorsAt PROVE k <= i
      <4>1. k \in MotorsAt' /\ i \in 1 .. n /\ k \in 1 .. n
        BY <1>2, <3>0
      <4>2. ~ (i < k /\ k < n + 1)
        BY <1>3, <2>2, <4>1
      <4> QED
        BY <1>2, <4>1, <4>2
    <3>2. queue[i].wheels = command
      BY <3>0, <3>1 DEF RobotFollows
    <3> QED
      BY <1>1, <1>2, <2>2, <3>0, <3>2
  <2> QED
    BY <1>2, <2>1, <2>2
<1>4. ASSUME NEW i \in MotorsAt', \A k \in MotorsAt' : k >= i, ~ gap'
      PROVE  MayFollow(robot', queue'[i].wheels)
  <2>1. robot' = robot /\ ~ gap
    BY <1>4 DEF Cycle
  <2>2. CASE i \in MotorsAt
    BY <1>2, <1>4, <2>1, <2>2 DEF RobotFollows
  <2>3. CASE i \notin MotorsAt
    <3>1. i = n + 1 /\ MotorsAt = {}
      BY <1>2, <1>4, <2>3
    <3> QED
      BY <1>1, <1>2, <2>1, <3>1 DEF RobotFollows
  <2> QED
    BY <2>2, <2>3
<1>5. ASSUME NEW j \in MotorsAt', \A k \in MotorsAt' : k <= j
      PROVE  queue'[j].wheels = command'
  BY <1>2, <1>5
<1>6. MotorsAt' # {}
  BY <1>2
<1> QED
  BY <1>3, <1>4, <1>5, <1>6 DEF RobotFollows

(* A packet less, received or lost, leaves the others in their order.      *)
LEMMA FollowsLeave ==
    ASSUME DriveTypeOK, RobotFollows, Receive \/ Lose
    PROVE  RobotFollows'
<1>1. queue # <<>> /\ queue' = Tail(queue) /\ command' = command
  BY DEF Receive, Lose, vars
<1>2. /\ 1 \in MotorsAt <=> IsMotors(Head(queue))
      /\ Head(queue) = queue[1]
      /\ MotorsAt \subseteq Nat \ {0}
      /\ \A i \in Nat \ {0} : i \in MotorsAt' <=> i + 1 \in MotorsAt
      /\ MotorsAt' \subseteq Nat \ {0}
      /\ \A i \in MotorsAt' : queue'[i] = queue[i + 1]
  BY <1>1, QueueShrinks
<1>3. ASSUME NEW i \in MotorsAt', NEW j \in MotorsAt', i < j,
             \A k \in MotorsAt' : ~ (i < k /\ k < j)
      PROVE  MayFollow(queue'[i].wheels, queue'[j].wheels)
  <2>1. i + 1 \in MotorsAt /\ j + 1 \in MotorsAt /\ i + 1 < j + 1
    BY <1>2, <1>3
  <2>2. ASSUME NEW k \in MotorsAt, i + 1 < k, k < j + 1
        PROVE  FALSE
    <3>1. k - 1 \in Nat \ {0} /\ (k - 1) + 1 = k /\ i < k - 1 /\ k - 1 < j
      BY <1>2, <2>2
    <3> QED
      BY <1>2, <1>3, <3>1
  <2> QED
    BY <1>2, <2>1, <2>2 DEF RobotFollows
<1>4. ASSUME NEW i \in MotorsAt', \A k \in MotorsAt' : k >= i, ~ gap'
      PROVE  MayFollow(robot', queue'[i].wheels)
  <2>1. i + 1 \in MotorsAt /\ i + 1 > 1
    BY <1>2
  <2>2. ASSUME NEW k \in MotorsAt, k # 1 PROVE k >= i + 1
    <3>1. k - 1 \in Nat \ {0} /\ (k - 1) + 1 = k
      BY <1>2, <2>2
    <3> QED
      BY <1>2, <1>4, <3>1
  <2>3. CASE 1 \in MotorsAt
    <3>1. robot' = queue[1].wheels
      BY <1>2, <1>4, <2>3 DEF Receive, Lose
    <3>2. MayFollow(queue[1].wheels, queue[i + 1].wheels)
      BY <1>2, <2>1, <2>2, <2>3 DEF RobotFollows
    <3> QED
      BY <1>2, <3>1, <3>2
  <2>4. CASE 1 \notin MotorsAt
    <3>1. robot' = robot /\ ~ gap
      BY <1>2, <1>4, <2>4 DEF Receive, Lose
    <3>2. \A k \in MotorsAt : k >= i + 1
      BY <2>2, <2>4
    <3> QED
      BY <1>2, <2>1, <3>1, <3>2 DEF RobotFollows
  <2> QED
    BY <2>3, <2>4
<1>5. ASSUME NEW j \in MotorsAt', \A k \in MotorsAt' : k <= j
      PROVE  queue'[j].wheels = command'
  <2>1. j + 1 \in MotorsAt
    BY <1>2
  <2>2. ASSUME NEW k \in MotorsAt PROVE k <= j + 1
    <3>1. CASE k = 1
      BY <1>2, <2>1, <3>1
    <3>2. CASE k # 1
      <4>1. k - 1 \in Nat \ {0} /\ (k - 1) + 1 = k
        BY <1>2, <3>2
      <4> QED
        BY <1>2, <1>5, <4>1
    <3> QED
      BY <3>1, <3>2
  <2> QED
    BY <1>1, <1>2, <2>1, <2>2 DEF RobotFollows
<1>6. ASSUME MotorsAt' = {}, ~ gap' PROVE robot' = command'
  <2>1. \A k \in MotorsAt : k = 1
    <3> SUFFICES ASSUME NEW k \in MotorsAt, k # 1 PROVE FALSE
      OBVIOUS
    <3>1. k - 1 \in Nat \ {0} /\ (k - 1) + 1 = k
      BY <1>2
    <3> QED
      BY <1>2, <1>6, <3>1
  <2>2. CASE 1 \in MotorsAt
    <3>1. robot' = queue[1].wheels
      BY <1>2, <1>6, <2>2 DEF Receive, Lose
    <3>2. queue[1].wheels = command
      BY <2>1, <2>2 DEF RobotFollows
    <3> QED
      BY <1>1, <3>1, <3>2
  <2>3. CASE 1 \notin MotorsAt
    <3>1. robot' = robot /\ ~ gap /\ MotorsAt = {}
      BY <1>2, <1>6, <2>1, <2>3 DEF Receive, Lose
    <3> QED
      BY <1>1, <3>1 DEF RobotFollows
  <2> QED
    BY <2>2, <2>3
<1> QED
  BY <1>3, <1>4, <1>5, <1>6 DEF RobotFollows

----------------------------------------------------------------------------
DriveInv == DriveTypeOK /\ MissionInv /\ CommandInv /\ RobotFollows

LEMMA DriveInvInitially == DriveInit => DriveInv
<1> SUFFICES ASSUME DriveInit PROVE DriveInv
  OBVIOUS
<1>1. MissionInv
  BY MissionInitially DEF DriveInit
<1>2. CommandInv
  BY PacketOf DEF DriveInit, Init, CommandInv, MayFollow, Stopped, Ahead
<1>3. MotorsAt = {}
  BY DEF DriveInit, MotorsAt, IsMotors, Other
<1>4. RobotFollows
  BY <1>3 DEF DriveInit, Init, RobotFollows
<1> QED
  BY <1>1, <1>2, <1>4, DriveTypeInitially DEF DriveInv

LEMMA DriveInvStep ==
    ASSUME DriveInv, [DriveNext]_driveVars
    PROVE  DriveInv'
<1>0. [Next]_vars
  BY DEF DriveNext, Cycle, Receive, Lose, driveVars, vars
<1>1. MissionInv' /\ CommandInv'
  BY <1>0, MissionStep, CommandStep DEF DriveInv
<1>2. DriveTypeOK'
  BY <1>1, DriveTypeStep DEF DriveInv
<1>3. RobotFollows'
  <2>1. CASE Cycle
    BY <1>2, <2>1, FollowsCycle DEF DriveInv
  <2>2. CASE Receive \/ Lose
    BY <2>2, FollowsLeave DEF DriveInv
  <2>3. CASE UNCHANGED driveVars
    BY <2>3 DEF DriveInv, driveVars, vars, RobotFollows, MotorsAt, MayFollow
  <2> QED
    BY <2>1, <2>2, <2>3 DEF DriveNext
<1> QED
  BY <1>1, <1>2, <1>3 DEF DriveInv

LEMMA DriveInvariant == DriveSpec => []DriveInv
BY DriveInvInitially, DriveInvStep, PTL DEF DriveSpec

(* THEOREM: every packet on its way carries one of the six commands of the *)
(* mission, and so does what the robot obeys.                              *)
THEOREM DriveTypeCorrect == DriveSpec => []DriveTypeOK
<1>1. DriveInv => DriveTypeOK
  BY DEF DriveInv
<1> QED
  BY <1>1, DriveInvariant, PTL

(* THEOREM: however long the backlog and whatever is lost, the commands on *)
(* their way follow each other as the mission's steps do.                  *)
THEOREM RobotFollowsHolds == DriveSpec => []RobotFollows
<1>1. DriveInv => RobotFollows
  BY DEF DriveInv
<1> QED
  BY <1>1, DriveInvariant, PTL
====================================================================================
