----------------------------------- MODULE Drive -----------------------------------
(***************************************************************************)
(* The mission and the robot it commands: every cycle of the update thread *)
(* queues a packet for the motors, whether anything has changed or not and *)
(* whether the robot is connected or not; the packets reach the robot in   *)
(* order, late, or not at all, as PacketChannel says and the gateway       *)
(* implements.                                                             *)
(***************************************************************************)
EXTENDS Mission, Sequences

CONSTANT MaxQueue    \* bound: packets on their way

ASSUME MaxQueueAssumption == MaxQueue \in Nat \ {0, 1}

VARIABLES
    queue,    \* _packet_queue and what has left it for the robot, oldest first
    robot,    \* the command the robot obeys: the last it has received
    gap       \* history: has a command been lost since that one

driveVars == <<vars, queue, robot, gap>>

\* A packet for the motors, and one that does not move the robot.
Motors(wheels) == [kind |-> "motors", wheels |-> wheels]
Other          == [kind |-> "other", wheels |-> Stopped]

IsMotors(packet) == packet.kind = "motors"

\* Algorithm::init queues what turns compression off and raw images on; the
\* robot stands until it is told to move.
DriveInit ==
    /\ Init
    /\ queue = <<Other, Other>> /\ robot = Stopped /\ gap = FALSE

\* A mutant of Emplace: a command is queued when it is a new one.
EmplaceChanges ==
    queue' = queue \o (IF command' # command THEN <<Motors(command'), Other>>
                                             ELSE <<Other>>)

\* What the units of a cycle queue: Motor::update, then Actuator::update.
Emplace == queue' = queue \o <<Motors(command'), Other>>

Cycle ==
    /\ Len(queue) + 2 <= MaxQueue
    /\ Next
    /\ Emplace
    /\ UNCHANGED <<robot, gap>>

\* A packet is written and arrives.
Receive ==
    /\ queue # <<>>
    /\ queue' = Tail(queue)
    /\ IF IsMotors(Head(queue))
       THEN robot' = Head(queue).wheels /\ gap' = FALSE
       ELSE UNCHANGED <<robot, gap>>
    /\ UNCHANGED vars

\* A mutant of Lose: the packet is queued again.
LoseRetries ==
    /\ queue # <<>>
    /\ queue' = Append(Tail(queue), Head(queue))
    /\ UNCHANGED <<vars, robot, gap>>

\* A packet was popped and could not be written, or the connection broke
\* before it arrived.
Lose ==
    /\ queue # <<>>
    /\ queue' = Tail(queue)
    /\ gap' = (gap \/ IsMotors(Head(queue)))
    /\ UNCHANGED <<vars, robot>>

DriveNext == Cycle \/ Receive \/ Lose

DriveSpec == DriveInit /\ [][DriveNext]_driveVars

(* Cycles go on (the bound on the queue, which the code does not have, may *)
(* hold them up for a while); packets leave the queue; and of the commands *)
(* that get the chance again and again one arrives. Nothing is assumed of  *)
(* the wheels: they may never move.                                        *)
DriveFairSpec ==
    /\ DriveSpec
    /\ SF_driveVars(Cycle)
    /\ WF_driveVars(Receive \/ Lose)
    /\ SF_driveVars(Receive /\ IsMotors(Head(queue)))

----------------------------------------------------------------------------
(* Properties.                                                             *)

Ahead(s)  == <<s, s>>
ToRight   == <<0, 60>>     \* what adjust() sets
TurnLeft  == <<125, 0>>
TurnRight == <<0, 125>>

Commands == {Stopped, Ahead(60), Ahead(125), ToRight, TurnLeft, TurnRight}

\* The packets and the robot's command keep their types.
DriveTypeOK ==
    /\ TypeOK
    /\ queue \in Seq({Other} \cup {Motors(c) : c \in Commands}) /\ Len(queue) <= MaxQueue
    /\ command \in Commands /\ robot \in Commands /\ gap \in BOOLEAN

\* Which command may come after which: a turn begins from a stop and its legs
\* follow each other; what adjust() sets is only mixed with driving ahead.
MayFollow(c, d) ==
    \/ d = c \/ d = Stopped
    \/ c = Stopped /\ d \in {Ahead(60), Ahead(125), ToRight}
    \/ c = ToRight /\ d \in {Ahead(60), Ahead(125)}
    \/ c \in {Ahead(60), Ahead(125), TurnLeft} /\ d = ToRight
    \/ c = TurnLeft /\ d \in {Ahead(125), TurnRight}
    \/ c \in {Ahead(125), TurnRight} /\ d = TurnLeft

MotorsAt == {i \in DOMAIN queue : IsMotors(queue[i])}

\* What the robot will obey is what the mission has done since the command it
\* obeys: from one packet to the next the commands follow each other as the
\* mission's steps do, they begin where the robot is unless one was lost, and
\* the last is the mission's last word. So a robot that lags behind by a
\* backlog, or has lost commands, never sees them in another order.
RobotFollows ==
    /\ \A i, j \in MotorsAt :
          (i < j /\ \A k \in MotorsAt : ~ (i < k /\ k < j))
              => MayFollow(queue[i].wheels, queue[j].wheels)
    /\ \A i \in MotorsAt : (\A k \in MotorsAt : k >= i) /\ ~ gap
              => MayFollow(robot, queue[i].wheels)
    /\ \A j \in MotorsAt : (\A k \in MotorsAt : k <= j) => queue[j].wheels = command
    /\ MotorsAt = {} /\ ~ gap => robot = command

\* If the mission stays with a command, the robot comes to obey it and goes on
\* doing so, however many packets were lost: every cycle says it again.
RobotObeys ==
    \A c \in Commands : <>[](command = c) => <>[](robot = c)

\* The legs of a turn.
WithinLegs ==
    /\ next = "turnOnNextLigne" /\ startTurn # -1
    /\ distance - startTurn <= LastLeftEnd

\* A turn that begins with at least 18 ticks left to drive comes to its end and
\* the robot follows the lines again, but for one case: the odometer stands
\* still before the last leg is over, while the robot obeys one of the legs.
\* That case the code does not exclude: a leg that drives the wheels of one side
\* adds a tick only when a third wheel turns as well (ODO.cpp:60).
TurnEnds ==
    (next = "turnOnNextLigne" /\ distance + 18 * Tick <= MaxTicks * Tick) ~>
        (next = "endPlow" \/ [](WithinLegs /\ robot \in {Ahead(125), TurnLeft, TurnRight}))
====================================================================================
