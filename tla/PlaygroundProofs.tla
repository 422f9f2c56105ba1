------------------------------ MODULE PlaygroundProofs ------------------------------
(***************************************************************************)
(* Theorems about Playground, for any number of options, any positions and *)
(* any bounds of the zoom. The invariant LifeInv says how far every thread *)
(* may be when the main thread is at a place of run(); DragInv that a drag *)
(* starts where the pointer is.                                            *)
(***************************************************************************)
EXTENDS Playground, TLAPS

Unstarted == {"parse", "enable", "start"}
Starting  == {"init", "spawn"}
Showing   == {"loop", "poll", "draw", "stop"}
Ending    == {"read", "write", "disconnect", "join", "return"}

WorkersPlaced ==
    /\ main \in Unstarted => ~ running /\ \A w \in Workers : worker[w] = "none"
    /\ main \in Starting \cup Showing => running
    /\ main \in Starting \cup Showing => \A w \in Workers : worker[w] # "ended"
    /\ main \in Ending => ~ running
    /\ main \in Ending \ {"read"} => worker["read"] = "ended"
    /\ main \in Ending \ {"read", "write"} => worker["write"] = "ended"
    /\ main \notin {"parse", "enable"} => cameraEnabled = cameraAsked

UpdatePlaced ==
    /\ main \in Unstarted \cup Starting => update = "none"
    /\ main \in Showing => update # "ended"
    /\ main = "return" => update = "ended"
    /\ main \notin Unstarted \cup {"init"} => step

WindowPlaced ==
    /\ main \in {"stop"} \cup Ending => ~ open

ExitPlaced ==
    /\ process # "undefined"
    /\ process = "exited" => main \in {"parse", "return"}

LifeInv == TypeOK /\ WorkersPlaced /\ UpdatePlaced /\ WindowPlaced /\ ExitPlaced

DragInv == ZoomAgrees /\ (dragging => dragStart = pointer) /\ GripHolds

----------------------------------------------------------------------------
(* The events of the display.                                              *)

(* A tenth of a zoom is not negative and not more than it.                 *)
LEMMA TenthOf ==
    ASSUME NEW z \in Nat
    PROVE  z \div 10 \in Nat /\ z \div 10 <= z
OBVIOUS

(* A turn of the wheel stays between the bounds of the zoom.               *)
LEMMA ZoomBounded ==
    ASSUME NEW z \in ZoomMin .. ZoomMax
    PROVE  Larger(z) \in ZoomMin .. ZoomMax /\ Smaller(z) \in ZoomMin .. ZoomMax
<1>1. z \in Nat
  BY DisplayAssumption
<1>2. z \div 10 \in Nat
  BY <1>1, TenthOf
<1> QED
  BY <1>1, <1>2, DisplayAssumption DEF Larger, Smaller

(* Two displacements in a row are one.                                     *)
LEMMA Displacements ==
    ASSUME NEW a \in Int, NEW b \in Int, NEW c \in Int, NEW z \in Int
    PROVE  (a - b) * z + (b - c) * z = (a - c) * z
OBVIOUS

(* Every event keeps the types of the display, and a drag and its zoom     *)
(* together.                                                               *)
LEMMA EventStep ==
    ASSUME DisplayTypeOK, DragInv, OnEvent
    PROVE  DisplayTypeOK' /\ DragInv'
<1> USE DEF DisplayTypeOK, DragInv, ZoomAgrees, GripHolds
<1>1. CASE Closed
  BY <1>1 DEF Closed
<1>2. ASSUME NEW at \in Positions, ButtonPressed(at) PROVE DisplayTypeOK' /\ DragInv'
  <2>1. at \in Int /\ (at - at) * zoom = 0
    BY <1>2, DisplayAssumption DEF Positions
  <2> QED
    BY <1>2, <2>1 DEF ButtonPressed
<1>3. ASSUME NEW at \in Positions, MouseMoved(at) PROVE DisplayTypeOK' /\ DragInv'
  <2>1. at \in Int /\ pointer \in Int /\ grip \in Int
    BY <1>3, DisplayAssumption DEF Positions
  <2>2. CASE dragging
    <3>1. center' = (grip - pointer) * zoom + (pointer - at) * zoom
      BY <1>3, <2>2 DEF MouseMoved
    <3>2. center' = (grip - at) * zoom
      BY <2>1, <3>1, Displacements
    <3>3. center' \in Int
      BY <2>1, <3>2
    <3> QED
      BY <1>3, <2>2, <3>2, <3>3 DEF MouseMoved
  <2>3. CASE ~ dragging
    BY <1>3, <2>3 DEF MouseMoved
  <2> QED
    BY <2>2, <2>3
<1>4. CASE ButtonReleased
  <2>1. ~ dragging' /\ center' \in Int /\ grip' \in Positions
    BY <1>4 DEF ButtonReleased
  <2>2. DisplayTypeOK'
    BY <1>4, <2>1 DEF ButtonReleased
  <2>3. ZoomAgrees'
    BY <1>4 DEF ButtonReleased
  <2> QED
    BY <2>1, <2>2, <2>3
<1>5. CASE WheelScrolled
  <2>1. zoom' \in ZoomMin .. ZoomMax
    BY <1>5, ZoomBounded DEF WheelScrolled
  <2>2. zoom' \in Int /\ viewZoom' = zoom' /\ rendererZoom' = zoom'
    BY <1>5, <2>1, DisplayAssumption DEF WheelScrolled
  <2>3. ~ dragging'
    BY <1>5 DEF WheelScrolled
  <2>4. DisplayTypeOK'
    BY <1>5, <2>2 DEF WheelScrolled
  <2> QED
    BY <2>1, <2>2, <2>3, <2>4 DEF WheelScrolled
<1>6. CASE KeyF5
  BY <1>6 DEF KeyF5
<1>7. CASE KeyF6
  BY <1>7 DEF KeyF6
<1>8. CASE Ignored
  BY <1>8 DEF Ignored, display
<1> QED
  BY <1>1, <1>2, <1>3, <1>4, <1>5, <1>6, <1>7, <1>8 DEF OnEvent

(* Whatever is no event leaves the display alone.                          *)
LEMMA DisplayKept ==
    ASSUME DisplayTypeOK, DragInv, UNCHANGED display
    PROVE  DisplayTypeOK' /\ DragInv' /\ open' = open
BY DEF display, DisplayTypeOK, DragInv, ZoomAgrees, GripHolds

----------------------------------------------------------------------------
(* The life cycle.                                                         *)

(* The order of run() as a table.                                          *)
LEMMA AfterFacts ==
    /\ After["parse"] = "enable" /\ After["enable"] = "start"
    /\ After["start"] = "init" /\ After["init"] = "spawn" /\ After["spawn"] = "loop"
    /\ After["stop"] = "read" /\ After["read"] = "write"
    /\ After["write"] = "disconnect" /\ After["disconnect"] = "join"
    /\ After["join"] = "return"
    /\ MainPlaces = Unstarted \cup Starting \cup Showing \cup Ending
BY DEF After, MainPlaces, Unstarted, Starting, Showing, Ending

LifeWithoutDisplay ==
    /\ main \in Unstarted \cup Starting \cup Showing \cup Ending
    /\ parsed \in 0 .. MaxOptions
    /\ helpFlag \in BOOLEAN /\ cameraAsked \in BOOLEAN
    /\ cameraEnabled \in BOOLEAN /\ running \in BOOLEAN /\ step \in BOOLEAN
    /\ worker \in [Workers -> WorkerPlaces]
    /\ update \in UpdatePlaces
    /\ process \in {"running", "exited", "terminated", "undefined"}
    /\ WorkersPlaced /\ UpdatePlaced /\ WindowPlaced /\ ExitPlaced

(* The invariant, and after a step, is the one without the display and the *)
(* display's types.                                                        *)
LEMMA LifeParts ==
    /\ LifeInv <=> LifeWithoutDisplay /\ DisplayTypeOK
    /\ LifeInv' <=> LifeWithoutDisplay' /\ DisplayTypeOK'
BY AfterFacts DEF LifeInv, TypeOK, LifeWithoutDisplay

(* The initial states satisfy both invariants.                             *)
LEMMA LifeInit == ASSUME Init PROVE LifeInv /\ DragInv
<1>1. DisplayTypeOK /\ DragInv
  <2>1. DisplayTypeOK
    <3>1. /\ open \in BOOLEAN /\ dragging \in BOOLEAN
          /\ debugText \in BOOLEAN /\ rays \in BOOLEAN
      BY Zenon DEF Init, DisplayInit, ContextInit
    <3>2. dragStart = 0 /\ pointer = 0 /\ grip = 0 /\ center = 0
          /\ zoom = ZoomStart /\ viewZoom = ZoomStart /\ rendererZoom = ZoomStart
      BY Zenon DEF Init, DisplayInit, ContextInit
    <3> QED
      BY <3>1, <3>2, DisplayAssumption DEF DisplayTypeOK, Positions
  <2>2. ZoomAgrees
    BY DisplayAssumption DEF Init, DisplayInit, ContextInit, ZoomAgrees
  <2>3. ~ dragging
    BY DEF Init, DisplayInit, ContextInit
  <2> QED
    BY <2>1, <2>2, <2>3 DEF DragInv, GripHolds
<1>2. worker \in [Workers -> WorkerPlaces] /\ \A w \in Workers : worker[w] = "none"
  BY DEF Init, WorkerPlaces
<1>3. LifeWithoutDisplay
  <2>1. /\ helpFlag \in BOOLEAN /\ cameraAsked \in BOOLEAN /\ cameraEnabled \in BOOLEAN
        /\ running \in BOOLEAN /\ step \in BOOLEAN /\ ~ running
    BY Zenon DEF Init
  <2>2. /\ main = "parse" /\ parsed = 0 /\ update = "none" /\ process = "running"
    BY Zenon DEF Init
  <2> QED
    BY <1>2, <2>1, <2>2, PlaygroundAssumption DEF LifeWithoutDisplay, WorkersPlaced,
       UpdatePlaced, WindowPlaced, ExitPlaced, UpdatePlaces, Unstarted, Starting, Showing,
       Ending
<1> QED
  BY <1>1, <1>3, LifeParts

(* The steps of the main thread that are no events.                        *)
LEMMA MainStep ==
    ASSUME LifeWithoutDisplay, Main, ~ PollEvent, UNCHANGED open
    PROVE  LifeWithoutDisplay'
<1> USE AfterFacts DEF LifeWithoutDisplay, WorkersPlaced, UpdatePlaced, WindowPlaced,
        ExitPlaced, Unstarted, Starting, Showing, Ending, At, Go, arguments, gateway
<1>2. CASE Option
  <2>1. /\ main = "parse" /\ process = "running" /\ parsed' \in 0 .. MaxOptions
        /\ UNCHANGED <<main, cameraEnabled, running, worker, step, update, process>>
    BY <1>2, PlaygroundAssumption DEF Option
  <2>2. helpFlag' \in BOOLEAN /\ cameraAsked' \in BOOLEAN
    BY <1>2 DEF Option
  <2> QED
    BY <2>1, <2>2
<1>3. CASE BadInterval
  BY <1>3 DEF BadInterval
<1>4. CASE ShowsHelp
  BY <1>4 DEF ShowsHelp
<1>5. CASE Parsed
  BY <1>5 DEF Parsed
<1>6. CASE EnableCamera
  BY <1>6 DEF EnableCamera
<1>7. CASE Start
  BY <1>7 DEF Start, WorkerPlaces
<1>8. CASE InitAlgorithm
  BY <1>8 DEF InitAlgorithm
<1>9. CASE SpawnUpdate
  BY <1>9 DEF SpawnUpdate, UpdatePlaces
<1>10. CASE Frame
  BY <1>10 DEF Frame
<1>11. CASE NoEvent
  BY <1>11 DEF NoEvent
<1>12. CASE Draw
  BY <1>12 DEF Draw
<1>13. CASE Stop
  BY <1>13 DEF Stop
<1>14. ASSUME NEW w \in Workers, JoinWorker(w) PROVE LifeWithoutDisplay'
  BY <1>14 DEF JoinWorker, Workers
<1>15. CASE Disconnect
  BY <1>15 DEF Disconnect
<1>16. CASE JoinUpdate
  BY <1>16 DEF JoinUpdate
<1>17. CASE Return
  BY <1>17 DEF Return
<1> QED
  BY <1>2, <1>3, <1>4, <1>5, <1>6, <1>7, <1>8, <1>9, <1>10, <1>11, <1>12, <1>13, <1>14,
     <1>15, <1>16, <1>17 DEF Main

(* An event happens while the display is polling.                          *)
LEMMA PollStep ==
    ASSUME LifeWithoutDisplay, PollEvent
    PROVE  LifeWithoutDisplay'
BY DEF LifeWithoutDisplay, WorkersPlaced, UpdatePlaced, WindowPlaced, ExitPlaced,
   Unstarted, Starting, Showing, Ending, At, PollEvent, arguments, gateway

(* The steps of the other threads.                                         *)
LEMMA ThreadStep ==
    ASSUME LifeWithoutDisplay, UNCHANGED open,
           Update \/ \E w \in Workers : WorkerEnds(w) \/ WorkerFails(w)
    PROVE  LifeWithoutDisplay'
<1> USE DEF LifeWithoutDisplay, WorkersPlaced, UpdatePlaced, WindowPlaced, ExitPlaced,
        Unstarted, Starting, Showing, Ending, UpdateAt, UpdatePlaces, arguments, gateway
<1>1. CASE UpdateChecks
  BY <1>1 DEF UpdateChecks
<1>2. CASE UpdateUnits
  BY <1>2 DEF UpdateUnits
<1>3. CASE UpdateFails
  BY <1>3 DEF UpdateFails
<1>4. CASE UpdateAlgorithm
  BY <1>4 DEF UpdateAlgorithm
<1>5. CASE UpdateSleeps
  BY <1>5 DEF UpdateSleeps
<1>6. ASSUME NEW w \in Workers, WorkerEnds(w) PROVE LifeWithoutDisplay'
  BY <1>6 DEF WorkerEnds, Workers, WorkerPlaces
<1>7. ASSUME NEW w \in Workers, WorkerFails(w) PROVE LifeWithoutDisplay'
  BY <1>7 DEF WorkerFails
<1> QED
  BY <1>1, <1>2, <1>3, <1>4, <1>5, <1>6, <1>7 DEF Update

(* What the theorems follow from is kept by every step.                    *)
LEMMA LifeStep ==
    ASSUME LifeInv, DragInv, [Next]_vars
    PROVE  LifeInv' /\ DragInv'
<1>1. LifeWithoutDisplay /\ DisplayTypeOK
  BY LifeParts
<1>2. ASSUME UNCHANGED display, LifeWithoutDisplay' PROVE LifeInv' /\ DragInv'
  <2>1. DisplayTypeOK' /\ DragInv'
    BY <1>1, <1>2, DisplayKept
  <2> QED
    BY <1>2, <2>1, LifeParts
<1>3. UNCHANGED display => UNCHANGED open
  BY DEF display
<1>4. CASE PollEvent
  <2>1. DisplayTypeOK' /\ DragInv'
    BY <1>1, <1>4, EventStep DEF PollEvent
  <2> QED
    BY <1>1, <1>4, <2>1, PollStep, LifeParts
<1>5. CASE Main /\ ~ PollEvent
  <2>1. UNCHANGED display
    BY <1>5 DEF Main, Option, BadInterval, ShowsHelp,
       Parsed, EnableCamera, Start, InitAlgorithm, SpawnUpdate, Frame, NoEvent, Draw, Stop,
       JoinWorker, Disconnect, JoinUpdate, Return
  <2> QED
    BY <1>1, <1>2, <1>3, <1>5, <2>1, MainStep
<1>6. CASE Update \/ \E w \in Workers : WorkerEnds(w) \/ WorkerFails(w)
  <2>1. UNCHANGED display
    BY <1>6 DEF Update, UpdateChecks, UpdateUnits, UpdateFails, UpdateAlgorithm,
       UpdateSleeps, WorkerEnds, WorkerFails
  <2> QED
    BY <1>1, <1>2, <1>3, <1>6, <2>1, ThreadStep
<1>7. CASE UNCHANGED vars
  <2>1. LifeWithoutDisplay' /\ UNCHANGED display
    BY <1>1, <1>7 DEF vars, arguments, gateway, display, LifeWithoutDisplay, WorkersPlaced,
       UpdatePlaced, WindowPlaced, ExitPlaced
  <2> QED
    BY <1>2, <2>1
<1> QED
  BY <1>4, <1>5, <1>6, <1>7 DEF Next, Over

(* How far each thread may be at every place of run().                     *)
THEOREM LifeInvariant == Spec => [](LifeInv /\ DragInv)
BY LifeInit, LifeStep, PTL DEF Spec

(* The registers of the life cycle and of the display keep their types     *)
(* (run, on_event).                                                        *)
THEOREM TypeCorrect == Spec => []TypeOK
<1>1. LifeInv => TypeOK
  BY DEF LifeInv
<1> QED
  BY <1>1, LifeInvariant, PTL

(* The order of run() gives every thread what it needs before it starts,   *)
(* and keeps the update thread going until the window is closed.           *)
THEOREM StartOrderHolds == Spec => []StartOrder
<1>1. LifeInv => StartOrder
  BY AfterFacts DEF LifeInv, TypeOK, WorkersPlaced, UpdatePlaced, WindowPlaced, ExitPlaced,
     StartOrder, Unstarted, Starting, Showing, Ending
<1> QED
  BY <1>1, LifeInvariant, PTL

(* The joins of stop() and run() leave no thread behind that would use the *)
(* destroyed members.                                                      *)
THEOREM NothingOutlivesRunHolds == Spec => []NothingOutlivesRun
<1>1. LifeInv => NothingOutlivesRun
  BY DEF LifeInv, WorkersPlaced, UpdatePlaced, ExitPlaced, NothingOutlivesRun, Workers,
     Unstarted, Starting, Showing, Ending
<1> QED
  BY <1>1, LifeInvariant, PTL

(* The drag of _on_event keeps its grip at any zoom and over any distance. *)
THEOREM GripHoldsAlways == Spec => []GripHolds
<1>1. DragInv => GripHolds
  BY DEF DragInv
<1> QED
  BY <1>1, LifeInvariant, PTL

(* View, renderer and the static zoom of _on_event agree, between any      *)
(* bounds.                                                                 *)
THEOREM ZoomAgreesAlways == Spec => []ZoomAgrees
<1>1. DragInv => ZoomAgrees
  BY DEF DragInv
<1> QED
  BY <1>1, LifeInvariant, PTL

=====================================================================================
