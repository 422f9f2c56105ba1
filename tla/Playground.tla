--------------------------------- MODULE Playground ---------------------------------
(***************************************************************************)
(* The life of the client: the command line, the order in which run()      *)
(* starts the gateway, the algorithm, the update thread and the display,   *)
(* the frames of the display, and how all of it ends when the window is    *)
(* closed. What the gateway's threads do while it runs is the subject of   *)
(* module Gateway, an update that of Drive, Scanner and Sensors.           *)
(***************************************************************************)
EXTENDS Display

CONSTANT MaxOptions    \* bound: options on the command line

ASSUME PlaygroundAssumption == MaxOptions \in Nat

Workers == {"read", "write"}

\* What a thread of the gateway, or the update thread, may be doing.
WorkerPlaces == {"none", "runs", "ended"}
UpdatePlaces == {"none", "check", "units", "algorithm", "sleep", "ended"}

VARIABLES
    main,          \* the place of the main thread
    parsed,        \* how many options have been parsed
    helpFlag,      \* _help_flag
    cameraAsked,   \* args.enable_camera
    cameraEnabled, \* Gateway::_enable_camera
    running,       \* Gateway::_running
    worker,        \* the gateway's threads
    step,          \* is Algorithm::_next a function, or null
    update,        \* the place of the update thread
    process        \* running; exited; terminated by an exception that nothing
                   \* catches; undefined once a null _next is called

arguments == <<parsed, helpFlag, cameraAsked>>
gateway   == <<cameraEnabled, running, worker>>
vars      == <<main, arguments, gateway, step, update, process, display>>

\* Mutants of After: the gateway is started before it is told of the camera; run()
\* does not join the update thread.
AfterLate ==
    [ parse  |-> "start",  start |-> "enable", enable |-> "init",  init |-> "spawn",
      spawn  |-> "loop",   stop  |-> "read",   read   |-> "write", write |-> "disconnect",
      disconnect |-> "join", join |-> "return" ]
AfterNoJoin ==
    [ parse  |-> "enable", enable |-> "start", start |-> "init",   init |-> "spawn",
      spawn  |-> "loop",   stop  |-> "read",   read   |-> "write", write |-> "disconnect",
      disconnect |-> "return", join |-> "return" ]

\* The order of run(), with stop() in its place.
After ==
    [ parse  |-> "enable", enable |-> "start", start |-> "init",   init |-> "spawn",
      spawn  |-> "loop",   stop  |-> "read",   read   |-> "write", write |-> "disconnect",
      disconnect |-> "join", join |-> "return" ]

MainPlaces == DOMAIN After \cup {"loop", "poll", "draw", "return"}

Init ==
    /\ main = "parse" /\ parsed = 0 /\ helpFlag = FALSE /\ cameraAsked = TRUE
    /\ cameraEnabled = TRUE /\ running = FALSE
    /\ worker = [w \in Workers |-> "none"]
    /\ step = FALSE /\ update = "none" /\ process = "running"
    /\ DisplayInit

At(place) == process = "running" /\ main = place
Go        == main' = After[main]

----------------------------------------------------------------------------
(* arg_parse, an initializer of the constructor: before its try block.     *)

\* -h, -x, or one that says nothing here: hosts, ports, intervals, verbose, and
\* what getopt_long does not know.
Option ==
    /\ At("parse") /\ parsed < MaxOptions
    /\ parsed' = parsed + 1
    /\ \/ helpFlag' = TRUE /\ UNCHANGED cameraAsked
       \/ cameraAsked' = FALSE /\ UNCHANGED helpFlag
       \/ UNCHANGED <<helpFlag, cameraAsked>>
    /\ UNCHANGED <<main, gateway, step, update, process, display>>

\* std::stoul throws on an interval that is not a number.
BadInterval ==
    /\ At("parse") /\ parsed < MaxOptions
    /\ process' = "terminated"
    /\ UNCHANGED <<main, arguments, gateway, step, update, display>>

\* exit(0), or exit(1) when arguments are left that are no options.
ShowsHelp ==
    /\ At("parse")
    /\ process' = "exited"
    /\ UNCHANGED <<main, arguments, gateway, step, update, display>>

Parsed ==
    /\ At("parse") /\ ~ helpFlag
    /\ Go
    /\ UNCHANGED <<arguments, gateway, step, update, process, display>>

----------------------------------------------------------------------------
(* run() up to the display.                                                *)

EnableCamera ==
    /\ At("enable") /\ Go
    /\ cameraEnabled' = cameraAsked
    /\ UNCHANGED <<arguments, running, worker, step, update, process, display>>

Start ==
    /\ At("start") /\ Go
    /\ running' = TRUE
    /\ worker' = IF running THEN worker ELSE [w \in Workers |-> "runs"]
    /\ UNCHANGED <<arguments, cameraEnabled, step, update, process, display>>

InitAlgorithm ==
    /\ At("init") /\ Go
    /\ step' = TRUE
    /\ UNCHANGED <<arguments, gateway, update, process, display>>

SpawnUpdate ==
    /\ At("spawn") /\ Go
    /\ update' = "check"
    /\ UNCHANGED <<arguments, gateway, step, process, display>>

----------------------------------------------------------------------------
(* Display::show: as long as the window is open, all pending events and    *)
(* then a picture.                                                         *)

Frame ==
    /\ At("loop")
    /\ main' = IF open THEN "poll" ELSE "stop"
    /\ UNCHANGED <<arguments, gateway, step, update, process, display>>

PollEvent ==
    /\ At("poll") /\ open
    /\ OnEvent
    /\ UNCHANGED <<main, arguments, gateway, step, update, process>>

NoEvent ==
    /\ At("poll")
    /\ main' = "draw"
    /\ UNCHANGED <<arguments, gateway, step, update, process, display>>

Draw ==
    /\ At("draw")
    /\ main' = "loop"
    /\ UNCHANGED <<arguments, gateway, step, update, process, display>>

----------------------------------------------------------------------------
(* The end of run(): Gateway::stop, and the update thread is joined. Then  *)
(* the members are destroyed; ~Gateway calls stop() again, which finds     *)
(* _running cleared.                                                       *)

Stop ==
    /\ At("stop")
    /\ main' = IF running THEN After[main] ELSE "join"
    /\ running' = FALSE
    /\ UNCHANGED <<arguments, cameraEnabled, worker, step, update, process, display>>

JoinWorker(w) ==
    /\ At(w) /\ worker[w] = "ended" /\ Go
    /\ UNCHANGED <<arguments, gateway, step, update, process, display>>

Disconnect ==
    /\ At("disconnect") /\ Go
    /\ UNCHANGED <<arguments, gateway, step, update, process, display>>

JoinUpdate ==
    /\ At("join") /\ update = "ended" /\ Go
    /\ UNCHANGED <<arguments, gateway, step, update, process, display>>

Return ==
    /\ At("return")
    /\ process' = "exited"
    /\ UNCHANGED <<main, arguments, gateway, step, update, display>>

Main ==
    \/ Option \/ BadInterval \/ ShowsHelp \/ Parsed
    \/ EnableCamera \/ Start \/ InitAlgorithm \/ SpawnUpdate
    \/ Frame \/ PollEvent \/ NoEvent \/ Draw
    \/ Stop \/ (\E w \in Workers : JoinWorker(w)) \/ Disconnect \/ JoinUpdate \/ Return

----------------------------------------------------------------------------
(* The other threads.                                                      *)

\* A loop of the gateway's that finds _running cleared.
WorkerEnds(w) ==
    /\ process = "running" /\ worker[w] = "runs" /\ ~ running
    /\ worker' = [worker EXCEPT ![w] = "ended"]
    /\ UNCHANGED <<main, arguments, cameraEnabled, running, step, update, process, display>>

\* An exception of a socket under noexcept (Gateway!Terminate).
WorkerFails(w) ==
    /\ process = "running" /\ worker[w] = "runs"
    /\ process' = "terminated"
    /\ UNCHANGED <<main, arguments, gateway, step, update, display>>

UpdateAt(place) == process = "running" /\ update = place

\* A mutant: the loop does not look at the gateway.
UpdateChecksNot ==
    /\ UpdateAt("check")
    /\ update' = "units"
    /\ UNCHANGED <<main, arguments, gateway, step, process, display>>

UpdateChecks ==
    /\ UpdateAt("check")
    /\ update' = IF running THEN "units" ELSE "ended"
    /\ UNCHANGED <<main, arguments, gateway, step, process, display>>

UpdateUnits ==
    /\ UpdateAt("units")
    /\ update' = "algorithm"
    /\ UNCHANGED <<main, arguments, gateway, step, process, display>>

\* Camera::update throws (Camera!UncompressFails); the thread has no handler.
UpdateFails ==
    /\ UpdateAt("units")
    /\ process' = "terminated"
    /\ UNCHANGED <<main, arguments, gateway, step, update, display>>

UpdateAlgorithm ==
    /\ UpdateAt("algorithm")
    /\ IF step THEN update' = "sleep" /\ process' = process
               ELSE process' = "undefined" /\ update' = update
    /\ UNCHANGED <<main, arguments, gateway, step, display>>

UpdateSleeps ==
    /\ UpdateAt("sleep")
    /\ update' = "check"
    /\ UNCHANGED <<main, arguments, gateway, step, process, display>>

Update ==
    \/ UpdateChecks \/ UpdateUnits \/ UpdateFails \/ UpdateAlgorithm \/ UpdateSleeps

Over == process # "running" /\ UNCHANGED vars

Next ==
    \/ Main \/ Update \/ Over
    \/ \E w \in Workers : WorkerEnds(w) \/ WorkerFails(w)

Spec == Init /\ [][Next]_vars

\* The main and the update thread go on. Nothing makes the user close the window,
\* and nothing is assumed of the gateway's threads: a robot that falls silent may
\* keep one from ending for ever (Gateway!StopReturns).
FairSpec == Spec /\ WF_vars(Main) /\ WF_vars(Update)

----------------------------------------------------------------------------
(* Properties.                                                             *)

\* The registers of the life cycle keep their types.
TypeOK ==
    /\ main \in MainPlaces /\ parsed \in 0 .. MaxOptions
    /\ helpFlag \in BOOLEAN /\ cameraAsked \in BOOLEAN
    /\ cameraEnabled \in BOOLEAN /\ running \in BOOLEAN /\ step \in BOOLEAN
    /\ worker \in [Workers -> WorkerPlaces]
    /\ update \in UpdatePlaces
    /\ process \in {"running", "exited", "terminated", "undefined"}
    /\ DisplayTypeOK

\* A thread finds ready what it needs: the gateway's threads the setting of the
\* camera the user asked for, the update thread the algorithm's first step and
\* a gateway that runs until the window is closed.
StartOrder ==
    /\ (\E w \in Workers : worker[w] = "runs") => cameraEnabled = cameraAsked
    /\ process # "undefined"
    /\ update = "ended" => ~ open

\* When the process exits, and the members the threads use are destroyed, no
\* thread is left that uses them.
NothingOutlivesRun ==
    process = "exited" =>
        /\ update \in {"none", "ended"}
        /\ \A w \in Workers : worker[w] \in {"none", "ended"}

\* stop() waits for a thread of the gateway, which has been told to end.
Held(w) == main = w /\ worker[w] = "runs" /\ ~ running

\* Once the window is closed the process comes to its end, whatever the threads
\* are doing at that moment, but for one case: a thread of the gateway that does
\* not return holds stop() for ever. No other thread, the update thread least,
\* and no place of run() keeps the end up.
ClosingEnds == ~ open ~> (process # "running" \/ [](\E w \in Workers : Held(w)))
=====================================================================================
