# TLA+ model of the EpitechClient robot client

EpitechClient (`src/EpitechClient`) connects to a Naio robot (or its simulator) over two TCP
sockets, decodes what the robot reports, finds the lines of vegetables in the lidar's view, and
drives the robot along them and around their ends. This directory holds TLA+ modules of the parts
where its logic lies, TLC configurations that check them, and proofs that TLAPS checks.

## 1. Inventory

| component | state | operations | hard behaviour |
|---|---|---|---|
| `Gateway` (`Gateway/Gateway.*`) | `_running`, `_connect_mutex`, `_connect_condv`, `_packet_queue`, `_last_packets`, `_stats`, two threads | `start`, `stop`, `_connect`, `_disconnect`, `_reconnect`, `_read`, `_write`, `enqueue`, `get` | three threads, a condition variable used as a timed sleep, `unlock` by a thread that does not own the mutex, exceptions under `noexcept`, connections lost at any moment |
| `Socket` (`Gateway/Socket.*`) | `_fd`, `_connected`, `_nonblock_option`, `_lock`, `errno` | `connect`, `disconnect`, `read`, `write` | `disconnect` without the lock, a cached flag, `errno` read after success |
| telemetry (`_decode_packets`, `_set`, `get`) | `response`, the codec's list, `_last_packets` | decode, store, read | buffers that survive exceptions, packets read again and again |
| units (`Oz/*`) | copies of the last packet of each type; motor setpoint; distance; gyro sums | `update`, setters and getters | order within a cycle, stale packets, commands that queue up while there is no connection |
| `Lidar` (`Oz/Lidar.*`) | `_distances`, `_detections`, the two extreme angles | `update`, `detect_between` | a loop that filters, counts and searches at once, and hands its result out last |
| `Camera` (`Oz/Camera.*`, `utilities.*`) | `_left_buffer`, `_right_buffer`, `_has_image` | `update`, `_update_buffers`, `zlib_uncompress`, `bayer_grbg32_to_rgba24` | index ranges, a packet replaced in the middle of an update, an exception nobody catches |
| `Scanner` (`Algorithm/Algorithm.cpp:70-207`) | `_world`, clusters, `_sub_lines` | `agglomerate`, `scan_sub_lines`, `neighbors_of`, `expand` | a list that grows while it is iterated, an order that does not tell two points apart |
| `Algorithm` (`Algorithm/Algorithm.cpp:210-431`) | `_next`, `_startTurn` | `wait`, `goStraightForPlow`, `endPlow`, `adjust`, `turnOnNextLigne`, `get_near_point` | commands that lag a cycle, limits in doubles, an uninitialised field |
| `Playground`, `Arguments`, `System` | members, update thread, options | the constructor, `run`, `arg_parse` | the order of starting, joins, exceptions outside of every handler |
| `Display`, `RenderLidar` | window, drag, zoom, switches | `show`, `_on_event`, drawing | a drag under a changing zoom; it reads what the update thread writes |
| ApiCodec (submodule, absent), SFML, zlib | | | external |

How they interact: the main thread runs `Playground::run`: it starts the gateway (reader and writer
thread), then the update thread, and stays in `Display::show` until the window is closed; then it
stops the gateway and joins the update thread. Every `read_interval` the update thread calls
`update()` of the units in the order camera, lidar, motor, cpu, gps, gyro, odo, actuator (they take
their packets from `Gateway::get`, the motor queues one with `Gateway::emplace`) and then
`Algorithm::update`, which scans the lidar's capture and runs the current step of the mission. The
writer thread empties the packet queue; the reader thread fills `_last_packets`.

What makes each part correct:

* gateway: one thread at a time opens or closes sockets; flags and descriptors agree; `stop` leaves
  nothing open and returns, unless a silent robot holds a thread in a call; commands reach the robot
  in order and once; no error keeps a lock;
* socket: I/O in blocking mode; the lock is released on every path;
* telemetry: no packet is handed on twice, none replaces a newer one;
* scanner: it terminates, lines are disjoint and hold together, the nearest line is found;
* lidar: the count, the extreme angles and the distances are of one capture;
* drive: the robot is sent the mission's commands in their order, and obeys the last one in the end;
* mission: the robot has stopped before it turns, the legs of a turn follow each other, a turn
  ends unless the odometer stands still in one of its legs;
* camera: pixels have the colours the sensor saw, both eyes show one packet, no access leaves its array;
* playground: threads find ready what they need, closing the window ends them all (but for a
  thread of the gateway that waits for the robot), none is left when what it uses is destroyed;
* display: what is dragged stays under the pointer, the copies of the zoom agree.

`PROJECT.json` lists the hazards of the code at their lines, each with the properties that cover it
or the reason why none does.

## 2. Modules

| module | models | uses |
|---|---|---|
| `PacketChannel` | abstract: a FIFO channel that may lose packets; with the proof of its order | |
| `Gateway` | threads, mutex, condition variable, sockets, packet queue | `PacketChannel` (refinement) |
| `GatewayInv` | the strengthenings that make Gateway's invariants inductive | `Gateway` |
| `GatewayProofs` | theorems about Gateway | `GatewayInv` |
| `Mission` | the update cycle: lidar, motor, odometer, the steps of the algorithm | |
| `Drive` | composition: the mission, the commands its units queue, and the robot that obeys them | `Mission` |
| `DriveProofs` | theorems about Mission and Drive; that Drive implements Mission | `Drive` |
| `Scanner` | one update of the scanner, and `get_near_point` | |
| `ScannerProofs` | theorems about Scanner | `Scanner` |
| `Telemetry` | streams, response buffer, codec, last packets, the odometer's reading of them | |
| `TelemetryProofs` | theorems about Telemetry | `Telemetry` |
| `Camera` | an update of the camera: decompression, size tests, conversions | |
| `Lidar` | an update of the lidar, value by value | |
| `LidarProofs` | theorems about Lidar | `Lidar` |
| `Sensors` | composition: camera and lidar in the update thread, the reader thread beside them | `Camera`, `Lidar` |
| `SensorsProofs` | theorems about Sensors and Camera; that Sensors implements both | `Sensors`, `LidarProofs` |
| `Display` | the events of the window | |
| `Playground` | command line, start, frames, update thread, stop, exit | `Display` |
| `PlaygroundProofs` | theorems about Playground and Display | `Playground` |
| `MCGateway`, `MCDrive`, `MCScanner`, `MCTelemetry`, `MCSensors`, `MCCamera`, `MCPlayground` | the instances for TLC | |

Operators whose name follows a comment that begins with "Mutant" or "A mutant" are faulty variants
of the definition after them. `PROJECT.json` names for every property the variant that breaks it;
they are part of no specification.

### Gateway

`pc[t]` is the place of a thread in the code; a thread is in one of `_connect`, `_disconnect`,
`_reconnect` (`op[t]`), and works on one of the sockets (`sock[t]`). One action is what happens
between two points at which another thread can see a difference: `try_lock` is `TryLock`, the loop
of its else branch is `RetryTakes`, `RetryWaits`, `WaitTimeout`, `WaitNoTimeout`; closing a socket is
`CloseFlag` (the flag) then `CloseFd` (shutdown, close, the flag once more, which another thread may
have set in between, `_fd = -1`), because `disconnect` takes no lock;
`connect` is `Dial`, `DialOk` or `DialFails`, `ReadOptions`.

* `unlock` of a mutex another thread owns is undefined. The model gives it the outcome of the
  build's pthread mutexes: the mutex is free afterwards.
* `SpuriousWakeups` says whether `wait_until` may return `no_timeout` before it is notified.
* `_connect_condv` is only notified by `stop`, and each waiter brings its own mutex, so a
  notification before the wait is missed; `NotifyAll` reaches those who wait at that moment.
* `Terminate` is the end of the process: an exception that leaves `_read` or `_write`. All threads
  go to `dead`.
* `staleErrno` says that the reader's `errno` still holds ECONNRESET or EBADF; `_buffer_recv` tests
  it even when data came. Library calls between may overwrite it: both outcomes are taken.
* Packets are numbered in the order of queueing; `sent` and `pushed` record history.

Left out: `std::bad_alloc`; the race between the last two lines of `connect` (89-90), one step here;
the data race on the `std::queue`, whose operations are atomic here; `start` after `stop`.

### Mission

An action is a cycle of the update thread: `Units` (lidar, motor, odometer, in the order of the
code) and then the step `_next` points to. What the lidar sees and which wheels move is free. The
distance is kept in thousandths of a centimetre; in the code it is a sum of doubles, so a
comparison with an equal limit may come out either way: `Within` and `Beyond` overlap there. The
scanner's result enters `Adjust` as the relation of the two near points.

### Drive

`Cycle` is a cycle of `Mission` that also queues what the units queue: the motors' packet, always,
and the actuator's, which is `Other` here. `queue` holds the packets from `_packet_queue` to the
robot; `Receive` and `Lose` take the oldest one, as the abstract `PacketChannel` allows, which
`Gateway` is proved to implement. `robot` is the last command that arrived. The code bounds the queue by
nothing; `MaxQueue` is a bound of the model, not of `DriveProofs`' argument. `gap` is history: a
command was lost since the one the robot obeys. `MayFollow` is read off the steps of the mission: which
setpoint can come right after which.

### Scanner

Points lie on a grid and are named by their place in the sorted world. `Detect` builds the sorted
world point by point: it is the outcome of `agglomerate`, with equivalent points in either order.
`Seed`, `Bind`, `Revisit`, `CloseLine`, `Skip` are the turns of the two loops of `scan_sub_lines` and
`expand`. `neighbors_of` goes through the world in its order, so its list is `Ascending` of the set of
places it lets through; `Beyond` is what `erase` leaves of it. `Measure` is a turn of the loop of
`get_near_point`, which runs on the lines found; `near` holds its four variables, with the distances
squared.

### Telemetry

A connection is up or down here, and either thread may take it down at any moment, also in the
middle of `read`; the blocking `recv` may also fail on a connection that stays up. The codec is
external: a decoding succeeds with or without header or fails and keeps a prefix of what it was
given. `Decode` leaves what it has found in `rest`, `Set` is one call of `_set`, which hands the oldest of
it to the units, and `Decoded` is the end of the loop: the units may look between two of
them. A packet carries its number and one bit for the wheels' ticks.

### Camera

A byte of a picture is not a value but where it comes from: the packet, and the offsets of the data
whose mean it is (none for the alpha channel, two for green). A conversion is the relation between
the byte written and the bytes read that its loop indices give (`Bayer`, `Colorized`); `InBounds`
asks whether it stays in its arrays, and the process is `undefined` once one has not. A conversion
of an eye is one step; between the two the reader may store another packet (`Arrive`). The sum of
the two halved green bytes is at most 254, so that it never wraps.

### Lidar and Sensors

`BeginScan` copies the last capture, `Discard` and `Count` are the two branches of the loop, `EndScan`
is the swap. Between them the reader thread may store another capture, which the update does not
see. `source` is history: the capture the distances were made of. `Sensors` puts the camera and
the lidar in one thread: `unit` is the unit `Oz::update` is at, and a process that has failed in
the camera scans nothing any more. The display's reads of these units are not modelled: the swap of
a `shared_ptr` beside its copy, and the buffers written in place, are data races without outcomes
worth enumerating (see the hazards).

### Playground and Display

`main` is the place of the main thread: `parse`, then the statements of `run` in the order of the
table `After`, with the statements of `Gateway::stop` in its place; `loop`, `poll` and `draw` are
those of `Display::show`. The update thread has a place per statement of its loop. A thread of the
gateway runs until it finds `_running` cleared or ends the process (`Gateway!Terminate`); that it
does find it, if the robot serves, is `Gateway!StopReturns`. The options of the command line are one
action, `Option`, with a disjunct for each kind. `process` is `terminated` after an exception without a
handler: `std::stoul` in `arg_parse`, which runs before the constructor's `try`, zlib's in the update
thread, a socket's in the gateway's threads. The handler in the constructor catches what `run`
throws, and nothing there throws a `ClientException`.

Positions are one coordinate, and zooms are in tenths, rounded down, where the code has floats. The
center of the view is measured from where it was when the button last went down or up, since only
what a drag adds to it matters. `pointer` and `grip` are history.

## 3. Runs

| run | checks | bounds |
|---|---|---|
| `gateway_safety` | `TypeOK`, `SoleManager`, `DescriptorMatchesFlag`, `ClosedAfterStop`, `BlockingIO`, `ChannelSpec` | camera on, no spurious wakeup, 2 packets |
| `gateway_stop` | `ClosedAfterStop`, `StopReturns` | command socket only, spurious wakeups, 1 packet |
| `gateway_drain` | `QueueDrains` | command socket only, no spurious wakeup, 1 packet |
| `gateway_failure` | `ThreadFailureIsHandled`, violated | command socket only |
| `drive` | `DriveTypeOK`, `TurnHasStart`, `RobotFollows`, `StopBeforeTurn`, `LegsInOrder`, `TurnLength`, `TurnEnds`, `RobotObeys` | 20 ticks, 4 packets on their way |
| `scanner` | `TypeOK`, `NoPointListedTwice`, `LinesDisjoint`, `LinesChained`, `LinesRunAway`, `LinesGoOn`, `NearPointIsNearest`, `SecondIsAnother` | 17 places, 6 points |
| `scanner_dbscan` | `NeighborsShareCluster`, violated | the same |
| `telemetry` | `TypeOK`, `NothingTwice`, `NoTickTwice`, `NewestIsKept` | 2 types, 3 packets of each, 1 failed decoding per stream |
| `telemetry_header` | `LostIsDismissed`, violated | the same |
| `sensors` | `SensorsTypeOK`, `PixelsAreCells`, `PairFromOnePacket`, `RawStaysInBounds`, `LidarAgrees` | 3 by 2 pixels, 2 packets, sizes at and one below each limit; 5 rays, 6 captures, 2 of them arrive |
| `camera_colorized` | `ConversionInBounds`, violated | the same pictures |
| `playground` | `TypeOK`, `StartOrder`, `NothingOutlivesRun`, `GripHolds`, `ZoomAgrees`, `ClosingEnds` | 2 options, 3 positions, zoom between 9.2 and 10.5 |

Why the bounds are enough. The threads and sockets of the gateway are all there, nothing bounds how
often connections are lost and made again, and two packets are the fewest that can change places;
the theorems cover any number. 20 ticks hold a
complete turn after up to three ticks of driving and the beginning of a second one, and four
packets on their way are two commands, one of which may be late or lost behind the other; the theorems
again cover any distance and any queue. Six points make two lines of three, the fewest with a nearest,
and a chain long enough for the list of `expand` to grow while it is iterated. Three packets of a
type are enough for one in the codec, one in the buffer and one on the stream. A picture of 3 by 2
pixels has neighbours in both directions and tells width from height; the index expressions are
linear in each, and a packet replaces another with two. The captures have values below, at and beyond
both limits of the range on either side and straight ahead. The zoom's bounds are near its start so
that both are reached within a few notches; the theorems have any bounds and positions.

`SoleManager` and `DescriptorMatchesFlag` are stated for the time the gateway runs. After `stop`,
a waiter that was notified frees the mutex of the thread at work, and two threads may manage the
sockets at once; with spurious wakeups this may happen at any time. `ClosedAfterStop` and
`BlockingIO` hold all the same: both are proved for both sockets, with spurious wakeups or without,
and the first is checked in `gateway_stop` again.

Deadlock is checked in the gateway, drive, telemetry and playground runs; an update of the scanner
ends, and so does a process that has failed in the camera and sensors runs.

### Fairness

* `Gateway!FairSpec`: weak fairness of every thread's steps, but for those only the robot can bring
  about: `AwaitsRobot(t)` says that a worker is in `recv` or `send` on a connection that is up. The code
  sets no timeout on its sockets (`Socket.cpp:163`), and `stop` notifies and joins before it
  disconnects, so nothing in the program ends such a call. `StopReturns` and `QueueDrains` therefore have
  the premise `RobotServes`: no worker waits for the robot for ever. It is needed: without it
  TLC finds `stop` waiting in `join` for a worker in `recv`, and a packet that waits in the queue for
  `send` to return. What the two do show is that the robot is all there is to wait for: not the
  condition variable, the mutex, the locks, a dial or a thread between two sockets.
* `Gateway!LiveSpec` adds strong fairness for the writer's locks and for a dial that succeeds: the
  reader sleeps `_read_interval` outside the locks, and the robot does not refuse for ever.
  `QueueDrains` excepts, besides, a writer that finds `_connect_mutex` taken at every poll: nothing in
  the code excludes it.
* `Playground!FairSpec`: weak fairness of the main thread and the update thread, and nothing of the
  gateway's threads. `ClosingEnds` starts from a closed window, since nothing makes the user close it,
  and says that the process ends or that `stop` is held for ever in the join of a gateway thread
  that was told to end and does not. Whether such a thread ends is `StopReturns`' question, with its premise.
* `Drive!DriveFairSpec`: cycles go on (strong fairness, because the model's bound on the queue, which the
  code does not have, may hold them up for a while); packets leave the queue, since the writer empties it
  while the gateway runs (`Gateway!QueueDrains`); of the commands that get the chance again and again
  one arrives, that is, the connection is not lost for ever: an assumption about the network.
  Nothing is assumed of the wheels. In a leg that drives one side only, the other side's wheels must be
  dragged along for the distance to grow (`ODO.cpp:60`), and they may not be. `TurnEnds` says what
  follows: the turn ends, or the odometer stands still within one of its legs for ever, and then the
  robot obeys that leg's command and no other.

## 4. Disagreements between code and comments

* `gateway_failure`: `_disconnect` closes a socket while the other thread is inside `read` or
  `write` (`Socket::disconnect` does not take `_lock`). `fcntl` fails, `_nonblock` throws
  `SocketOperationalError`, nobody catches it, and `_read` and `_write` are `noexcept`: the process
  is terminated. The handler in `Gateway.hpp:43-46`, which would report the failure and stop the
  gateway, is never reached.
* `scanner_dbscan`: `Algorithm.hh:41` calls the clustering dbscan, `Algorithm.cpp:170` says each
  neighbour is added; a neighbour that does not come after the last of the list is erased, so a
  point within `_epsilon` of a cluster may be left out of it, unbound or in another one.
  `LinesGoOn` says what is kept of it.
* `telemetry_header`: "Header packet not detected, dismissing data received" (`Gateway.cpp:269`);
  the data is counted as lost and used.
* `camera_colorized`: the test "Bad colorized image size!" (`Camera.cpp:95-96`) accepts two pictures
  of three bytes a pixel; the loops after it (`Camera.cpp:107,113`) count four times the pixels and
  write and read beyond their arrays. `RawStaysInBounds` says that raw images, which
  `Algorithm::init` asks the robot for, are converted within them.

## 5. Proofs

No theorem assumes more than the named assumptions on the constants, except where it says so.

`PacketChannel`: `SentInOrder`. The invariant `InOrderInv` says that what is pending is in order and
younger than all that was sent; appending to and taking the head of such sequences keeps it.

`GatewayProofs`: each theorem has a lemma with one step per action of `Next`.

* `TypeCorrect`, and `PlaceInvariant`: the places a thread can be in (`ThreadsInPlace`: only the
  workers do I/O, only the main thread runs `stop`, the sockets' modes fit the places).
* `LockOwnership`: `LockHeldInIO`, from the places.
* `BlockingIOHolds`: the strengthening `BlockingInv` relates `mode`, `nonblock` and the places: a
  descriptor is non-blocking only while the reader drains it or with the cached flag set.
* `SoleManagerHolds`, `DescriptorHolds` assume `~SpuriousWakeups`: nobody is notified while the
  gateway runs (`NobodyNotified`), so nobody frees a mutex that is not its own; a thread between
  clearing the flag and closing the descriptor works on an unconnected socket (`ShutIsUnconnected`).
* `ClosedAfterStopHolds`: once the workers have exited, the main thread owns the mutex while it
  manages (`OwnerManages`), and the sockets it has passed are closed (`StopProgress`).
* `ImplementsChannel`: initial states map to initial states, every action to a step of the channel
  or a stutter; with `SentInOrder` it gives `RobotSeesOrder`.

`DriveProofs`, about Mission: `MissionTypeCorrect` (the distance is a whole number of ticks),
`TurnHasStartHolds`, `StopBeforeTurnHolds` (from `StopReachesMotors`), and `LegsInOrderHolds` and
`TurnLengthHolds` from `LegInv`, which ties the setpoint to the number of ticks the turn has taken:
0 to 2 straight on, 3 or 4 left, 5 to 11 right, 11 to 16 left.

About Drive: `DriveIsMission` maps every step of the drive to a cycle of the mission or a stutter, so
that Mission's theorems hold of it. `DriveTypeCorrect` and `RobotFollowsHolds` rest on an invariant
that ties the setpoint of the motors to the step the mission is in, from which every command it
queues may follow the one before (`MayFollow`); taking the head of the queue keeps the order of
the rest.

`ScannerProofs`, for any grid, any reach and any number of points:

* `AscendingLists`: the list of a set of places has each of them once, in order. Every rank up to
  the size of the set is taken (`RankTaken`): of the ranks that are not there would be a least one,
  and the least member beyond those of smaller rank would have it.
* `IInv`, the inductive invariant. The world is sorted (`Sorted`; that "not less" is transitive is
  `NotLessTransitive`), so what `erase` leaves lies beyond the last of the list (`BeyondLast`), the
  list stays `Rising`, and `NoPointListedTwiceHolds`. The line is taken from the neighbours visited
  so far (`Taken`), hence in their order, which gives `LinesRunAwayHolds`; each of the list is within reach
  of a point of the line (`Reached`), which gives `LinesChainedHolds`. Points of lines are bound and lines
  apart (`PartInv`), which gives `LinesDisjointHolds`. A rising list is not longer than the world
  (`RisingIsShort`), so the turns stay within their bound (`Turns`, part of `TypeCorrect`).
* `GoInv`, on top of it: the list holds every unbound neighbour of the seed (`Surrounded`), all of it is
  bound once visited (`Visited`), and a neighbour of a later point that is missing was erased, so it
  does not lie beyond the last (`Erased`). `LinesGoOnHolds` follows, and `NoNearPointMissedHolds`.
* `UpdateEnds`: `StepsLeft`, a natural number that every step from `scan_sub_lines` on makes smaller:
  at most a round of `expand` for each point, with no more turns than there are points. With
  fairness of the steps, that is termination.
* `NearInv` ties what `get_near_point` knows to the lines measured so far. `NearPointIsNearestHolds`
  needs that a line begins within `Near`, which is below the `Horizon` the search starts from
  (`LineFacts`); `SecondIsAnotherHolds` that the first is found before any second.

`LidarProofs`: `LidarTypeCorrect`, and `LidarAgreesHolds` from the loop's invariant: after `at` values
the count, the angles and the filtered copy are those of the first `at` values of the capture. The
count is a cardinality that grows by one with every value kept.

`SensorsProofs`: `SensorsAreBoth` (a step of the thread is a step of one unit and a stutter of the
other); `RawStaysInBoundsHolds` from the arithmetic of the places of a picture (`BayerReach`,
`BayerInBounds`) and `Tested`, that what is being converted has passed the test of its size;
`PairFromOnePacketHolds`, since a raw image writes every byte of a picture (`BayerCovers`);
`PixelsAreCellsHolds`, since a byte belongs to one pixel (`WrittenOnce`); `SensorsTypeCorrect`. All for
pictures of any width and height.

`TelemetryProofs`: `InOrder` says, for every type, that the packets in the codec's list, the buffer and
its stream are each in the order sent, each list before the next, and all newer than the last packet
handed on; `Routed` that a stream carries only its types. Joining and cutting lists keeps this
(`JoinedRises`, `HeadAndTail` and the lemmas beside them), and so do sending, receiving, decoding,
storing a packet and failing, each with a lemma. `NothingTwiceHolds` follows, and with `TicksInv` (a tick not
yet counted belongs to a packet not yet counted) `NoTickTwiceHolds`. For `NewestIsKeptHolds`, what `Set`
stores is newer than what it replaces (`SetGoesForward`), and a packet of the codec's list is covered
by what is stored or waits in `rest` (`StoredOrWaiting`), so that all is covered when `rest` is empty.

`PlaygroundProofs`: `LifeInv` says, for every group of places of the main thread, how far the
others may be; it gives `TypeCorrect`, `StartOrderHolds` and `NothingOutlivesRunHolds`. `DragInv`
adds to `GripHolds` that a drag starts where the pointer is; two displacements in a row are one
(`Displacements`), whatever the zoom.

Only model-checked: the liveness properties (`StopReturns`, `QueueDrains`, `TurnEnds`, `RobotObeys`,
`ClosingEnds`), which need fairness.

## 6. Not modelled

* The display's layout, drawing and debug text, and `RenderLidar`, whose vertices are made anew in every
  frame and read by nothing else: there is no state between frames for a property to be about.
* The bytes the display shares with the update thread, the library containers two threads use without
  a lock, and the copy of a `shared_ptr` beside its swap: data races, listed as hazards.
* GPS and gyro, which copy or sum up the last packet for the debug text; `CPU::update`, which is
  empty; the speeds of the odometer and the run distance made of them, real numbers that only the
  debug text shows; `detect_right` and `detect_left`, which are `detect_between` with constants.
* The codec, a git submodule that is not in the repository: how it cuts a byte stream into packets is
  taken from how the gateway uses it.
* The paths of the assets, the exception classes, the build files.

## 7. Plan

Done: the gateway with its sockets, channel and proofs; the mission, alone and with the packets and the
robot, with proofs; the scanner with proofs; the telemetry with proofs; the camera and the lidar in one thread, with
proofs; the life cycle of the process with the display's events and its proofs.

Left, in this order:

1. The mission, the scanner and the lidar in one cycle: the near points `Adjust` gets as those of the
   lines found in the distances the lidar has handed out.
2. Packets cut by `recv` and joined by the codec, once its source is at hand.
