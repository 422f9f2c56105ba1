--------------------------------- MODULE Telemetry ---------------------------------
(***************************************************************************)
(* What the robot's packets go through in the client: the reader thread    *)
(* takes them from the two streams into one response buffer, decodes them  *)
(* and keeps the last of every type; the update thread's odometer looks at *)
(* the last packet of its type in every cycle, new or not. How the threads *)
(* connect and disconnect is the subject of module Gateway; here a         *)
(* connection is up or down.                                               *)
(***************************************************************************)
EXTENDS Integers, Sequences

CONSTANTS
    Types,        \* the types of packet the robot sends
    StreamOf,     \* the stream each type is sent on
    Odo,          \* the type of the odometer's packets
    Camera,       \* enable_camera
    MaxPackets,   \* bound: packets of a type
    MaxBad        \* bound: decodings that fail, per stream

Streams == {"command", "camera"}

ASSUME TelemetryAssumption ==
    /\ Odo \in Types /\ StreamOf \in [Types -> Streams]
    /\ Camera \in BOOLEAN /\ MaxPackets \in Nat /\ MaxBad \in Nat

\* The n-th packet of a type, with the ticks of the wheels as one bit.
Packets == [type : Types, n : 1 .. MaxPackets, tick : {0, 1}]

VARIABLES
    up,           \* are the sockets connected
    inflight,     \* per stream, the packets sent and not yet received
    made,         \* per type, how many packets the robot has sent
    stage,        \* what the reader is doing: recv, drain, decode, set or pause
    stream,       \* on which socket
    response,     \* its buffer
    held,         \* currentBasePacketList of the codec
    rest,         \* what the loop of _decode_packets has yet to store of it
    last,         \* _last_packets: per type the set of its one packet, or {}
    received, lost, bad,   \* _stats, per stream
    wheel,        \* the tick ODO remembers
    ticks         \* how often ODO has added to its distance

net    == <<up, inflight, made>>
stats  == <<received, lost, bad>>
codec  == <<held, rest, last>>
reader == <<stage, stream, response, codec, stats>>
odo    == <<wheel, ticks>>
vars   == <<net, reader, odo>>

Init ==
    /\ up = TRUE /\ inflight = [s \in Streams |-> <<>>]
    /\ made = [t \in Types |-> 0]
    /\ stage = "recv" /\ stream = "command"
    /\ response = <<>> /\ held = <<>> /\ rest = <<>> /\ last = [t \in Types |-> {}]
    /\ received = [s \in Streams |-> 0]
    /\ lost = [s \in Streams |-> 0] /\ bad = [s \in Streams |-> 0]
    /\ wheel = 0 /\ ticks = 0

----------------------------------------------------------------------------
(* The robot and the connection. Either thread may find it broken at any   *)
(* moment; what was under way is lost.                                     *)

\* Only the odometer's packets tell of the wheels.
Ticks(t) == IF t = Odo THEN {0, 1} ELSE {0}

RobotSends(t) ==
    /\ up /\ made[t] < MaxPackets
    /\ made' = [made EXCEPT ![t] = @ + 1]
    /\ \E tick \in Ticks(t) :
          inflight' = [inflight EXCEPT ![StreamOf[t]] =
                          Append(@, [type |-> t, n |-> made'[t], tick |-> tick])]
    /\ UNCHANGED <<up, reader, odo>>

Disconnect ==
    /\ up
    /\ up' = FALSE /\ inflight' = [s \in Streams |-> <<>>]
    /\ UNCHANGED <<made, reader, odo>>

Reconnect ==
    /\ ~ up
    /\ up' = TRUE
    /\ UNCHANGED <<inflight, made, reader, odo>>

----------------------------------------------------------------------------
(* Socket::read: a blocking recv, then recv without blocking until there   *)
(* is nothing left. Every recv takes some of what has arrived. An          *)
(* exception leaves in the buffer what was appended to it.                 *)

Take ==
    \E n \in 1 .. Len(inflight[stream]) :
        /\ response' = response \o SubSeq(inflight[stream], 1, n)
        /\ inflight' = [inflight EXCEPT ![stream] = SubSeq(@, n + 1, Len(@))]

Recv ==
    /\ stage = "recv" /\ up
    /\ Take /\ stage' = "drain"
    /\ UNCHANGED <<up, made, stream, codec, stats, odo>>

Drain ==
    /\ stage = "drain" /\ up
    /\ Take
    /\ UNCHANGED <<up, made, stage, stream, codec, stats, odo>>

\* Nothing left, or an error that read() swallows.
Drained ==
    /\ stage = "drain"
    /\ stage' = "decode"
    /\ UNCHANGED <<net, stream, response, codec, stats, odo>>

\* A reset, a socket that is not connected, or another error of the blocking
\* recv: _read catches the exception.
ReadFails ==
    /\ stage = "recv" \/ (stage = "drain" /\ ~ up)
    /\ stage' = "pause"
    /\ UNCHANGED <<net, stream, response, codec, stats, odo>>

----------------------------------------------------------------------------
(* Gateway::_decode_packets and _read around it.                           *)

\* A mutant of DecodeDone: the buffer is not cleared.
DecodeDoneKeeps ==
    /\ UNCHANGED response
    /\ IF stream = "command" /\ Camera
          THEN stage' = "recv" /\ stream' = "camera"
          ELSE stage' = "pause" /\ stream' = "command"
    /\ UNCHANGED <<net, odo>>

\* After decoding, the buffer is cleared and the next socket is read.
DecodeDone ==
    /\ response' = <<>>
    /\ IF stream = "command" /\ Camera
          THEN stage' = "recv" /\ stream' = "camera"
          ELSE stage' = "pause" /\ stream' = "command"
    /\ UNCHANGED <<net, odo>>

\* The codec has decoded the buffer: without a header packet its packets count
\* as lost, and are kept as the others are.
Decode(header) ==
    /\ stage = "decode" /\ stage' = "set"
    /\ held' = held \o response /\ rest' = held'
    /\ received' = [received EXCEPT ![stream] = @ + Len(held')]
    /\ lost' = IF header THEN lost ELSE [lost EXCEPT ![stream] = @ + Len(held')]
    /\ UNCHANGED <<net, stream, response, last, bad, odo>>

\* Mutants of Stored: the first packet of a type stays; the types are not told
\* apart.
StoredOnce(p) ==
    [last EXCEPT ![p.type] = IF @ = {} THEN {p} ELSE @]

StoredAny(p) == [t \in Types |-> {p}]

\* _set: the packet takes the place of the last one of its type.
Stored(p) == [last EXCEPT ![p.type] = {p}]

\* A turn of the loop over the list. The units may look between two turns.
Set ==
    /\ stage = "set" /\ rest # <<>>
    /\ last' = Stored(Head(rest))
    /\ rest' = Tail(rest)
    /\ UNCHANGED <<net, stage, stream, response, held, stats, odo>>

\* The list is cleared once all of it is stored.
Decoded ==
    /\ stage = "set" /\ rest = <<>>
    /\ held' = <<>>
    /\ DecodeDone
    /\ UNCHANGED <<rest, last, stats>>

\* The codec fails: what it had decoded before that stays in its list.
DecodeFails ==
    /\ stage = "decode" /\ bad[stream] < MaxBad
    /\ bad' = [bad EXCEPT ![stream] = @ + 1]
    /\ \E n \in 0 .. Len(response) : held' = held \o SubSeq(response, 1, n)
    /\ DecodeDone
    /\ UNCHANGED <<rest, last, received, lost>>

\* _read sleeps, waits for the connection and begins again with the main socket.
Resume ==
    /\ stage = "pause" /\ up
    /\ stage' = "recv" /\ stream' = "command"
    /\ UNCHANGED <<net, response, codec, stats, odo>>

----------------------------------------------------------------------------
\* A mutant of OdoUpdate: the tick is not remembered.
OdoUpdateForgets ==
    /\ \E p \in last[Odo] : p.tick # wheel
    /\ ticks' = ticks + 1 /\ UNCHANGED wheel
    /\ UNCHANGED <<net, reader>>

\* ODO::update, when the wheels of the last packet differ from those it
\* remembers; otherwise it changes nothing.
OdoUpdate ==
    /\ \E p \in last[Odo] : p.tick # wheel /\ wheel' = p.tick
    /\ ticks' = ticks + 1
    /\ UNCHANGED <<net, reader>>

Next ==
    \/ \E t \in Types : RobotSends(t)
    \/ Disconnect \/ Reconnect
    \/ Recv \/ Drain \/ Drained \/ ReadFails
    \/ \E header \in BOOLEAN : Decode(header)
    \/ Set \/ Decoded \/ DecodeFails \/ Resume
    \/ OdoUpdate

Spec == Init /\ [][Next]_vars

----------------------------------------------------------------------------
TypeOK ==
    /\ up \in BOOLEAN /\ made \in [Types -> 0 .. MaxPackets]
    /\ inflight \in [Streams -> Seq(Packets)]
    /\ stage \in {"recv", "drain", "decode", "set", "pause"} /\ stream \in Streams
    /\ response \in Seq(Packets) /\ held \in Seq(Packets) /\ rest \in Seq(Packets)
    /\ last \in [Types -> SUBSET Packets]
    /\ \A t \in Types : \A p, q \in last[t] : p.type = t /\ p = q
    /\ received \in [Streams -> Nat] /\ lost \in [Streams -> Nat]
    /\ bad \in [Streams -> 0 .. MaxBad]
    /\ wheel \in {0, 1} /\ ticks \in Nat

Rising(packets, t) ==
    \A i, j \in DOMAIN packets :
        i < j /\ packets[i].type = t /\ packets[j].type = t => packets[i].n < packets[j].n

Newer(packets, old, t) ==
    \A i \in DOMAIN packets, p \in old[t] : packets[i].type = t => p.n < packets[i].n

\* What the client has received and not yet handed on.
Waiting == IF stage = "set" THEN rest ELSE held \o response

(* No packet is handed on twice or behind a later one of its type, whatever *)
(* stays behind in the buffer or in the codec when a read or a decoding     *)
(* fails: what waits in the codec, the buffer and the stream of a type is   *)
(* in the order in which it was sent, and newer than what was handed on.    *)
NothingTwice ==
    \A t \in Types :
        LET waiting == Waiting \o inflight[StreamOf[t]]
        IN  Rising(waiting, t) /\ Newer(waiting, last, t)

(* What the units read never goes back, not even while a decoding hands its *)
(* packets on one by one. And when it has, the last packet of every type is *)
(* at least as new as all in the codec's list, parts of which may stem from *)
(* decodings that failed, from an earlier connection or the other socket.   *)
NewestIsKept ==
    [][/\ \A t \in Types : \A p \in last[t] : \E q \in last'[t] : q.n >= p.n
       /\ stage = "set" /\ stage' # "set" =>
             \A i \in DOMAIN held : \E q \in last'[held[i].type] : q.n >= held[i].n]_vars

(* The odometer reads the same packet many times and adds to its distance  *)
(* at most once for each.                                                  *)
NoTickTwice == ticks <= made[Odo]

(* "Header packet not detected, dismissing data received": data counted as *)
(* lost is not handed on.                                                  *)
LostIsDismissed == [][lost' # lost => rest' = <<>>]_vars
====================================================================================
