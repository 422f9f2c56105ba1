--------------------------------- MODULE Gateway ---------------------------------
(***************************************************************************)
(* The connection to the robot: the threads of Gateway.cpp (main, reader,  *)
(* writer), the connection mutex and condition variable they share, and    *)
(* the two sockets of Socket.cpp. One action per step that another thread  *)
(* can observe; the pc labels name the place in the code.                  *)
(*                                                                         *)
(*   connection management  enter retry wait close shut sleep await        *)
(*                          dialing options dialwait unlock                *)
(*   reader and writer      loop queue lock clear recv setnonblock drain   *)
(*                          restore send nap exit                          *)
(*   main                   idle run notify join done                      *)
(*   any                    dead (the process was terminated)              *)
(***************************************************************************)
EXTENDS Naturals, Sequences

CONSTANTS
    CameraEnabled,     \* _enable_camera, fixed before start()
    SpuriousWakeups,   \* may wait_until return before it is notified?
    MaxPackets         \* bound: how many packets the units ever queue

ASSUME CameraEnabledAssumption == CameraEnabled \in BOOLEAN
ASSUME SpuriousWakeupsAssumption == SpuriousWakeups \in BOOLEAN
ASSUME MaxPacketsAssumption == MaxPackets \in Nat

Workers == {"read", "write"}
Threads == Workers \cup {"main"}
Socks   == {"command", "camera"}
Nobody  == "nobody"

VARIABLES
    running,     \* _running
    pc,          \* where each thread is
    op,          \* which of _connect, _disconnect, _reconnect each thread is in
    sock,        \* the socket each thread is working on
    mutex,       \* owner of _connect_mutex
    notified,    \* waiters on _connect_condv that notify_all has reached
    connected,   \* Socket::_connected
    fd,          \* Socket::_fd: "open", or "none" for -1 (or closed)
    link,        \* the TCP connection behind fd: "up" until the robot ends it
    mode,        \* the O_NONBLOCK flag of the descriptor, in the kernel
    nonblock,    \* Socket::_nonblock_option, the program's copy of it
    lock,        \* owner of Socket::_lock
    staleErrno,  \* the reader's errno still says ECONNRESET or EBADF
    queue,       \* _packet_queue
    packet,      \* the packet popped and not yet written: <<>> or <<p>>
    sent,        \* the packets handed to the robot
    pushed       \* how many packets were queued

threadVars == <<running, pc, op, sock>>
waitVars   == <<mutex, notified>>
connVars   == <<connected, fd, link, mode, nonblock>>
sendVars   == <<queue, packet, sent, pushed>>
vars == <<threadVars, waitVars, connVars, lock, staleErrno, sendVars>>

Alive == pc["main"] # "dead"

\* The labels at which a thread is inside Socket::read or Socket::write.
IOLabels == {"clear", "recv", "setnonblock", "drain", "restore", "send"}

\* The labels at which a thread works under _connect_mutex.
ManagerLabels ==
    {"close", "shut", "sleep", "await", "dialing", "options", "dialwait", "unlock"}

Labels == IOLabels \cup ManagerLabels \cup
    {"idle", "run", "notify", "join", "done", "dead",
     "enter", "retry", "wait", "loop", "queue", "lock", "nap", "exit"}

IsConnected == connected["command"] /\ (CameraEnabled => connected["camera"])

Goto(t, label) == pc' = [pc EXCEPT ![t] = label]

Init ==
    /\ running = FALSE
    /\ pc = [t \in Threads |-> "idle"]
    /\ op = [t \in Threads |-> "connect"]
    /\ sock = [t \in Threads |-> "command"]
    /\ mutex = Nobody /\ notified = {}
    /\ connected = [s \in Socks |-> FALSE]
    /\ fd = [s \in Socks |-> "none"]
    /\ link = [s \in Socks |-> "down"]
    /\ mode = [s \in Socks |-> FALSE]
    /\ nonblock = [s \in Socks |-> FALSE]
    /\ lock = [s \in Socks |-> Nobody]
    /\ staleErrno = FALSE
    /\ queue = <<>> /\ packet = <<>> /\ sent = <<>> /\ pushed = 0

----------------------------------------------------------------------------
(* start() and stop(), called by the main thread.                          *)

\* The two workers begin in _connect().
Start ==
    /\ pc["main"] = "idle" /\ ~running
    /\ running' = TRUE
    /\ pc' = [t \in Threads |-> IF t = "main" THEN "run" ELSE "enter"]
    /\ UNCHANGED <<op, sock, waitVars, connVars, lock, staleErrno, sendVars>>

Stop ==
    /\ pc["main"] = "run" /\ running
    /\ running' = FALSE
    /\ Goto("main", "notify")
    /\ UNCHANGED <<op, sock, waitVars, connVars, lock, staleErrno, sendVars>>

\* Mutant: notifies whoever is there.
NotifyEveryone ==
    /\ pc["main"] = "notify"
    /\ notified' = Threads
    /\ Goto("main", "join")
    /\ UNCHANGED <<running, op, sock, mutex, connVars, lock, staleErrno, sendVars>>

NotifyAll ==
    /\ pc["main"] = "notify"
    /\ notified' = {t \in Workers : pc[t] \in {"wait", "dialwait"}}
    /\ Goto("main", "join")
    /\ UNCHANGED <<running, op, sock, mutex, connVars, lock, staleErrno, sendVars>>

\* Mutant: stop() forgets to join the writer.
JoinReaderOnly ==
    /\ pc["main"] = "join" /\ pc["read"] = "exit"
    /\ op' = [op EXCEPT !["main"] = "disconnect"]
    /\ Goto("main", "enter")
    /\ UNCHANGED <<running, sock, waitVars, connVars, lock, staleErrno, sendVars>>

\* Both joins return, then stop() calls _disconnect().
Join ==
    /\ pc["main"] = "join"
    /\ \A t \in Workers : pc[t] = "exit"
    /\ op' = [op EXCEPT !["main"] = "disconnect"]
    /\ Goto("main", "enter")
    /\ UNCHANGED <<running, sock, waitVars, connVars, lock, staleErrno, sendVars>>

----------------------------------------------------------------------------
(* _connect, _disconnect and _reconnect.                                   *)

\* Where a thread goes on when the operation returns.
AfterOp(t) ==
    CASE t = "main"                              -> "done"
      [] t # "main" /\ op[t] = "disconnect"      -> "nap"
      [] t # "main" /\ op[t] # "disconnect"      -> "loop"

\* Mutant: the result of try_lock() is not looked at.
TryLockUnchecked(t) ==
    /\ pc[t] = "enter"
    /\ mutex' = IF mutex = Nobody THEN t ELSE mutex
    /\ sock' = [sock EXCEPT ![t] = "command"]
    /\ Goto(t, IF op[t] = "connect" THEN "await" ELSE "close")
    /\ UNCHANGED <<running, op, notified, connVars, lock, staleErrno, sendVars>>

TryLock(t) ==
    /\ pc[t] = "enter"
    /\ IF mutex = Nobody
          THEN /\ mutex' = t
               /\ sock' = [sock EXCEPT ![t] = "command"]
               /\ Goto(t, IF op[t] = "connect" THEN "await" ELSE "close")
          ELSE /\ Goto(t, "retry")
               /\ UNCHANGED <<mutex, sock>>
    /\ UNCHANGED <<running, op, notified, connVars, lock, staleErrno, sendVars>>

\* The else branch: once the other thread is done there is nothing left to do.
RetryTakes(t) ==
    /\ pc[t] = "retry" /\ mutex = Nobody
    /\ mutex' = t
    /\ Goto(t, "unlock")
    /\ UNCHANGED <<running, op, sock, notified, connVars, lock, staleErrno, sendVars>>

RetryWaits(t) ==
    /\ pc[t] = "retry" /\ mutex # Nobody
    /\ Goto(t, "wait")
    /\ UNCHANGED <<running, op, sock, waitVars, connVars, lock, staleErrno, sendVars>>

\* Mutant: the comparison with no_timeout is inverted.
TimeoutUnlocks(t) ==
    /\ pc[t] = "wait"
    /\ notified' = notified \ {t}
    /\ mutex' = Nobody
    /\ Goto(t, AfterOp(t))
    /\ UNCHANGED <<running, op, sock, connVars, lock, staleErrno, sendVars>>

\* wait_until returns after the deadline, even to a thread that was notified.
WaitTimeout(t) ==
    /\ pc[t] = "wait"
    /\ notified' = notified \ {t}
    /\ Goto(t, "retry")
    /\ UNCHANGED <<running, op, sock, mutex, connVars, lock, staleErrno, sendVars>>

\* wait_until returns no_timeout: the thread unlocks a mutex it does not own
\* (glibc frees it) and returns.
WaitNoTimeout(t) ==
    /\ pc[t] = "wait" /\ (SpuriousWakeups \/ t \in notified)
    /\ notified' = notified \ {t}
    /\ mutex' = Nobody
    /\ Goto(t, AfterOp(t))
    /\ UNCHANGED <<running, op, sock, connVars, lock, staleErrno, sendVars>>

Unlock(t) ==
    /\ pc[t] = "unlock"
    /\ mutex' = Nobody
    /\ Goto(t, AfterOp(t))
    /\ UNCHANGED <<running, op, sock, notified, connVars, lock, staleErrno, sendVars>>

\* _ensure_disconnect treats the command socket, then the camera's.
AfterClose(t) ==
    /\ Goto(t, IF sock[t] = "command" THEN "close" ELSE "sleep")
    /\ sock' = [sock EXCEPT ![t] = "camera"]

SkipClose(t) ==
    /\ pc[t] = "close" /\ ~connected[sock[t]]
    /\ AfterClose(t)
    /\ UNCHANGED <<running, op, waitVars, connVars, lock, staleErrno, sendVars>>

\* Socket::disconnect, which does not take Socket::_lock: first the flag ...
CloseFlag(t) ==
    /\ pc[t] = "close" /\ connected[sock[t]]
    /\ connected' = [connected EXCEPT ![sock[t]] = FALSE]
    /\ Goto(t, "shut")
    /\ UNCHANGED <<running, op, sock, waitVars, fd, link, mode, nonblock,
                   lock, staleErrno, sendVars>>

\* ... then shutdown, close and force_close, which sets _fd = -1 and clears the
\* flag again: another thread may have connected in between. shutdown of a
\* connection that was reset overwrites errno.
CloseFd(t) ==
    /\ pc[t] = "shut"
    /\ connected' = [connected EXCEPT ![sock[t]] = FALSE]
    /\ fd' = [fd EXCEPT ![sock[t]] = "none"]
    /\ link' = [link EXCEPT ![sock[t]] = "down"]
    /\ staleErrno' \in IF t = "read" /\ link[sock[t]] = "down"
                          THEN {staleErrno, FALSE} ELSE {staleErrno}
    /\ AfterClose(t)
    /\ UNCHANGED <<running, op, waitVars, mode, nonblock, lock, sendVars>>

Sleep(t) ==
    /\ pc[t] = "sleep"
    /\ sock' = [sock EXCEPT ![t] = "command"]
    /\ Goto(t, IF op[t] = "reconnect" THEN "await" ELSE "unlock")
    /\ UNCHANGED <<running, op, waitVars, connVars, lock, staleErrno, sendVars>>

----------------------------------------------------------------------------
(* _await_connect and Socket::connect.                                     *)

\* _await_connect returns: the camera socket comes after the command socket.
AwaitReturns(t) ==
    IF sock[t] = "command" /\ CameraEnabled
       THEN /\ Goto(t, "await")
            /\ sock' = [sock EXCEPT ![t] = "camera"]
       ELSE /\ Goto(t, "unlock")
            /\ UNCHANGED sock

\* Mutant: _running is not tested.
AwaitForConnection(t) ==
    /\ pc[t] = "await" /\ connected[sock[t]]
    /\ AwaitReturns(t)
    /\ UNCHANGED <<running, op, waitVars, connVars, lock, staleErrno, sendVars>>

AwaitDone(t) ==
    /\ pc[t] = "await" /\ (~running \/ connected[sock[t]])
    /\ AwaitReturns(t)
    /\ UNCHANGED <<running, op, waitVars, connVars, lock, staleErrno, sendVars>>

\* connect() starts by forgetting the old descriptor.
Dial(t) ==
    /\ pc[t] = "await" /\ running /\ ~connected[sock[t]]
    /\ fd' = [fd EXCEPT ![sock[t]] = "none"]
    /\ Goto(t, "dialing")
    /\ UNCHANGED <<running, op, sock, waitVars, connected, link, mode, nonblock,
                   lock, staleErrno, sendVars>>

\* The robot accepts. errno may or may not survive the calls connect() makes.
DialOk(t) ==
    /\ pc[t] = "dialing"
    /\ fd' = [fd EXCEPT ![sock[t]] = "open"]
    /\ link' = [link EXCEPT ![sock[t]] = "up"]
    /\ mode' = [mode EXCEPT ![sock[t]] = FALSE]
    /\ connected' = [connected EXCEPT ![sock[t]] = TRUE]
    /\ staleErrno' \in IF t = "read" THEN {staleErrno, FALSE} ELSE {staleErrno}
    /\ Goto(t, "options")
    /\ UNCHANGED <<running, op, sock, waitVars, nonblock, lock, sendVars>>

\* The last lines of connect(): F_GETFL of the descriptor (fcntl's -1 has
\* every flag set), then back to the loop of _await_connect.
ReadOptions(t) ==
    /\ pc[t] = "options"
    /\ nonblock' = [nonblock EXCEPT ![sock[t]] =
                        fd[sock[t]] = "none" \/ mode[sock[t]]]
    /\ Goto(t, "await")
    /\ UNCHANGED <<running, op, sock, waitVars, connected, fd, link, mode,
                   lock, staleErrno, sendVars>>

DialFails(t) ==
    /\ pc[t] = "dialing"
    /\ staleErrno' = (staleErrno /\ t # "read")
    /\ Goto(t, "dialwait")
    /\ UNCHANGED <<running, op, sock, waitVars, connVars, lock, sendVars>>

DialWaitTimeout(t) ==
    /\ pc[t] = "dialwait"
    /\ notified' = notified \ {t}
    /\ Goto(t, "await")
    /\ UNCHANGED <<running, op, sock, mutex, connVars, lock, staleErrno, sendVars>>

DialWaitNoTimeout(t) ==
    /\ pc[t] = "dialwait" /\ (SpuriousWakeups \/ t \in notified)
    /\ notified' = notified \ {t}
    /\ AwaitReturns(t)
    /\ UNCHANGED <<running, op, mutex, connVars, lock, staleErrno, sendVars>>

----------------------------------------------------------------------------
(* The loops of _read and _write.                                          *)

Loop(t) ==
    /\ t \in Workers /\ pc[t] = "loop"
    /\ IF ~running
          THEN Goto(t, "exit") /\ UNCHANGED sock
          ELSE /\ Goto(t, IF t = "read" THEN "lock" ELSE "queue")
               /\ sock' = [sock EXCEPT ![t] = "command"]
    /\ UNCHANGED <<running, op, waitVars, connVars, lock, staleErrno, sendVars>>

\* sleep_for the interval, then test the connection.
Nap(t) ==
    /\ pc[t] = "nap"
    /\ IF IsConnected
          THEN Goto(t, "loop") /\ UNCHANGED op
          ELSE /\ Goto(t, "enter")
               /\ op' = [op EXCEPT ![t] = "reconnect"]
    /\ UNCHANGED <<running, sock, waitVars, connVars, lock, staleErrno, sendVars>>

\* The writer takes the next packet ...
Pop ==
    /\ pc["write"] = "queue" /\ queue # <<>>
    /\ packet' = <<Head(queue)>>
    /\ queue' = Tail(queue)
    /\ Goto("write", "lock")
    /\ UNCHANGED <<running, op, sock, waitVars, connVars, lock, staleErrno, sent, pushed>>

\* ... or, when there is none left, turns to the camera's watchdog.
QueueEmpty ==
    /\ pc["write"] = "queue" /\ queue = <<>>
    /\ IF CameraEnabled
          THEN /\ Goto("write", "lock")
               /\ sock' = [sock EXCEPT !["write"] = "camera"]
          ELSE Goto("write", "nap") /\ UNCHANGED sock
    /\ UNCHANGED <<running, op, waitVars, connVars, lock, staleErrno, sendVars>>

----------------------------------------------------------------------------
(* Socket::read and Socket::write.                                         *)

Release(t) == lock' = [lock EXCEPT ![sock[t]] = Nobody]

\* Mutant: the packet is queued again after a failed write.
RequeuePacket(t) ==
    /\ packet' = IF t = "write" THEN <<>> ELSE packet
    /\ queue' = IF t = "write" THEN queue \o packet ELSE queue
    /\ UNCHANGED <<sent, pushed>>

\* An exception leaves Socket::write: the packet that was popped is gone.
DropPacket(t) ==
    /\ packet' = IF t = "write" THEN <<>> ELSE packet
    /\ UNCHANGED <<queue, sent, pushed>>

\* SocketPeerResetError is caught: _disconnect().
PeerReset(t) ==
    /\ Release(t)
    /\ DropPacket(t)
    /\ op' = [op EXCEPT ![t] = "disconnect"]
    /\ Goto(t, "enter")
    /\ UNCHANGED <<running, sock, waitVars, connVars>>

\* Mutant: the error path keeps Socket::_lock.
KeepLock(t) ==
    /\ DropPacket(t)
    /\ Goto(t, "nap")
    /\ UNCHANGED <<running, op, sock, waitVars, connVars, lock>>

\* SocketReadError or SocketWriteError is caught and reported.
ReportError(t) ==
    /\ Release(t)
    /\ DropPacket(t)
    /\ Goto(t, "nap")
    /\ UNCHANGED <<running, op, sock, waitVars, connVars>>

\* SocketOperationalError is not caught: it reaches the noexcept of _read or
\* _write and the process is terminated.
Terminate ==
    /\ pc' = [t \in Threads |-> "dead"]
    /\ lock' = [s \in Socks |-> Nobody]
    /\ mutex' = Nobody
    /\ UNCHANGED <<running, op, sock, notified, connVars, staleErrno, sendVars>>

\* Mutant: _nonblock_option is not tested before the first recv or the send.
AcquireUnchecked(t) ==
    /\ pc[t] = "lock" /\ lock[sock[t]] = Nobody /\ connected[sock[t]]
    /\ lock' = [lock EXCEPT ![sock[t]] = t]
    /\ Goto(t, IF t = "read" THEN "recv" ELSE "send")
    /\ UNCHANGED <<running, op, sock, waitVars, connVars, staleErrno, sendVars>>

Acquire(t) ==
    /\ pc[t] = "lock" /\ lock[sock[t]] = Nobody /\ connected[sock[t]]
    /\ lock' = [lock EXCEPT ![sock[t]] = t]
    /\ Goto(t, CASE nonblock[sock[t]]                    -> "clear"
                 [] ~nonblock[sock[t]] /\ t = "read"     -> "recv"
                 [] ~nonblock[sock[t]] /\ t # "read"     -> "send")
    /\ UNCHANGED <<running, op, sock, waitVars, connVars, staleErrno, sendVars>>

\* "Not connected" is thrown under the lock, which is released at once.
AcquireFails(t) ==
    /\ pc[t] = "lock" /\ lock[sock[t]] = Nobody /\ ~connected[sock[t]]
    /\ ReportError(t)
    /\ UNCHANGED staleErrno

\* _nonblock(enable) on a descriptor that is there ...
SetMode(t, from, enable, to) ==
    /\ pc[t] = from /\ fd[sock[t]] = "open"
    /\ mode' = [mode EXCEPT ![sock[t]] = enable]
    /\ nonblock' = [nonblock EXCEPT ![sock[t]] = enable]
    /\ Goto(t, to)
    /\ UNCHANGED <<running, op, sock, waitVars, connected, fd, link,
                   lock, staleErrno, sendVars>>

\* ... and on one that disconnect() has closed meanwhile.
SetModeFails(t) ==
    /\ pc[t] \in {"clear", "setnonblock", "restore"} /\ fd[sock[t]] = "none"
    /\ Terminate

Clear(t) == SetMode(t, "clear", FALSE, IF t = "read" THEN "recv" ELSE "send")
SetNonblock == SetMode("read", "setnonblock", TRUE, "drain")

\* The first recv, which blocks. errno is looked at even when data came.
Recv ==
    /\ pc["read"] = "recv"
    /\ fd[sock["read"]] = "open" /\ link[sock["read"]] = "up"
    /\ IF staleErrno
          THEN PeerReset("read")
          ELSE /\ Goto("read", "setnonblock")
               /\ UNCHANGED <<running, op, sock, waitVars, connVars, lock, sendVars>>
    /\ UNCHANGED staleErrno

\* The stream ended (recv returns 0), was reset (ECONNRESET), or was closed by
\* disconnect() before the call (EBADF) or during it (0).
RecvReset ==
    /\ pc["read"] \in {"recv", "drain"}
    /\ fd[sock["read"]] = "none" \/ link[sock["read"]] = "down"
    /\ staleErrno' \in {staleErrno, TRUE}
    /\ PeerReset("read")

\* Any other error of a dead connection, in the first recv.
RecvError ==
    /\ pc["read"] = "recv"
    /\ fd[sock["read"]] = "open" /\ link[sock["read"]] = "down"
    /\ staleErrno' = FALSE
    /\ ReportError("read")

\* The drain ends with EAGAIN, or with an error that breaks the loop.
DrainEnds ==
    /\ pc["read"] = "drain" /\ fd[sock["read"]] = "open"
    /\ staleErrno' = FALSE
    /\ Goto("read", "restore")
    /\ UNCHANGED <<running, op, sock, waitVars, connVars, lock, sendVars>>

\* read() ends in blocking mode and returns; the reader turns to the camera
\* when it has just read the command socket.
Restore ==
    /\ pc["read"] = "restore" /\ fd[sock["read"]] = "open"
    /\ mode' = [mode EXCEPT ![sock["read"]] = FALSE]
    /\ nonblock' = [nonblock EXCEPT ![sock["read"]] = FALSE]
    /\ Release("read")
    /\ IF sock["read"] = "command" /\ CameraEnabled
          THEN /\ Goto("read", "lock")
               /\ sock' = [sock EXCEPT !["read"] = "camera"]
          ELSE Goto("read", "nap") /\ UNCHANGED sock
    /\ UNCHANGED <<running, op, waitVars, connected, fd, link, staleErrno, sendVars>>

\* send hands the bytes to the kernel; on a connection the robot has ended
\* they go nowhere.
Send ==
    /\ pc["write"] = "send" /\ fd[sock["write"]] = "open"
    /\ sent' = IF link[sock["write"]] = "up" THEN sent \o packet ELSE sent
    /\ packet' = <<>>
    /\ Release("write")
    /\ Goto("write", IF sock["write"] = "command" THEN "queue" ELSE "nap")
    /\ UNCHANGED <<running, op, sock, waitVars, connVars, staleErrno, queue, pushed>>

SendReset ==
    /\ pc["write"] = "send"
    /\ fd[sock["write"]] = "none" \/ link[sock["write"]] = "down"
    /\ PeerReset("write")
    /\ UNCHANGED staleErrno

\* EAGAIN of a descriptor left in non-blocking mode, or another send error.
SendError ==
    /\ pc["write"] = "send" /\ fd[sock["write"]] = "open"
    /\ mode[sock["write"]] \/ link[sock["write"]] = "down"
    /\ ReportError("write")
    /\ UNCHANGED staleErrno

----------------------------------------------------------------------------
(* The environment: the units queue packets, the robot ends connections.   *)

Enqueue ==
    /\ Alive /\ pc["main"] # "idle" /\ pushed < MaxPackets
    /\ pushed' = pushed + 1
    /\ queue' = Append(queue, pushed + 1)
    /\ UNCHANGED <<threadVars, waitVars, connVars, lock, staleErrno, packet, sent>>

PeerCloses(s) ==
    /\ Alive /\ fd[s] = "open" /\ link[s] = "up"
    /\ link' = [link EXCEPT ![s] = "down"]
    /\ UNCHANGED <<threadVars, waitVars, connected, fd, mode, nonblock,
                   lock, staleErrno, sendVars>>

Terminated ==
    /\ pc["main"] \in {"done", "dead"}
    /\ UNCHANGED vars

Manage(t) ==
    \/ TryLock(t) \/ RetryTakes(t) \/ RetryWaits(t)
    \/ WaitTimeout(t) \/ WaitNoTimeout(t) \/ Unlock(t)
    \/ SkipClose(t) \/ CloseFlag(t) \/ CloseFd(t) \/ Sleep(t)
    \/ AwaitDone(t) \/ Dial(t) \/ DialOk(t) \/ ReadOptions(t) \/ DialFails(t)
    \/ DialWaitTimeout(t) \/ DialWaitNoTimeout(t)

Work(t) ==
    Loop(t) \/ Nap(t) \/ Acquire(t) \/ AcquireFails(t) \/ Clear(t) \/ SetModeFails(t)

Read  == SetNonblock \/ Recv \/ RecvReset \/ RecvError \/ DrainEnds \/ Restore
Write == Pop \/ QueueEmpty \/ Send \/ SendReset \/ SendError

Next ==
    \/ Start \/ Stop \/ NotifyAll \/ Join
    \/ \E t \in Threads : Manage(t)
    \/ \E t \in Workers : Work(t)
    \/ Read \/ Write
    \/ Enqueue \/ \E s \in Socks : PeerCloses(s)
    \/ Terminated

Spec == Init /\ [][Next]_vars

----------------------------------------------------------------------------
TypeOK ==
    /\ running \in BOOLEAN
    /\ pc \in [Threads -> Labels]
    /\ op \in [Threads -> {"connect", "disconnect", "reconnect"}]
    /\ sock \in [Threads -> Socks]
    /\ mutex \in Threads \cup {Nobody}
    /\ notified \subseteq Workers
    /\ connected \in [Socks -> BOOLEAN]
    /\ fd \in [Socks -> {"open", "none"}]
    /\ link \in [Socks -> {"up", "down"}]
    /\ mode \in [Socks -> BOOLEAN]
    /\ nonblock \in [Socks -> BOOLEAN]
    /\ lock \in [Socks -> Threads \cup {Nobody}]
    /\ staleErrno \in BOOLEAN
    /\ queue \in Seq(Nat) /\ packet \in Seq(Nat) /\ sent \in Seq(Nat)
    /\ pushed \in Nat

Managing(t) == pc[t] \in ManagerLabels

(* While the gateway runs, _connect_mutex does its work: whoever opens or  *)
(* closes sockets owns it, so no two threads do so at once, in spite of    *)
(* the unlock() calls of threads that do not own it (Gateway.cpp:117, 137, *)
(* 161). This takes a condition variable without spurious wakeups.         *)
SoleManager == running => \A t \in Threads : Managing(t) <=> mutex = t

(* While the gateway runs, _connected and _fd go together: a socket that   *)
(* is said to be connected has a descriptor, and one that is not has none, *)
(* but for the moment disconnect() takes, so connect() loses none.         *)
DescriptorMatchesFlag ==
    running /\ Alive =>
        \A s \in Socks :
            fd[s] = "open" <=>
                connected[s] \/ \E t \in Threads : pc[t] = "shut" /\ sock[t] = s

(* Socket::_lock is held by exactly the thread that is inside read() or    *)
(* write(): every way out of them, exceptions included, releases it.       *)
LockHeldInIO ==
    \A s \in Socks, t \in Threads :
        lock[s] = t <=> pc[t] \in IOLabels /\ sock[t] = s

(* When stop() has returned no socket is connected, whatever the threads   *)
(* were doing when it was called.                                          *)
ClosedAfterStop == pc["main"] = "done" => \A s \in Socks : ~connected[s]

(* The first recv of read() and the send of write() are made on a blocking *)
(* descriptor ("just recv(2) in blocking-mode", Socket.cpp:112), though    *)
(* read() leaves the flag set when the drain meets the end of the stream   *)
(* and connect() refreshes the program's copy of it late.                  *)
BlockingIO ==
    \A t \in Workers : pc[t] \in {"recv", "send"} => ~mode[sock[t]]

(* Packets reach the robot in the order in which the units queued them,    *)
(* each at most once: the writer implements PacketChannel.                 *)
Channel == INSTANCE PacketChannel WITH pending <- packet \o queue
ChannelSpec == Channel!Spec

(* An exception of a thread ends in the handler of the thread wrapper,     *)
(* which reports it and stops the gateway (Gateway.hpp:43-46); it never    *)
(* ends the process.                                                       *)
ThreadFailureIsHandled == Alive

----------------------------------------------------------------------------
(* Fairness. A thread that can take a step by itself takes one. The sockets *)
(* have no timeout, so a recv, or the send of a full buffer, on a           *)
(* connection that is up is the robot's to end: no fairness is assumed of   *)
(* it, and a silent robot may hold a worker there for ever.                 *)
AwaitsRobot(t) ==
    pc[t] \in {"recv", "send"} /\ fd[sock[t]] = "open" /\ link[sock[t]] = "up"

FairSpec ==
    /\ Spec
    /\ \A t \in Threads : WF_vars(Manage(t))
    /\ \A t \in Workers : WF_vars(Work(t))
    /\ WF_vars(Read /\ ~AwaitsRobot("read"))
    /\ WF_vars(Write /\ ~AwaitsRobot("write"))
    /\ WF_vars(NotifyAll) /\ WF_vars(Join)

(* The robot's part: it talks, takes what it is sent or hangs up, so that   *)
(* no call waits for it for ever.                                           *)
RobotServes == \A t \in Workers : []<>~AwaitsRobot(t)

(* The reader sleeps _read_interval outside the socket locks, so the       *)
(* writer gets them, and the robot does not refuse connections for ever.   *)
LiveSpec ==
    /\ FairSpec
    /\ SF_vars(Acquire("write") \/ AcquireFails("write"))
    /\ SF_vars(DialOk("write"))

(* The robot is all that can keep stop() from returning: if it leaves no    *)
(* worker in a recv or a send for ever, stop() returns, even when a worker  *)
(* is dialing, polling the mutex or between two sockets. Without that it    *)
(* need not: stop() notifies and joins, and touches no socket before.       *)
StopReturns ==
    RobotServes =>
        ((Alive /\ ~running /\ pc["main"] # "idle") ~> (pc["main"] = "done" \/ ~Alive))

(* While the gateway runs a queued packet is written or dropped in the     *)
(* end: no error path keeps a lock, and a lost connection is made again.    *)
(* Two things are excepted, each of which may hold the writer for ever: a   *)
(* call only the robot can end, and _connect_mutex, which it only polls.    *)
QueueDrains ==
    RobotServes /\ []<>(pc["write"] \notin {"retry", "wait"}) =>
        ((running /\ packet \o queue # <<>>) ~>
            (packet \o queue = <<>> \/ ~running \/ ~Alive))
==================================================================================
