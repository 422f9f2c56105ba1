------------------------------- MODULE GatewayProofs -------------------------------
(***************************************************************************)
(* What holds of Gateway for every value of its constants. The invariants  *)
(* are proved in the order of GatewayInv, each from those before it.       *)
(***************************************************************************)
EXTENDS GatewayInv, TLAPS

(* Every action keeps the variables in their types. *)
LEMMA TypeStep ==
    ASSUME TypeOK, [Next]_vars
    PROVE  TypeOK'
<1> USE DEF TypeOK, Threads, Workers, Socks, Nobody, Labels, IOLabels, ManagerLabels
<1>1. CASE Start
  BY <1>1 DEF Start, vars, threadVars, waitVars, connVars, sendVars
<1>2. CASE Stop
  BY <1>2 DEF Stop, Goto, vars, threadVars, waitVars, connVars, sendVars
<1>3. CASE NotifyAll
  BY <1>3 DEF NotifyAll, Goto, vars, threadVars, waitVars, connVars, sendVars
<1>4. CASE Join
  BY <1>4 DEF Join, Goto, vars, threadVars, waitVars, connVars, sendVars
<1>5. ASSUME NEW t \in Threads, Manage(t) PROVE TypeOK'
  <2>1. CASE TryLock(t)
    BY <2>1 DEF TryLock, Goto, vars, threadVars, waitVars, connVars, sendVars
  <2>2. CASE RetryTakes(t)
    BY <2>2 DEF RetryTakes, Goto, vars, threadVars, waitVars, connVars, sendVars
  <2>3. CASE RetryWaits(t)
    BY <2>3 DEF RetryWaits, Goto, vars, threadVars, waitVars, connVars, sendVars
  <2>4. CASE WaitTimeout(t)
    BY <2>4 DEF WaitTimeout, Goto, vars, threadVars, waitVars, connVars, sendVars
  <2>5. CASE WaitNoTimeout(t)
    BY <2>5 DEF WaitNoTimeout, Goto, AfterOp, vars, threadVars, waitVars, connVars, sendVars
  <2>6. CASE Unlock(t)
    BY <2>6 DEF Unlock, Goto, AfterOp, vars, threadVars, waitVars, connVars, sendVars
  <2>7. CASE SkipClose(t)
    BY <2>7 DEF SkipClose, AfterClose, Goto, vars, threadVars, waitVars, connVars, sendVars
  <2>8. CASE CloseFlag(t)
    BY <2>8 DEF CloseFlag, Goto, vars, threadVars, waitVars, connVars, sendVars
  <2>9. CASE CloseFd(t)
    BY <2>9 DEF CloseFd, AfterClose, Goto, vars, threadVars, waitVars, connVars, sendVars
  <2>10. CASE Sleep(t)
    BY <2>10 DEF Sleep, Goto, vars, threadVars, waitVars, connVars, sendVars
  <2>11. CASE AwaitDone(t)
    BY <2>11 DEF AwaitDone, AwaitReturns, Goto, vars, threadVars, waitVars, connVars, sendVars
  <2>12. CASE Dial(t)
    BY <2>12 DEF Dial, Goto, vars, threadVars, waitVars, connVars, sendVars
  <2>13. CASE DialOk(t)
    BY <2>13 DEF DialOk, Goto, vars, threadVars, waitVars, connVars, sendVars
  <2>14. CASE ReadOptions(t)
    BY <2>14 DEF ReadOptions, Goto, vars, threadVars, waitVars, connVars, sendVars
  <2>15. CASE DialFails(t)
    BY <2>15 DEF DialFails, Goto, vars, threadVars, waitVars, connVars, sendVars
  <2>16. CASE DialWaitTimeout(t)
    BY <2>16 DEF DialWaitTimeout, Goto, vars, threadVars, waitVars, connVars, sendVars
  <2>17. CASE DialWaitNoTimeout(t)
BY <2>17 DEF DialWaitNoTimeout, AwaitReturns, Goto, vars, threadVars, waitVars, connVars,
        sendVars
<2> QED BY <1>5, <2>1, <2>2, <2>3, <2>4, <2>5, <2>6, <2>7, <2>8, <2>9, <2>10, <2>11, <2>12,
        <2>13, <2>14, <2>15, <2>16, <2>17 DEF Manage
<1>6. ASSUME NEW t \in Workers, Work(t) PROVE TypeOK'
  <2>1. CASE Loop(t)
    BY <2>1 DEF Loop, Goto, vars, threadVars, waitVars, connVars, sendVars
  <2>2. CASE Nap(t)
    BY <2>2 DEF Nap, Goto, IsConnected, vars, threadVars, waitVars, connVars, sendVars
  <2>3. CASE Acquire(t)
    BY <2>3 DEF Acquire, Goto, vars, threadVars, waitVars, connVars, sendVars
  <2>4. CASE AcquireFails(t)
BY <2>4 DEF AcquireFails, ReportError, Release, DropPacket, Goto, vars, threadVars,
        waitVars, connVars, sendVars
  <2>5. CASE Clear(t)
    BY <2>5 DEF Clear, SetMode, Goto, vars, threadVars, waitVars, connVars, sendVars
  <2>6. CASE SetModeFails(t)
    BY <2>6 DEF SetModeFails, Terminate, vars, threadVars, waitVars, connVars, sendVars
  <2> QED BY <1>6, <2>1, <2>2, <2>3, <2>4, <2>5, <2>6 DEF Work
<1>7. CASE SetNonblock
  BY <1>7 DEF SetNonblock, SetMode, Goto, vars, threadVars, waitVars, connVars, sendVars
<1>8. CASE Recv
  <2>1. CASE staleErrno
    <3>1. pc["read"] = "recv" /\ PeerReset("read") /\ UNCHANGED staleErrno
      BY <1>8, <2>1 DEF Recv
    <3> QED BY <3>1 DEF PeerReset, Release, DropPacket, vars, threadVars, waitVars, connVars, sendVars, Goto
  <2>2. CASE ~staleErrno
    <3>1. /\ pc["read"] = "recv" /\ fd[sock["read"]] = "open" /\ link[sock["read"]] = "up"
          /\ Goto("read", "setnonblock")
          /\ UNCHANGED <<running, op, sock, waitVars, connVars, lock, sendVars>>
          /\ UNCHANGED staleErrno
      BY <1>8, <2>2 DEF Recv
    <3> QED BY <3>1 DEF vars, threadVars, waitVars, connVars, sendVars, Goto
  <2> QED BY <2>1, <2>2
<1>9. CASE RecvReset
BY <1>9 DEF RecvReset, PeerReset, Release, DropPacket, Goto, vars, threadVars, waitVars,
      connVars, sendVars
<1>10. CASE RecvError
BY <1>10 DEF RecvError, ReportError, Release, DropPacket, Goto, vars, threadVars, waitVars,
      connVars, sendVars
<1>11. CASE DrainEnds
  BY <1>11 DEF DrainEnds, Goto, vars, threadVars, waitVars, connVars, sendVars
<1>12. CASE Restore
  BY <1>12 DEF Restore, Release, Goto, vars, threadVars, waitVars, connVars, sendVars
<1>13. CASE Pop
  BY <1>13 DEF Pop, Goto, vars, threadVars, waitVars, connVars, sendVars
<1>14. CASE QueueEmpty
  BY <1>14 DEF QueueEmpty, Goto, vars, threadVars, waitVars, connVars, sendVars
<1>15. CASE Send
  BY <1>15 DEF Send, Release, Goto, vars, threadVars, waitVars, connVars, sendVars
<1>16. CASE SendReset
BY <1>16 DEF SendReset, PeerReset, Release, DropPacket, Goto, vars, threadVars, waitVars,
      connVars, sendVars
<1>17. CASE SendError
BY <1>17 DEF SendError, ReportError, Release, DropPacket, Goto, vars, threadVars, waitVars,
      connVars, sendVars
<1>18. CASE Enqueue
  BY <1>18 DEF Enqueue, vars, threadVars, waitVars, connVars, sendVars
<1>19. ASSUME NEW s \in Socks, PeerCloses(s) PROVE TypeOK'
  BY <1>19 DEF PeerCloses, vars, threadVars, waitVars, connVars, sendVars
<1>20. CASE Terminated
  BY <1>20 DEF Terminated, vars, threadVars, waitVars, connVars, sendVars
<1>21. CASE UNCHANGED vars
  BY <1>21 DEF vars, threadVars, waitVars, connVars, sendVars
<1> QED BY <1>1, <1>2, <1>3, <1>4, <1>5, <1>6, <1>7, <1>8, <1>9, <1>10, <1>11, <1>12, <1>13,
      <1>14, <1>15, <1>16, <1>17, <1>18, <1>19, <1>20, <1>21 DEF Next, Read, Write

(* Every variable of Gateway has its type: no thread leaves the labels of  *)
(* its code, and _connect_mutex and Socket::_lock are owned by threads.    *)
THEOREM TypeCorrect == Spec => []TypeOK
<1>1. Init => TypeOK
  <2> SUFFICES ASSUME Init PROVE TypeOK
    OBVIOUS
  <2>1. <<>> \in Seq(Nat)
    OBVIOUS
  <2> QED BY <2>1 DEF Init, TypeOK, Threads, Workers, Socks, Nobody, Labels
<1> QED BY <1>1, TypeStep, PTL DEF Spec

(* No thread runs the code of another.                                     *)
LEMMA PlaceStep ==
    ASSUME TypeOK, ThreadsInPlace, [Next]_vars
    PROVE  ThreadsInPlace'
<1> USE DEF TypeOK, Threads, Workers, Socks, Nobody, IOLabels, ManagerLabels, ThreadsInPlace, OpLabels, MainLabels, ReaderLabels, WriterLabels
<1>1. CASE Start
  BY <1>1 DEF Start, vars, threadVars, waitVars, connVars, sendVars
<1>2. CASE Stop
  BY <1>2 DEF Stop, Goto, vars, threadVars, waitVars, connVars, sendVars
<1>3. CASE NotifyAll
  BY <1>3 DEF NotifyAll, Goto, vars, threadVars, waitVars, connVars, sendVars
<1>4. CASE Join
  BY <1>4 DEF Join, Goto, vars, threadVars, waitVars, connVars, sendVars
<1>5. ASSUME NEW t \in Threads, Manage(t) PROVE ThreadsInPlace'
  <2>1. CASE TryLock(t)
    BY <2>1 DEF TryLock, Goto, vars, threadVars, waitVars, connVars, sendVars
  <2>2. CASE RetryTakes(t)
    BY <2>2 DEF RetryTakes, Goto, vars, threadVars, waitVars, connVars, sendVars
  <2>3. CASE RetryWaits(t)
    BY <2>3 DEF RetryWaits, Goto, vars, threadVars, waitVars, connVars, sendVars
  <2>4. CASE WaitTimeout(t)
    BY <2>4 DEF WaitTimeout, Goto, vars, threadVars, waitVars, connVars, sendVars
  <2>5. CASE WaitNoTimeout(t)
    BY <2>5 DEF WaitNoTimeout, Goto, AfterOp, vars, threadVars, waitVars, connVars, sendVars
  <2>6. CASE Unlock(t)
    BY <2>6 DEF Unlock, Goto, AfterOp, vars, threadVars, waitVars, connVars, sendVars
  <2>7. CASE SkipClose(t)
    BY <2>7 DEF SkipClose, AfterClose, Goto, vars, threadVars, waitVars, connVars, sendVars
  <2>8. CASE CloseFlag(t)
    BY <2>8 DEF CloseFlag, Goto, vars, threadVars, waitVars, connVars, sendVars
  <2>9. CASE CloseFd(t)
    BY <2>9 DEF CloseFd, AfterClose, Goto, vars, threadVars, waitVars, connVars, sendVars
  <2>10. CASE Sleep(t)
    BY <2>10 DEF Sleep, Goto, vars, threadVars, waitVars, connVars, sendVars
  <2>11. CASE AwaitDone(t)
    BY <2>11 DEF AwaitDone, AwaitReturns, Goto, vars, threadVars, waitVars, connVars, sendVars
  <2>12. CASE Dial(t)
    BY <2>12 DEF Dial, Goto, vars, threadVars, waitVars, connVars, sendVars
  <2>13. CASE DialOk(t)
    BY <2>13 DEF DialOk, Goto, vars, threadVars, waitVars, connVars, sendVars
  <2>14. CASE ReadOptions(t)
    BY <2>14 DEF ReadOptions, Goto, vars, threadVars, waitVars, connVars, sendVars
  <2>15. CASE DialFails(t)
    BY <2>15 DEF DialFails, Goto, vars, threadVars, waitVars, connVars, sendVars
  <2>16. CASE DialWaitTimeout(t)
    BY <2>16 DEF DialWaitTimeout, Goto, vars, threadVars, waitVars, connVars, sendVars
  <2>17. CASE DialWaitNoTimeout(t)
BY <2>17 DEF DialWaitNoTimeout, AwaitReturns, Goto, vars, threadVars, waitVars, connVars,
        sendVars
<2> QED BY <1>5, <2>1, <2>2, <2>3, <2>4, <2>5, <2>6, <2>7, <2>8, <2>9, <2>10, <2>11, <2>12,
        <2>13, <2>14, <2>15, <2>16, <2>17 DEF Manage
<1>6. ASSUME NEW t \in Workers, Work(t) PROVE ThreadsInPlace'
  <2>1. CASE Loop(t)
    BY <2>1 DEF Loop, Goto, vars, threadVars, waitVars, connVars, sendVars
  <2>2. CASE Nap(t)
    BY <2>2 DEF Nap, Goto, IsConnected, vars, threadVars, waitVars, connVars, sendVars
  <2>3. CASE Acquire(t)
    BY <2>3 DEF Acquire, Goto, vars, threadVars, waitVars, connVars, sendVars
  <2>4. CASE AcquireFails(t)
BY <2>4 DEF AcquireFails, ReportError, Release, DropPacket, Goto, vars, threadVars,
        waitVars, connVars, sendVars
  <2>5. CASE Clear(t)
    BY <2>5 DEF Clear, SetMode, Goto, vars, threadVars, waitVars, connVars, sendVars
  <2>6. CASE SetModeFails(t)
    BY <2>6 DEF SetModeFails, Terminate, vars, threadVars, waitVars, connVars, sendVars
  <2> QED BY <1>6, <2>1, <2>2, <2>3, <2>4, <2>5, <2>6 DEF Work
<1>7. CASE SetNonblock
  BY <1>7 DEF SetNonblock, SetMode, Goto, vars, threadVars, waitVars, connVars, sendVars
<1>8. CASE Recv
  <2>1. CASE staleErrno
    <3>1. pc["read"] = "recv" /\ PeerReset("read") /\ UNCHANGED staleErrno
      BY <1>8, <2>1 DEF Recv
    <3> QED BY <3>1 DEF PeerReset, Release, DropPacket, vars, threadVars, waitVars, connVars, sendVars, Goto
  <2>2. CASE ~staleErrno
    <3>1. /\ pc["read"] = "recv" /\ fd[sock["read"]] = "open" /\ link[sock["read"]] = "up"
          /\ Goto("read", "setnonblock")
          /\ UNCHANGED <<running, op, sock, waitVars, connVars, lock, sendVars>>
          /\ UNCHANGED staleErrno
      BY <1>8, <2>2 DEF Recv
    <3> QED BY <3>1 DEF vars, threadVars, waitVars, connVars, sendVars, Goto
  <2> QED BY <2>1, <2>2
<1>9. CASE RecvReset
BY <1>9 DEF RecvReset, PeerReset, Release, DropPacket, Goto, vars, threadVars, waitVars,
      connVars, sendVars
<1>10. CASE RecvError
BY <1>10 DEF RecvError, ReportError, Release, DropPacket, Goto, vars, threadVars, waitVars,
      connVars, sendVars
<1>11. CASE DrainEnds
  BY <1>11 DEF DrainEnds, Goto, vars, threadVars, waitVars, connVars, sendVars
<1>12. CASE Restore
  BY <1>12 DEF Restore, Release, Goto, vars, threadVars, waitVars, connVars, sendVars
<1>13. CASE Pop
  BY <1>13 DEF Pop, Goto, vars, threadVars, waitVars, connVars, sendVars
<1>14. CASE QueueEmpty
  BY <1>14 DEF QueueEmpty, Goto, vars, threadVars, waitVars, connVars, sendVars
<1>15. CASE Send
  BY <1>15 DEF Send, Release, Goto, vars, threadVars, waitVars, connVars, sendVars
<1>16. CASE SendReset
BY <1>16 DEF SendReset, PeerReset, Release, DropPacket, Goto, vars, threadVars, waitVars,
      connVars, sendVars
<1>17. CASE SendError
BY <1>17 DEF SendError, ReportError, Release, DropPacket, Goto, vars, threadVars, waitVars,
      connVars, sendVars
<1>18. CASE Enqueue
  BY <1>18 DEF Enqueue, vars, threadVars, waitVars, connVars, sendVars
<1>19. ASSUME NEW s \in Socks, PeerCloses(s) PROVE ThreadsInPlace'
  BY <1>19 DEF PeerCloses, vars, threadVars, waitVars, connVars, sendVars
<1>20. CASE Terminated
  BY <1>20 DEF Terminated, vars, threadVars, waitVars, connVars, sendVars
<1>21. CASE UNCHANGED vars
  BY <1>21 DEF vars, threadVars, waitVars, connVars, sendVars
<1> QED BY <1>1, <1>2, <1>3, <1>4, <1>5, <1>6, <1>7, <1>8, <1>9, <1>10, <1>11, <1>12, <1>13,
      <1>14, <1>15, <1>16, <1>17, <1>18, <1>19, <1>20, <1>21 DEF Next, Read, Write

LEMMA PlaceInvariant == Spec => []ThreadsInPlace
<1>1. Init => ThreadsInPlace
  BY DEF Init, ThreadsInPlace, Threads, Workers, MainLabels, ReaderLabels, WriterLabels
<1> QED BY <1>1, PlaceStep, TypeCorrect, PTL DEF Spec

(* Every way into read() and write() takes Socket::_lock of that socket, and *)
(* every way out of them, errors included, releases it.                      *)
LEMMA LockStep ==
    ASSUME TypeOK, ThreadsInPlace, LockHeldInIO, [Next]_vars
    PROVE  LockHeldInIO'
<1> USE DEF TypeOK, Threads, Workers, Socks, Nobody, Labels, IOLabels, ManagerLabels, LockHeldInIO, ThreadsInPlace
<1>1. CASE Start
  BY <1>1 DEF Start, vars, threadVars, waitVars, connVars, sendVars
<1>2. CASE Stop
  BY <1>2 DEF Stop, Goto, vars, threadVars, waitVars, connVars, sendVars
<1>3. CASE NotifyAll
  BY <1>3 DEF NotifyAll, Goto, vars, threadVars, waitVars, connVars, sendVars
<1>4. CASE Join
  BY <1>4 DEF Join, Goto, vars, threadVars, waitVars, connVars, sendVars
<1>5. ASSUME NEW t \in Threads, Manage(t) PROVE LockHeldInIO'
  <2>1. CASE TryLock(t)
    BY <2>1 DEF TryLock, Goto, vars, threadVars, waitVars, connVars, sendVars
  <2>2. CASE RetryTakes(t)
    BY <2>2 DEF RetryTakes, Goto, vars, threadVars, waitVars, connVars, sendVars
  <2>3. CASE RetryWaits(t)
    BY <2>3 DEF RetryWaits, Goto, vars, threadVars, waitVars, connVars, sendVars
  <2>4. CASE WaitTimeout(t)
    BY <2>4 DEF WaitTimeout, Goto, vars, threadVars, waitVars, connVars, sendVars
  <2>5. CASE WaitNoTimeout(t)
    BY <2>5 DEF WaitNoTimeout, Goto, AfterOp, vars, threadVars, waitVars, connVars, sendVars
  <2>6. CASE Unlock(t)
    BY <2>6 DEF Unlock, Goto, AfterOp, vars, threadVars, waitVars, connVars, sendVars
  <2>7. CASE SkipClose(t)
    BY <2>7 DEF SkipClose, AfterClose, Goto, vars, threadVars, waitVars, connVars, sendVars
  <2>8. CASE CloseFlag(t)
    BY <2>8 DEF CloseFlag, Goto, vars, threadVars, waitVars, connVars, sendVars
  <2>9. CASE CloseFd(t)
    BY <2>9 DEF CloseFd, AfterClose, Goto, vars, threadVars, waitVars, connVars, sendVars
  <2>10. CASE Sleep(t)
    BY <2>10 DEF Sleep, Goto, vars, threadVars, waitVars, connVars, sendVars
  <2>11. CASE AwaitDone(t)
    BY <2>11 DEF AwaitDone, AwaitReturns, Goto, vars, threadVars, waitVars, connVars, sendVars
  <2>12. CASE Dial(t)
    BY <2>12 DEF Dial, Goto, vars, threadVars, waitVars, connVars, sendVars
  <2>13. CASE DialOk(t)
    BY <2>13 DEF DialOk, Goto, vars, threadVars, waitVars, connVars, sendVars
  <2>14. CASE ReadOptions(t)
    BY <2>14 DEF ReadOptions, Goto, vars, threadVars, waitVars, connVars, sendVars
  <2>15. CASE DialFails(t)
    BY <2>15 DEF DialFails, Goto, vars, threadVars, waitVars, connVars, sendVars
  <2>16. CASE DialWaitTimeout(t)
    BY <2>16 DEF DialWaitTimeout, Goto, vars, threadVars, waitVars, connVars, sendVars
  <2>17. CASE DialWaitNoTimeout(t)
BY <2>17 DEF DialWaitNoTimeout, AwaitReturns, Goto, vars, threadVars, waitVars, connVars,
        sendVars
<2> QED BY <1>5, <2>1, <2>2, <2>3, <2>4, <2>5, <2>6, <2>7, <2>8, <2>9, <2>10, <2>11, <2>12,
        <2>13, <2>14, <2>15, <2>16, <2>17 DEF Manage
<1>6. ASSUME NEW t \in Workers, Work(t) PROVE LockHeldInIO'
  <2>1. CASE Loop(t)
    BY <2>1 DEF Loop, Goto, vars, threadVars, waitVars, connVars, sendVars
  <2>2. CASE Nap(t)
    BY <2>2 DEF Nap, Goto, IsConnected, vars, threadVars, waitVars, connVars, sendVars
  <2>3. CASE Acquire(t)
    BY <2>3 DEF Acquire, Goto, vars, threadVars, waitVars, connVars, sendVars
  <2>4. CASE AcquireFails(t)
BY <2>4 DEF AcquireFails, ReportError, Release, DropPacket, Goto, vars, threadVars,
        waitVars, connVars, sendVars
  <2>5. CASE Clear(t)
    BY <2>5 DEF Clear, SetMode, Goto, vars, threadVars, waitVars, connVars, sendVars
  <2>6. CASE SetModeFails(t)
    BY <2>6 DEF SetModeFails, Terminate, vars, threadVars, waitVars, connVars, sendVars
  <2> QED BY <1>6, <2>1, <2>2, <2>3, <2>4, <2>5, <2>6 DEF Work
<1>7. CASE SetNonblock
  BY <1>7 DEF SetNonblock, SetMode, Goto, vars, threadVars, waitVars, connVars, sendVars
<1>8. CASE Recv
  <2>1. CASE staleErrno
    <3>1. pc["read"] = "recv" /\ PeerReset("read") /\ UNCHANGED staleErrno
      BY <1>8, <2>1 DEF Recv
    <3> QED BY <3>1 DEF PeerReset, Release, DropPacket, vars, threadVars, waitVars, connVars, sendVars, Goto
  <2>2. CASE ~staleErrno
    <3>1. /\ pc["read"] = "recv" /\ fd[sock["read"]] = "open" /\ link[sock["read"]] = "up"
          /\ Goto("read", "setnonblock")
          /\ UNCHANGED <<running, op, sock, waitVars, connVars, lock, sendVars>>
          /\ UNCHANGED staleErrno
      BY <1>8, <2>2 DEF Recv
    <3> QED BY <3>1 DEF vars, threadVars, waitVars, connVars, sendVars, Goto
  <2> QED BY <2>1, <2>2
<1>9. CASE RecvReset
BY <1>9 DEF RecvReset, PeerReset, Release, DropPacket, Goto, vars, threadVars, waitVars,
      connVars, sendVars
<1>10. CASE RecvError
BY <1>10 DEF RecvError, ReportError, Release, DropPacket, Goto, vars, threadVars, waitVars,
      connVars, sendVars
<1>11. CASE DrainEnds
  BY <1>11 DEF DrainEnds, Goto, vars, threadVars, waitVars, connVars, sendVars
<1>12. CASE Restore
  BY <1>12 DEF Restore, Release, Goto, vars, threadVars, waitVars, connVars, sendVars
<1>13. CASE Pop
  BY <1>13 DEF Pop, Goto, vars, threadVars, waitVars, connVars, sendVars
<1>14. CASE QueueEmpty
  BY <1>14 DEF QueueEmpty, Goto, vars, threadVars, waitVars, connVars, sendVars
<1>15. CASE Send
  BY <1>15 DEF Send, Release, Goto, vars, threadVars, waitVars, connVars, sendVars
<1>16. CASE SendReset
BY <1>16 DEF SendReset, PeerReset, Release, DropPacket, Goto, vars, threadVars, waitVars,
      connVars, sendVars
<1>17. CASE SendError
BY <1>17 DEF SendError, ReportError, Release, DropPacket, Goto, vars, threadVars, waitVars,
      connVars, sendVars
<1>18. CASE Enqueue
  BY <1>18 DEF Enqueue, vars, threadVars, waitVars, connVars, sendVars
<1>19. ASSUME NEW s \in Socks, PeerCloses(s) PROVE LockHeldInIO'
  BY <1>19 DEF PeerCloses, vars, threadVars, waitVars, connVars, sendVars
<1>20. CASE Terminated
  BY <1>20 DEF Terminated, vars, threadVars, waitVars, connVars, sendVars
<1>21. CASE UNCHANGED vars
  BY <1>21 DEF vars, threadVars, waitVars, connVars, sendVars
<1> QED BY <1>1, <1>2, <1>3, <1>4, <1>5, <1>6, <1>7, <1>8, <1>9, <1>10, <1>11, <1>12, <1>13,
      <1>14, <1>15, <1>16, <1>17, <1>18, <1>19, <1>20, <1>21 DEF Next, Read, Write

(* Socket::_lock is held by exactly the thread inside read() or write().   *)
THEOREM LockOwnership == Spec => []LockHeldInIO
<1>1. Init => LockHeldInIO
  BY DEF Init, LockHeldInIO, Threads, Workers, Socks, Nobody, IOLabels
<1> QED BY <1>1, LockStep, TypeCorrect, PlaceInvariant, PTL DEF Spec

(* Only the reader makes a descriptor non-blocking, after its first recv and *)
(* under Socket::_lock, and whoever locks next looks at the flag.            *)
LEMMA BlockingStep ==
    ASSUME TypeOK, LockHeldInIO, ThreadsInPlace, BlockingInv, [Next]_vars
    PROVE  BlockingInv'
<1> USE DEF TypeOK, Threads, Workers, Socks, IOLabels, LockHeldInIO, BlockingInv, BlockingIO
<1>1. CASE Start
  BY <1>1 DEF Start, vars, threadVars, waitVars, connVars, sendVars
<1>2. CASE Stop
  BY <1>2 DEF Stop, Goto, vars, threadVars, waitVars, connVars, sendVars
<1>3. CASE NotifyAll
  BY <1>3 DEF NotifyAll, Goto, vars, threadVars, waitVars, connVars, sendVars
<1>4. CASE Join
  BY <1>4 DEF Join, Goto, vars, threadVars, waitVars, connVars, sendVars
<1>5. ASSUME NEW t \in Threads, Manage(t) PROVE BlockingInv'
  <2>1. CASE TryLock(t)
    BY <2>1 DEF TryLock, Goto, vars, threadVars, waitVars, connVars, sendVars
  <2>2. CASE RetryTakes(t)
    BY <2>2 DEF RetryTakes, Goto, vars, threadVars, waitVars, connVars, sendVars
  <2>3. CASE RetryWaits(t)
    BY <2>3 DEF RetryWaits, Goto, vars, threadVars, waitVars, connVars, sendVars
  <2>4. CASE WaitTimeout(t)
    BY <2>4 DEF WaitTimeout, Goto, vars, threadVars, waitVars, connVars, sendVars
  <2>5. CASE WaitNoTimeout(t)
    BY <2>5 DEF WaitNoTimeout, Goto, AfterOp, vars, threadVars, waitVars, connVars, sendVars
  <2>6. CASE Unlock(t)
    BY <2>6 DEF Unlock, Goto, AfterOp, vars, threadVars, waitVars, connVars, sendVars
  <2>7. CASE SkipClose(t)
    BY <2>7 DEF SkipClose, AfterClose, Goto, vars, threadVars, waitVars, connVars, sendVars
  <2>8. CASE CloseFlag(t)
    BY <2>8 DEF CloseFlag, Goto, vars, threadVars, waitVars, connVars, sendVars
  <2>9. CASE CloseFd(t)
    BY <2>9 DEF CloseFd, AfterClose, Goto, vars, threadVars, waitVars, connVars, sendVars
  <2>10. CASE Sleep(t)
    BY <2>10 DEF Sleep, Goto, vars, threadVars, waitVars, connVars, sendVars
  <2>11. CASE AwaitDone(t)
    BY <2>11 DEF AwaitDone, AwaitReturns, Goto, vars, threadVars, waitVars, connVars, sendVars
  <2>12. CASE Dial(t)
    BY <2>12 DEF Dial, Goto, vars, threadVars, waitVars, connVars, sendVars
  <2>13. CASE DialOk(t)
    BY <2>13 DEF DialOk, Goto, vars, threadVars, waitVars, connVars, sendVars
  <2>14. CASE ReadOptions(t)
    BY <2>14 DEF ReadOptions, Goto, vars, threadVars, waitVars, connVars, sendVars
  <2>15. CASE DialFails(t)
    BY <2>15 DEF DialFails, Goto, vars, threadVars, waitVars, connVars, sendVars
  <2>16. CASE DialWaitTimeout(t)
    BY <2>16 DEF DialWaitTimeout, Goto, vars, threadVars, waitVars, connVars, sendVars
  <2>17. CASE DialWaitNoTimeout(t)
BY <2>17 DEF DialWaitNoTimeout, AwaitReturns, Goto, vars, threadVars, waitVars, connVars,
        sendVars
<2> QED BY <1>5, <2>1, <2>2, <2>3, <2>4, <2>5, <2>6, <2>7, <2>8, <2>9, <2>10, <2>11, <2>12,
        <2>13, <2>14, <2>15, <2>16, <2>17 DEF Manage
<1>6. ASSUME NEW t \in Workers, Work(t) PROVE BlockingInv'
  <2>1. CASE Loop(t)
    BY <2>1 DEF Loop, Goto, vars, threadVars, waitVars, connVars, sendVars
  <2>2. CASE Nap(t)
    BY <2>2 DEF Nap, Goto, IsConnected, vars, threadVars, waitVars, connVars, sendVars
  <2>3. CASE Acquire(t)
    BY <2>3 DEF Acquire, Goto, vars, threadVars, waitVars, connVars, sendVars
  <2>4. CASE AcquireFails(t)
BY <2>4 DEF AcquireFails, ReportError, Release, DropPacket, Goto, vars, threadVars,
        waitVars, connVars, sendVars
  <2>5. CASE Clear(t)
    BY <2>5 DEF Clear, SetMode, Goto, vars, threadVars, waitVars, connVars, sendVars
  <2>6. CASE SetModeFails(t)
    BY <2>6 DEF SetModeFails, Terminate, vars, threadVars, waitVars, connVars, sendVars
  <2> QED BY <1>6, <2>1, <2>2, <2>3, <2>4, <2>5, <2>6 DEF Work
<1>7. CASE SetNonblock
  BY <1>7 DEF SetNonblock, SetMode, Goto, vars, threadVars, waitVars, connVars, sendVars
<1>8. CASE Recv
  <2>1. CASE staleErrno
    <3>1. pc["read"] = "recv" /\ PeerReset("read") /\ UNCHANGED staleErrno
      BY <1>8, <2>1 DEF Recv
    <3> QED BY <3>1 DEF PeerReset, Release, DropPacket, vars, threadVars, waitVars, connVars, sendVars, Goto
  <2>2. CASE ~staleErrno
    <3>1. /\ pc["read"] = "recv" /\ fd[sock["read"]] = "open" /\ link[sock["read"]] = "up"
          /\ Goto("read", "setnonblock")
          /\ UNCHANGED <<running, op, sock, waitVars, connVars, lock, sendVars>>
          /\ UNCHANGED staleErrno
      BY <1>8, <2>2 DEF Recv
    <3> QED BY <3>1 DEF vars, threadVars, waitVars, connVars, sendVars, Goto
  <2> QED BY <2>1, <2>2
<1>9. CASE RecvReset
BY <1>9 DEF RecvReset, PeerReset, Release, DropPacket, Goto, vars, threadVars, waitVars,
      connVars, sendVars
<1>10. CASE RecvError
BY <1>10 DEF RecvError, ReportError, Release, DropPacket, Goto, vars, threadVars, waitVars,
      connVars, sendVars
<1>11. CASE DrainEnds
  BY <1>11 DEF DrainEnds, Goto, vars, threadVars, waitVars, connVars, sendVars
<1>12. CASE Restore
  BY <1>12 DEF Restore, Release, Goto, vars, threadVars, waitVars, connVars, sendVars
<1>13. CASE Pop
  BY <1>13 DEF Pop, Goto, vars, threadVars, waitVars, connVars, sendVars
<1>14. CASE QueueEmpty
  BY <1>14 DEF QueueEmpty, Goto, vars, threadVars, waitVars, connVars, sendVars
<1>15. CASE Send
  BY <1>15 DEF Send, Release, Goto, vars, threadVars, waitVars, connVars, sendVars
<1>16. CASE SendReset
BY <1>16 DEF SendReset, PeerReset, Release, DropPacket, Goto, vars, threadVars, waitVars,
      connVars, sendVars
<1>17. CASE SendError
BY <1>17 DEF SendError, ReportError, Release, DropPacket, Goto, vars, threadVars, waitVars,
      connVars, sendVars
<1>18. CASE Enqueue
  BY <1>18 DEF Enqueue, vars, threadVars, waitVars, connVars, sendVars
<1>19. ASSUME NEW s \in Socks, PeerCloses(s) PROVE BlockingInv'
  BY <1>19 DEF PeerCloses, vars, threadVars, waitVars, connVars, sendVars
<1>20. CASE Terminated
  BY <1>20 DEF Terminated, vars, threadVars, waitVars, connVars, sendVars
<1>21. CASE UNCHANGED vars
  BY <1>21 DEF vars, threadVars, waitVars, connVars, sendVars
<1> QED BY <1>1, <1>2, <1>3, <1>4, <1>5, <1>6, <1>7, <1>8, <1>9, <1>10, <1>11, <1>12, <1>13,
      <1>14, <1>15, <1>16, <1>17, <1>18, <1>19, <1>20, <1>21 DEF Next, Read, Write

(* The first recv and the send are made on a blocking descriptor, however  *)
(* connections come and go.                                                *)
THEOREM BlockingIOHolds == Spec => []BlockingIO
<1>1. Init => BlockingInv
  BY DEF Init, BlockingInv, BlockingIO, Threads, Workers, Socks
<1>2. BlockingInv => BlockingIO
  BY DEF BlockingInv
<1> QED BY <1>1, <1>2, BlockingStep, TypeCorrect, LockOwnership, PlaceInvariant, PTL DEF Spec

(* A thread leaves wait_until with no_timeout, and unlocks what it does not *)
(* own, only when stop() has notified it, and then _running is false.       *)
LEMMA ManagerStep ==
    ASSUME ~SpuriousWakeups, TypeOK, ThreadsInPlace, NobodyNotified, SoleManager, [Next]_vars
    PROVE  (NobodyNotified /\ SoleManager)'
<1> USE DEF TypeOK, Threads, Workers, Nobody, ManagerLabels, IOLabels, ThreadsInPlace, NobodyNotified, SoleManager, Managing
<1>1. CASE Start
  BY <1>1 DEF Start, vars, threadVars, waitVars, connVars, sendVars
<1>2. CASE Stop
  BY <1>2 DEF Stop, Goto, vars, threadVars, waitVars, connVars, sendVars
<1>3. CASE NotifyAll
  BY <1>3 DEF NotifyAll, Goto, vars, threadVars, waitVars, connVars, sendVars
<1>4. CASE Join
  BY <1>4 DEF Join, Goto, vars, threadVars, waitVars, connVars, sendVars
<1>5. ASSUME NEW t \in Threads, Manage(t) PROVE (NobodyNotified /\ SoleManager)'
  <2>1. CASE TryLock(t)
    BY <2>1 DEF TryLock, Goto, vars, threadVars, waitVars, connVars, sendVars
  <2>2. CASE RetryTakes(t)
    BY <2>2 DEF RetryTakes, Goto, vars, threadVars, waitVars, connVars, sendVars
  <2>3. CASE RetryWaits(t)
    BY <2>3 DEF RetryWaits, Goto, vars, threadVars, waitVars, connVars, sendVars
  <2>4. CASE WaitTimeout(t)
    BY <2>4 DEF WaitTimeout, Goto, vars, threadVars, waitVars, connVars, sendVars
  <2>5. CASE WaitNoTimeout(t)
    BY <2>5 DEF WaitNoTimeout, Goto, AfterOp, vars, threadVars, waitVars, connVars, sendVars
  <2>6. CASE Unlock(t)
    BY <2>6 DEF Unlock, Goto, AfterOp, vars, threadVars, waitVars, connVars, sendVars
  <2>7. CASE SkipClose(t)
    BY <2>7 DEF SkipClose, AfterClose, Goto, vars, threadVars, waitVars, connVars, sendVars
  <2>8. CASE CloseFlag(t)
    BY <2>8 DEF CloseFlag, Goto, vars, threadVars, waitVars, connVars, sendVars
  <2>9. CASE CloseFd(t)
    BY <2>9 DEF CloseFd, AfterClose, Goto, vars, threadVars, waitVars, connVars, sendVars
  <2>10. CASE Sleep(t)
    BY <2>10 DEF Sleep, Goto, vars, threadVars, waitVars, connVars, sendVars
  <2>11. CASE AwaitDone(t)
    BY <2>11 DEF AwaitDone, AwaitReturns, Goto, vars, threadVars, waitVars, connVars, sendVars
  <2>12. CASE Dial(t)
    BY <2>12 DEF Dial, Goto, vars, threadVars, waitVars, connVars, sendVars
  <2>13. CASE DialOk(t)
    BY <2>13 DEF DialOk, Goto, vars, threadVars, waitVars, connVars, sendVars
  <2>14. CASE ReadOptions(t)
    BY <2>14 DEF ReadOptions, Goto, vars, threadVars, waitVars, connVars, sendVars
  <2>15. CASE DialFails(t)
    BY <2>15 DEF DialFails, Goto, vars, threadVars, waitVars, connVars, sendVars
  <2>16. CASE DialWaitTimeout(t)
    BY <2>16 DEF DialWaitTimeout, Goto, vars, threadVars, waitVars, connVars, sendVars
  <2>17. CASE DialWaitNoTimeout(t)
BY <2>17 DEF DialWaitNoTimeout, AwaitReturns, Goto, vars, threadVars, waitVars, connVars,
        sendVars
<2> QED BY <1>5, <2>1, <2>2, <2>3, <2>4, <2>5, <2>6, <2>7, <2>8, <2>9, <2>10, <2>11, <2>12,
        <2>13, <2>14, <2>15, <2>16, <2>17 DEF Manage
<1>6. ASSUME NEW t \in Workers, Work(t) PROVE (NobodyNotified /\ SoleManager)'
  <2>1. CASE Loop(t)
    BY <2>1 DEF Loop, Goto, vars, threadVars, waitVars, connVars, sendVars
  <2>2. CASE Nap(t)
    BY <2>2 DEF Nap, Goto, IsConnected, vars, threadVars, waitVars, connVars, sendVars
  <2>3. CASE Acquire(t)
    BY <2>3 DEF Acquire, Goto, vars, threadVars, waitVars, connVars, sendVars
  <2>4. CASE AcquireFails(t)
BY <2>4 DEF AcquireFails, ReportError, Release, DropPacket, Goto, vars, threadVars,
        waitVars, connVars, sendVars
  <2>5. CASE Clear(t)
    BY <2>5 DEF Clear, SetMode, Goto, vars, threadVars, waitVars, connVars, sendVars
  <2>6. CASE SetModeFails(t)
    BY <2>6 DEF SetModeFails, Terminate, vars, threadVars, waitVars, connVars, sendVars
  <2> QED BY <1>6, <2>1, <2>2, <2>3, <2>4, <2>5, <2>6 DEF Work
<1>7. CASE SetNonblock
  BY <1>7 DEF SetNonblock, SetMode, Goto, vars, threadVars, waitVars, connVars, sendVars
<1>8. CASE Recv
  <2>1. CASE staleErrno
    <3>1. pc["read"] = "recv" /\ PeerReset("read") /\ UNCHANGED staleErrno
      BY <1>8, <2>1 DEF Recv
    <3> QED BY <3>1 DEF PeerReset, Release, DropPacket, vars, threadVars, waitVars, connVars, sendVars, Goto
  <2>2. CASE ~staleErrno
    <3>1. /\ pc["read"] = "recv" /\ fd[sock["read"]] = "open" /\ link[sock["read"]] = "up"
          /\ Goto("read", "setnonblock")
          /\ UNCHANGED <<running, op, sock, waitVars, connVars, lock, sendVars>>
          /\ UNCHANGED staleErrno
      BY <1>8, <2>2 DEF Recv
    <3> QED BY <3>1 DEF vars, threadVars, waitVars, connVars, sendVars, Goto
  <2> QED BY <2>1, <2>2
<1>9. CASE RecvReset
BY <1>9 DEF RecvReset, PeerReset, Release, DropPacket, Goto, vars, threadVars, waitVars,
      connVars, sendVars
<1>10. CASE RecvError
BY <1>10 DEF RecvError, ReportError, Release, DropPacket, Goto, vars, threadVars, waitVars,
      connVars, sendVars
<1>11. CASE DrainEnds
  BY <1>11 DEF DrainEnds, Goto, vars, threadVars, waitVars, connVars, sendVars
<1>12. CASE Restore
  BY <1>12 DEF Restore, Release, Goto, vars, threadVars, waitVars, connVars, sendVars
<1>13. CASE Pop
  BY <1>13 DEF Pop, Goto, vars, threadVars, waitVars, connVars, sendVars
<1>14. CASE QueueEmpty
  BY <1>14 DEF QueueEmpty, Goto, vars, threadVars, waitVars, connVars, sendVars
<1>15. CASE Send
  BY <1>15 DEF Send, Release, Goto, vars, threadVars, waitVars, connVars, sendVars
<1>16. CASE SendReset
BY <1>16 DEF SendReset, PeerReset, Release, DropPacket, Goto, vars, threadVars, waitVars,
      connVars, sendVars
<1>17. CASE SendError
BY <1>17 DEF SendError, ReportError, Release, DropPacket, Goto, vars, threadVars, waitVars,
      connVars, sendVars
<1>18. CASE Enqueue
  BY <1>18 DEF Enqueue, vars, threadVars, waitVars, connVars, sendVars
<1>19. ASSUME NEW s \in Socks, PeerCloses(s) PROVE (NobodyNotified /\ SoleManager)'
  BY <1>19 DEF PeerCloses, vars, threadVars, waitVars, connVars, sendVars
<1>20. CASE Terminated
  BY <1>20 DEF Terminated, vars, threadVars, waitVars, connVars, sendVars
<1>21. CASE UNCHANGED vars
  BY <1>21 DEF vars, threadVars, waitVars, connVars, sendVars
<1> QED BY <1>1, <1>2, <1>3, <1>4, <1>5, <1>6, <1>7, <1>8, <1>9, <1>10, <1>11, <1>12, <1>13,
      <1>14, <1>15, <1>16, <1>17, <1>18, <1>19, <1>20, <1>21 DEF Next, Read, Write

(* On a condition variable without spurious wakeups, while the gateway     *)
(* runs, the threads that open and close sockets exclude each other.       *)
THEOREM SoleManagerHolds ==
    ASSUME ~SpuriousWakeups
    PROVE  Spec => []SoleManager
<1>1. Init => NobodyNotified /\ SoleManager
  BY DEF Init, NobodyNotified, SoleManager
<1>2. TypeOK /\ ThreadsInPlace /\ (NobodyNotified /\ SoleManager) /\ [Next]_vars
         => (NobodyNotified /\ SoleManager)'
  BY ManagerStep
<1> QED BY <1>1, <1>2, TypeCorrect, PlaceInvariant, PTL DEF Spec

(* Under the mutex, nobody changes the flag between the two halves of      *)
(* disconnect(), and connect() finds no descriptor to lose.                *)
LEMMA DescriptorStep ==
    ASSUME TypeOK, ThreadsInPlace, SoleManager, ShutIsUnconnected, DescriptorMatchesFlag, [Next]_vars
    PROVE  (ShutIsUnconnected /\ DescriptorMatchesFlag)'
<1> USE DEF TypeOK, Threads, Workers, Socks, Nobody, ManagerLabels, IOLabels, ThreadsInPlace, SoleManager, Managing, ShutIsUnconnected, DescriptorMatchesFlag, Alive
<1>1. CASE Start
  BY <1>1 DEF Start, vars, threadVars, waitVars, connVars, sendVars
<1>2. CASE Stop
  BY <1>2 DEF Stop, Goto, vars, threadVars, waitVars, connVars, sendVars
<1>3. CASE NotifyAll
  BY <1>3 DEF NotifyAll, Goto, vars, threadVars, waitVars, connVars, sendVars
<1>4. CASE Join
  BY <1>4 DEF Join, Goto, vars, threadVars, waitVars, connVars, sendVars
<1>5. ASSUME NEW t \in Threads, Manage(t) PROVE (ShutIsUnconnected /\ DescriptorMatchesFlag)'
  <2>1. CASE TryLock(t)
    BY <2>1 DEF TryLock, Goto, vars, threadVars, waitVars, connVars, sendVars
  <2>2. CASE RetryTakes(t)
    BY <2>2 DEF RetryTakes, Goto, vars, threadVars, waitVars, connVars, sendVars
  <2>3. CASE RetryWaits(t)
    BY <2>3 DEF RetryWaits, Goto, vars, threadVars, waitVars, connVars, sendVars
  <2>4. CASE WaitTimeout(t)
    BY <2>4 DEF WaitTimeout, Goto, vars, threadVars, waitVars, connVars, sendVars
  <2>5. CASE WaitNoTimeout(t)
    BY <2>5 DEF WaitNoTimeout, Goto, AfterOp, vars, threadVars, waitVars, connVars, sendVars
  <2>6. CASE Unlock(t)
    BY <2>6 DEF Unlock, Goto, AfterOp, vars, threadVars, waitVars, connVars, sendVars
  <2>7. CASE SkipClose(t)
    BY <2>7 DEF SkipClose, AfterClose, Goto, vars, threadVars, waitVars, connVars, sendVars
  <2>8. CASE CloseFlag(t)
    BY <2>8 DEF CloseFlag, Goto, vars, threadVars, waitVars, connVars, sendVars
  <2>9. CASE CloseFd(t)
    BY <2>9 DEF CloseFd, AfterClose, Goto, vars, threadVars, waitVars, connVars, sendVars
  <2>10. CASE Sleep(t)
    BY <2>10 DEF Sleep, Goto, vars, threadVars, waitVars, connVars, sendVars
  <2>11. CASE AwaitDone(t)
    BY <2>11 DEF AwaitDone, AwaitReturns, Goto, vars, threadVars, waitVars, connVars, sendVars
  <2>12. CASE Dial(t)
    BY <2>12 DEF Dial, Goto, vars, threadVars, waitVars, connVars, sendVars
  <2>13. CASE DialOk(t)
    BY <2>13 DEF DialOk, Goto, vars, threadVars, waitVars, connVars, sendVars
  <2>14. CASE ReadOptions(t)
    BY <2>14 DEF ReadOptions, Goto, vars, threadVars, waitVars, connVars, sendVars
  <2>15. CASE DialFails(t)
    BY <2>15 DEF DialFails, Goto, vars, threadVars, waitVars, connVars, sendVars
  <2>16. CASE DialWaitTimeout(t)
    BY <2>16 DEF DialWaitTimeout, Goto, vars, threadVars, waitVars, connVars, sendVars
  <2>17. CASE DialWaitNoTimeout(t)
BY <2>17 DEF DialWaitNoTimeout, AwaitReturns, Goto, vars, threadVars, waitVars, connVars,
        sendVars
<2> QED BY <1>5, <2>1, <2>2, <2>3, <2>4, <2>5, <2>6, <2>7, <2>8, <2>9, <2>10, <2>11, <2>12,
        <2>13, <2>14, <2>15, <2>16, <2>17 DEF Manage
<1>6. ASSUME NEW t \in Workers, Work(t) PROVE (ShutIsUnconnected /\ DescriptorMatchesFlag)'
  <2>1. CASE Loop(t)
    BY <2>1 DEF Loop, Goto, vars, threadVars, waitVars, connVars, sendVars
  <2>2. CASE Nap(t)
    BY <2>2 DEF Nap, Goto, IsConnected, vars, threadVars, waitVars, connVars, sendVars
  <2>3. CASE Acquire(t)
    BY <2>3 DEF Acquire, Goto, vars, threadVars, waitVars, connVars, sendVars
  <2>4. CASE AcquireFails(t)
BY <2>4 DEF AcquireFails, ReportError, Release, DropPacket, Goto, vars, threadVars,
        waitVars, connVars, sendVars
  <2>5. CASE Clear(t)
    BY <2>5 DEF Clear, SetMode, Goto, vars, threadVars, waitVars, connVars, sendVars
  <2>6. CASE SetModeFails(t)
    BY <2>6 DEF SetModeFails, Terminate, vars, threadVars, waitVars, connVars, sendVars
  <2> QED BY <1>6, <2>1, <2>2, <2>3, <2>4, <2>5, <2>6 DEF Work
<1>7. CASE SetNonblock
  BY <1>7 DEF SetNonblock, SetMode, Goto, vars, threadVars, waitVars, connVars, sendVars
<1>8. CASE Recv
  <2>1. CASE staleErrno
    <3>1. pc["read"] = "recv" /\ PeerReset("read") /\ UNCHANGED staleErrno
      BY <1>8, <2>1 DEF Recv
    <3> QED BY <3>1 DEF PeerReset, Release, DropPacket, vars, threadVars, waitVars, connVars, sendVars, Goto
  <2>2. CASE ~staleErrno
    <3>1. /\ pc["read"] = "recv" /\ fd[sock["read"]] = "open" /\ link[sock["read"]] = "up"
          /\ Goto("read", "setnonblock")
          /\ UNCHANGED <<running, op, sock, waitVars, connVars, lock, sendVars>>
          /\ UNCHANGED staleErrno
      BY <1>8, <2>2 DEF Recv
    <3> QED BY <3>1 DEF vars, threadVars, waitVars, connVars, sendVars, Goto
  <2> QED BY <2>1, <2>2
<1>9. CASE RecvReset
BY <1>9 DEF RecvReset, PeerReset, Release, DropPacket, Goto, vars, threadVars, waitVars,
      connVars, sendVars
<1>10. CASE RecvError
BY <1>10 DEF RecvError, ReportError, Release, DropPacket, Goto, vars, threadVars, waitVars,
      connVars, sendVars
<1>11. CASE DrainEnds
  BY <1>11 DEF DrainEnds, Goto, vars, threadVars, waitVars, connVars, sendVars
<1>12. CASE Restore
  BY <1>12 DEF Restore, Release, Goto, vars, threadVars, waitVars, connVars, sendVars
<1>13. CASE Pop
  BY <1>13 DEF Pop, Goto, vars, threadVars, waitVars, connVars, sendVars
<1>14. CASE QueueEmpty
  BY <1>14 DEF QueueEmpty, Goto, vars, threadVars, waitVars, connVars, sendVars
<1>15. CASE Send
  BY <1>15 DEF Send, Release, Goto, vars, threadVars, waitVars, connVars, sendVars
<1>16. CASE SendReset
BY <1>16 DEF SendReset, PeerReset, Release, DropPacket, Goto, vars, threadVars, waitVars,
      connVars, sendVars
<1>17. CASE SendError
BY <1>17 DEF SendError, ReportError, Release, DropPacket, Goto, vars, threadVars, waitVars,
      connVars, sendVars
<1>18. CASE Enqueue
  BY <1>18 DEF Enqueue, vars, threadVars, waitVars, connVars, sendVars
<1>19. ASSUME NEW s \in Socks, PeerCloses(s) PROVE (ShutIsUnconnected /\ DescriptorMatchesFlag)'
  BY <1>19 DEF PeerCloses, vars, threadVars, waitVars, connVars, sendVars
<1>20. CASE Terminated
  BY <1>20 DEF Terminated, vars, threadVars, waitVars, connVars, sendVars
<1>21. CASE UNCHANGED vars
  BY <1>21 DEF vars, threadVars, waitVars, connVars, sendVars
<1> QED BY <1>1, <1>2, <1>3, <1>4, <1>5, <1>6, <1>7, <1>8, <1>9, <1>10, <1>11, <1>12, <1>13,
      <1>14, <1>15, <1>16, <1>17, <1>18, <1>19, <1>20, <1>21 DEF Next, Read, Write

(* While the gateway runs, a socket is connected exactly if it has a       *)
(* descriptor, but for the moment between the halves of disconnect().      *)
THEOREM DescriptorHolds ==
    ASSUME ~SpuriousWakeups
    PROVE  Spec => []DescriptorMatchesFlag
<1>1. Init => ShutIsUnconnected /\ DescriptorMatchesFlag
  BY DEF Init, ShutIsUnconnected, DescriptorMatchesFlag
<1>2. TypeOK /\ ThreadsInPlace /\ SoleManager
         /\ (ShutIsUnconnected /\ DescriptorMatchesFlag) /\ [Next]_vars
         => (ShutIsUnconnected /\ DescriptorMatchesFlag)'
  BY DescriptorStep
<1> QED BY <1>1, <1>2, TypeCorrect, PlaceInvariant, SoleManagerHolds, PTL DEF Spec

(* The mutex is free once nobody works under it, however many unlock() too *)
(* many there were.                                                        *)
LEMMA OwnerStep ==
    ASSUME TypeOK, ThreadsInPlace, OwnerManages, [Next]_vars
    PROVE  OwnerManages'
<1> USE DEF TypeOK, Threads, Workers, Nobody, ManagerLabels, IOLabels, ThreadsInPlace, OwnerManages, Managing
<1>1. CASE Start
  BY <1>1 DEF Start, vars, threadVars, waitVars, connVars, sendVars
<1>2. CASE Stop
  BY <1>2 DEF Stop, Goto, vars, threadVars, waitVars, connVars, sendVars
<1>3. CASE NotifyAll
  BY <1>3 DEF NotifyAll, Goto, vars, threadVars, waitVars, connVars, sendVars
<1>4. CASE Join
  BY <1>4 DEF Join, Goto, vars, threadVars, waitVars, connVars, sendVars
<1>5. ASSUME NEW t \in Threads, Manage(t) PROVE OwnerManages'
  <2>1. CASE TryLock(t)
    BY <2>1 DEF TryLock, Goto, vars, threadVars, waitVars, connVars, sendVars
  <2>2. CASE RetryTakes(t)
    BY <2>2 DEF RetryTakes, Goto, vars, threadVars, waitVars, connVars, sendVars
  <2>3. CASE RetryWaits(t)
    BY <2>3 DEF RetryWaits, Goto, vars, threadVars, waitVars, connVars, sendVars
  <2>4. CASE WaitTimeout(t)
    BY <2>4 DEF WaitTimeout, Goto, vars, threadVars, waitVars, connVars, sendVars
  <2>5. CASE WaitNoTimeout(t)
    BY <2>5 DEF WaitNoTimeout, Goto, AfterOp, vars, threadVars, waitVars, connVars, sendVars
  <2>6. CASE Unlock(t)
    BY <2>6 DEF Unlock, Goto, AfterOp, vars, threadVars, waitVars, connVars, sendVars
  <2>7. CASE SkipClose(t)
    BY <2>7 DEF SkipClose, AfterClose, Goto, vars, threadVars, waitVars, connVars, sendVars
  <2>8. CASE CloseFlag(t)
    BY <2>8 DEF CloseFlag, Goto, vars, threadVars, waitVars, connVars, sendVars
  <2>9. CASE CloseFd(t)
    BY <2>9 DEF CloseFd, AfterClose, Goto, vars, threadVars, waitVars, connVars, sendVars
  <2>10. CASE Sleep(t)
    BY <2>10 DEF Sleep, Goto, vars, threadVars, waitVars, connVars, sendVars
  <2>11. CASE AwaitDone(t)
    BY <2>11 DEF AwaitDone, AwaitReturns, Goto, vars, threadVars, waitVars, connVars, sendVars
  <2>12. CASE Dial(t)
    BY <2>12 DEF Dial, Goto, vars, threadVars, waitVars, connVars, sendVars
  <2>13. CASE DialOk(t)
    BY <2>13 DEF DialOk, Goto, vars, threadVars, waitVars, connVars, sendVars
  <2>14. CASE ReadOptions(t)
    BY <2>14 DEF ReadOptions, Goto, vars, threadVars, waitVars, connVars, sendVars
  <2>15. CASE DialFails(t)
    BY <2>15 DEF DialFails, Goto, vars, threadVars, waitVars, connVars, sendVars
  <2>16. CASE DialWaitTimeout(t)
    BY <2>16 DEF DialWaitTimeout, Goto, vars, threadVars, waitVars, connVars, sendVars
  <2>17. CASE DialWaitNoTimeout(t)
BY <2>17 DEF DialWaitNoTimeout, AwaitReturns, Goto, vars, threadVars, waitVars, connVars,
        sendVars
<2> QED BY <1>5, <2>1, <2>2, <2>3, <2>4, <2>5, <2>6, <2>7, <2>8, <2>9, <2>10, <2>11, <2>12,
        <2>13, <2>14, <2>15, <2>16, <2>17 DEF Manage
<1>6. ASSUME NEW t \in Workers, Work(t) PROVE OwnerManages'
  <2>1. CASE Loop(t)
    BY <2>1 DEF Loop, Goto, vars, threadVars, waitVars, connVars, sendVars
  <2>2. CASE Nap(t)
    BY <2>2 DEF Nap, Goto, IsConnected, vars, threadVars, waitVars, connVars, sendVars
  <2>3. CASE Acquire(t)
    BY <2>3 DEF Acquire, Goto, vars, threadVars, waitVars, connVars, sendVars
  <2>4. CASE AcquireFails(t)
BY <2>4 DEF AcquireFails, ReportError, Release, DropPacket, Goto, vars, threadVars,
        waitVars, connVars, sendVars
  <2>5. CASE Clear(t)
    BY <2>5 DEF Clear, SetMode, Goto, vars, threadVars, waitVars, connVars, sendVars
  <2>6. CASE SetModeFails(t)
    BY <2>6 DEF SetModeFails, Terminate, vars, threadVars, waitVars, connVars, sendVars
  <2> QED BY <1>6, <2>1, <2>2, <2>3, <2>4, <2>5, <2>6 DEF Work
<1>7. CASE SetNonblock
  BY <1>7 DEF SetNonblock, SetMode, Goto, vars, threadVars, waitVars, connVars, sendVars
<1>8. CASE Recv
  <2>1. CASE staleErrno
    <3>1. pc["read"] = "recv" /\ PeerReset("read") /\ UNCHANGED staleErrno
      BY <1>8, <2>1 DEF Recv
    <3> QED BY <3>1 DEF PeerReset, Release, DropPacket, vars, threadVars, waitVars, connVars, sendVars, Goto
  <2>2. CASE ~staleErrno
    <3>1. /\ pc["read"] = "recv" /\ fd[sock["read"]] = "open" /\ link[sock["read"]] = "up"
          /\ Goto("read", "setnonblock")
          /\ UNCHANGED <<running, op, sock, waitVars, connVars, lock, sendVars>>
          /\ UNCHANGED staleErrno
      BY <1>8, <2>2 DEF Recv
    <3> QED BY <3>1 DEF vars, threadVars, waitVars, connVars, sendVars, Goto
  <2> QED BY <2>1, <2>2
<1>9. CASE RecvReset
BY <1>9 DEF RecvReset, PeerReset, Release, DropPacket, Goto, vars, threadVars, waitVars,
      connVars, sendVars
<1>10. CASE RecvError
BY <1>10 DEF RecvError, ReportError, Release, DropPacket, Goto, vars, threadVars, waitVars,
      connVars, sendVars
<1>11. CASE DrainEnds
  BY <1>11 DEF DrainEnds, Goto, vars, threadVars, waitVars, connVars, sendVars
<1>12. CASE Restore
  BY <1>12 DEF Restore, Release, Goto, vars, threadVars, waitVars, connVars, sendVars
<1>13. CASE Pop
  BY <1>13 DEF Pop, Goto, vars, threadVars, waitVars, connVars, sendVars
<1>14. CASE QueueEmpty
  BY <1>14 DEF QueueEmpty, Goto, vars, threadVars, waitVars, connVars, sendVars
<1>15. CASE Send
  BY <1>15 DEF Send, Release, Goto, vars, threadVars, waitVars, connVars, sendVars
<1>16. CASE SendReset
BY <1>16 DEF SendReset, PeerReset, Release, DropPacket, Goto, vars, threadVars, waitVars,
      connVars, sendVars
<1>17. CASE SendError
BY <1>17 DEF SendError, ReportError, Release, DropPacket, Goto, vars, threadVars, waitVars,
      connVars, sendVars
<1>18. CASE Enqueue
  BY <1>18 DEF Enqueue, vars, threadVars, waitVars, connVars, sendVars
<1>19. ASSUME NEW s \in Socks, PeerCloses(s) PROVE OwnerManages'
  BY <1>19 DEF PeerCloses, vars, threadVars, waitVars, connVars, sendVars
<1>20. CASE Terminated
  BY <1>20 DEF Terminated, vars, threadVars, waitVars, connVars, sendVars
<1>21. CASE UNCHANGED vars
  BY <1>21 DEF vars, threadVars, waitVars, connVars, sendVars
<1> QED BY <1>1, <1>2, <1>3, <1>4, <1>5, <1>6, <1>7, <1>8, <1>9, <1>10, <1>11, <1>12, <1>13,
      <1>14, <1>15, <1>16, <1>17, <1>18, <1>19, <1>20, <1>21 DEF Next, Read, Write
(* With both workers gone, stop() gets the mutex at once and closes both.   *)
LEMMA StopStep ==
    ASSUME TypeOK, ThreadsInPlace, OwnerManages, StopProgress, [Next]_vars
    PROVE  StopProgress'
<1> USE DEF TypeOK, Threads, Workers, Socks, Nobody, OpLabels, ManagerLabels, IOLabels, ThreadsInPlace, OwnerManages, Managing, StopProgress
<1>1. CASE Start
  BY <1>1 DEF Start, vars, threadVars, waitVars, connVars, sendVars
<1>2. CASE Stop
  BY <1>2 DEF Stop, Goto, vars, threadVars, waitVars, connVars, sendVars
<1>3. CASE NotifyAll
  BY <1>3 DEF NotifyAll, Goto, vars, threadVars, waitVars, connVars, sendVars
<1>4. CASE Join
  BY <1>4 DEF Join, Goto, vars, threadVars, waitVars, connVars, sendVars
<1>5. ASSUME NEW t \in Threads, Manage(t) PROVE StopProgress'
  <2>1. CASE TryLock(t)
    BY <2>1 DEF TryLock, Goto, vars, threadVars, waitVars, connVars, sendVars
  <2>2. CASE RetryTakes(t)
    BY <2>2 DEF RetryTakes, Goto, vars, threadVars, waitVars, connVars, sendVars
  <2>3. CASE RetryWaits(t)
    BY <2>3 DEF RetryWaits, Goto, vars, threadVars, waitVars, connVars, sendVars
  <2>4. CASE WaitTimeout(t)
    BY <2>4 DEF WaitTimeout, Goto, vars, threadVars, waitVars, connVars, sendVars
  <2>5. CASE WaitNoTimeout(t)
    BY <2>5 DEF WaitNoTimeout, Goto, AfterOp, vars, threadVars, waitVars, connVars, sendVars
  <2>6. CASE Unlock(t)
    BY <2>6 DEF Unlock, Goto, AfterOp, vars, threadVars, waitVars, connVars, sendVars
  <2>7. CASE SkipClose(t)
    BY <2>7 DEF SkipClose, AfterClose, Goto, vars, threadVars, waitVars, connVars, sendVars
  <2>8. CASE CloseFlag(t)
    BY <2>8 DEF CloseFlag, Goto, vars, threadVars, waitVars, connVars, sendVars
  <2>9. CASE CloseFd(t)
    BY <2>9 DEF CloseFd, AfterClose, Goto, vars, threadVars, waitVars, connVars, sendVars
  <2>10. CASE Sleep(t)
    BY <2>10 DEF Sleep, Goto, vars, threadVars, waitVars, connVars, sendVars
  <2>11. CASE AwaitDone(t)
    BY <2>11 DEF AwaitDone, AwaitReturns, Goto, vars, threadVars, waitVars, connVars, sendVars
  <2>12. CASE Dial(t)
    BY <2>12 DEF Dial, Goto, vars, threadVars, waitVars, connVars, sendVars
  <2>13. CASE DialOk(t)
    BY <2>13 DEF DialOk, Goto, vars, threadVars, waitVars, connVars, sendVars
  <2>14. CASE ReadOptions(t)
    BY <2>14 DEF ReadOptions, Goto, vars, threadVars, waitVars, connVars, sendVars
  <2>15. CASE DialFails(t)
    BY <2>15 DEF DialFails, Goto, vars, threadVars, waitVars, connVars, sendVars
  <2>16. CASE DialWaitTimeout(t)
    BY <2>16 DEF DialWaitTimeout, Goto, vars, threadVars, waitVars, connVars, sendVars
  <2>17. CASE DialWaitNoTimeout(t)
BY <2>17 DEF DialWaitNoTimeout, AwaitReturns, Goto, vars, threadVars, waitVars, connVars,
        sendVars
<2> QED BY <1>5, <2>1, <2>2, <2>3, <2>4, <2>5, <2>6, <2>7, <2>8, <2>9, <2>10, <2>11, <2>12,
        <2>13, <2>14, <2>15, <2>16, <2>17 DEF Manage
<1>6. ASSUME NEW t \in Workers, Work(t) PROVE StopProgress'
  <2>1. CASE Loop(t)
    BY <2>1 DEF Loop, Goto, vars, threadVars, waitVars, connVars, sendVars
  <2>2. CASE Nap(t)
    BY <2>2 DEF Nap, Goto, IsConnected, vars, threadVars, waitVars, connVars, sendVars
  <2>3. CASE Acquire(t)
    BY <2>3 DEF Acquire, Goto, vars, threadVars, waitVars, connVars, sendVars
  <2>4. CASE AcquireFails(t)
BY <2>4 DEF AcquireFails, ReportError, Release, DropPacket, Goto, vars, threadVars,
        waitVars, connVars, sendVars
  <2>5. CASE Clear(t)
    BY <2>5 DEF Clear, SetMode, Goto, vars, threadVars, waitVars, connVars, sendVars
  <2>6. CASE SetModeFails(t)
    BY <2>6 DEF SetModeFails, Terminate, vars, threadVars, waitVars, connVars, sendVars
  <2> QED BY <1>6, <2>1, <2>2, <2>3, <2>4, <2>5, <2>6 DEF Work
<1>7. CASE SetNonblock
  BY <1>7 DEF SetNonblock, SetMode, Goto, vars, threadVars, waitVars, connVars, sendVars
<1>8. CASE Recv
  <2>1. CASE staleErrno
    <3>1. pc["read"] = "recv" /\ PeerReset("read") /\ UNCHANGED staleErrno
      BY <1>8, <2>1 DEF Recv
    <3> QED BY <3>1 DEF PeerReset, Release, DropPacket, vars, threadVars, waitVars, connVars, sendVars, Goto
  <2>2. CASE ~staleErrno
    <3>1. /\ pc["read"] = "recv" /\ fd[sock["read"]] = "open" /\ link[sock["read"]] = "up"
          /\ Goto("read", "setnonblock")
          /\ UNCHANGED <<running, op, sock, waitVars, connVars, lock, sendVars>>
          /\ UNCHANGED staleErrno
      BY <1>8, <2>2 DEF Recv
    <3> QED BY <3>1 DEF vars, threadVars, waitVars, connVars, sendVars, Goto
  <2> QED BY <2>1, <2>2
<1>9. CASE RecvReset
BY <1>9 DEF RecvReset, PeerReset, Release, DropPacket, Goto, vars, threadVars, waitVars,
      connVars, sendVars
<1>10. CASE RecvError
BY <1>10 DEF RecvError, ReportError, Release, DropPacket, Goto, vars, threadVars, waitVars,
      connVars, sendVars
<1>11. CASE DrainEnds
  BY <1>11 DEF DrainEnds, Goto, vars, threadVars, waitVars, connVars, sendVars
<1>12. CASE Restore
  BY <1>12 DEF Restore, Release, Goto, vars, threadVars, waitVars, connVars, sendVars
<1>13. CASE Pop
  BY <1>13 DEF Pop, Goto, vars, threadVars, waitVars, connVars, sendVars
<1>14. CASE QueueEmpty
  BY <1>14 DEF QueueEmpty, Goto, vars, threadVars, waitVars, connVars, sendVars
<1>15. CASE Send
  BY <1>15 DEF Send, Release, Goto, vars, threadVars, waitVars, connVars, sendVars
<1>16. CASE SendReset
BY <1>16 DEF SendReset, PeerReset, Release, DropPacket, Goto, vars, threadVars, waitVars,
      connVars, sendVars
<1>17. CASE SendError
BY <1>17 DEF SendError, ReportError, Release, DropPacket, Goto, vars, threadVars, waitVars,
      connVars, sendVars
<1>18. CASE Enqueue
  BY <1>18 DEF Enqueue, vars, threadVars, waitVars, connVars, sendVars
<1>19. ASSUME NEW s \in Socks, PeerCloses(s) PROVE StopProgress'
  BY <1>19 DEF PeerCloses, vars, threadVars, waitVars, connVars, sendVars
<1>20. CASE Terminated
  BY <1>20 DEF Terminated, vars, threadVars, waitVars, connVars, sendVars
<1>21. CASE UNCHANGED vars
  BY <1>21 DEF vars, threadVars, waitVars, connVars, sendVars
<1> QED BY <1>1, <1>2, <1>3, <1>4, <1>5, <1>6, <1>7, <1>8, <1>9, <1>10, <1>11, <1>12, <1>13,
      <1>14, <1>15, <1>16, <1>17, <1>18, <1>19, <1>20, <1>21 DEF Next, Read, Write

(* Whatever the workers were doing when stop() was called, spurious        *)
(* wakeups included, no socket is connected when it has returned.          *)
THEOREM ClosedAfterStopHolds == Spec => []ClosedAfterStop
<1>1. Init => OwnerManages /\ StopProgress
  BY DEF Init, OwnerManages, StopProgress, Threads, Workers, Nobody, OpLabels, ManagerLabels
<1>2. StopProgress => ClosedAfterStop
  BY DEF StopProgress, ClosedAfterStop
<1> QED BY <1>1, <1>2, OwnerStep, StopStep, TypeCorrect, PlaceInvariant, PTL DEF Spec


----------------------------------------------------------------------------
(* All that an action can do to the packets.                               *)
PacketStep ==
    UNCHANGED sendVars \/ Pop \/ Send \/ DropPacket("write") \/ Enqueue

(* An action queues, pops, sends or drops a packet, or leaves them alone.   *)
LEMMA PacketSteps ==
    ASSUME TypeOK, [Next]_vars
    PROVE  PacketStep
<1> USE DEF PacketStep, Workers
<1>1. CASE Start
  BY <1>1 DEF Start, vars, sendVars
<1>2. CASE Stop
  BY <1>2 DEF Stop, Goto, vars, sendVars
<1>3. CASE NotifyAll
  BY <1>3 DEF NotifyAll, Goto, vars, sendVars
<1>4. CASE Join
  BY <1>4 DEF Join, Goto, vars, sendVars
<1>5. ASSUME NEW t \in Threads, Manage(t) PROVE PacketStep
  <2>1. CASE TryLock(t)
    BY <2>1 DEF TryLock, Goto, vars, sendVars
  <2>2. CASE RetryTakes(t)
    BY <2>2 DEF RetryTakes, Goto, vars, sendVars
  <2>3. CASE RetryWaits(t)
    BY <2>3 DEF RetryWaits, Goto, vars, sendVars
  <2>4. CASE WaitTimeout(t)
    BY <2>4 DEF WaitTimeout, Goto, vars, sendVars
  <2>5. CASE WaitNoTimeout(t)
    BY <2>5 DEF WaitNoTimeout, Goto, AfterOp, vars, sendVars
  <2>6. CASE Unlock(t)
    BY <2>6 DEF Unlock, Goto, AfterOp, vars, sendVars
  <2>7. CASE SkipClose(t)
    BY <2>7 DEF SkipClose, AfterClose, Goto, vars, sendVars
  <2>8. CASE CloseFlag(t)
    BY <2>8 DEF CloseFlag, Goto, vars, sendVars
  <2>9. CASE CloseFd(t)
    BY <2>9 DEF CloseFd, AfterClose, Goto, vars, sendVars
  <2>10. CASE Sleep(t)
    BY <2>10 DEF Sleep, Goto, vars, sendVars
  <2>11. CASE AwaitDone(t)
    BY <2>11 DEF AwaitDone, AwaitReturns, Goto, vars, sendVars
  <2>12. CASE Dial(t)
    BY <2>12 DEF Dial, Goto, vars, sendVars
  <2>13. CASE DialOk(t)
    BY <2>13 DEF DialOk, Goto, vars, sendVars
  <2>14. CASE ReadOptions(t)
    BY <2>14 DEF ReadOptions, Goto, vars, sendVars
  <2>15. CASE DialFails(t)
    BY <2>15 DEF DialFails, Goto, vars, sendVars
  <2>16. CASE DialWaitTimeout(t)
    BY <2>16 DEF DialWaitTimeout, Goto, vars, sendVars
  <2>17. CASE DialWaitNoTimeout(t)
    BY <2>17 DEF DialWaitNoTimeout, AwaitReturns, Goto, vars, sendVars
<2> QED BY <1>5, <2>1, <2>2, <2>3, <2>4, <2>5, <2>6, <2>7, <2>8, <2>9, <2>10, <2>11, <2>12,
        <2>13, <2>14, <2>15, <2>16, <2>17 DEF Manage
<1>6. ASSUME NEW t \in Workers, Work(t) PROVE PacketStep
  <2>1. CASE Loop(t)
    BY <2>1 DEF Loop, Goto, vars, sendVars
  <2>2. CASE Nap(t)
    BY <2>2 DEF Nap, Goto, IsConnected, vars, sendVars
  <2>3. CASE Acquire(t)
    BY <2>3 DEF Acquire, Goto, vars, sendVars
  <2>4. CASE AcquireFails(t)
    BY <2>4 DEF AcquireFails, ReportError, Release, DropPacket, Goto, vars, sendVars
  <2>5. CASE Clear(t)
    BY <2>5 DEF Clear, SetMode, Goto, vars, sendVars
  <2>6. CASE SetModeFails(t)
    BY <2>6 DEF SetModeFails, Terminate, vars, sendVars
  <2> QED BY <1>6, <2>1, <2>2, <2>3, <2>4, <2>5, <2>6 DEF Work
<1>7. CASE SetNonblock
  BY <1>7 DEF SetNonblock, SetMode, Goto, vars, sendVars
<1>8. CASE Recv
  <2>1. CASE staleErrno
    <3>1. pc["read"] = "recv" /\ PeerReset("read") /\ UNCHANGED staleErrno
      BY <1>8, <2>1 DEF Recv
    <3> QED BY <3>1 DEF PeerReset, Release, DropPacket, vars, threadVars, waitVars, connVars, sendVars, Goto
  <2>2. CASE ~staleErrno
    <3>1. /\ pc["read"] = "recv" /\ fd[sock["read"]] = "open" /\ link[sock["read"]] = "up"
          /\ Goto("read", "setnonblock")
          /\ UNCHANGED <<running, op, sock, waitVars, connVars, lock, sendVars>>
          /\ UNCHANGED staleErrno
      BY <1>8, <2>2 DEF Recv
    <3> QED BY <3>1 DEF vars, threadVars, waitVars, connVars, sendVars, Goto
  <2> QED BY <2>1, <2>2
<1>9. CASE RecvReset
  BY <1>9 DEF RecvReset, PeerReset, Release, DropPacket, Goto, vars, sendVars
<1>10. CASE RecvError
  BY <1>10 DEF RecvError, ReportError, Release, DropPacket, Goto, vars, sendVars
<1>11. CASE DrainEnds
  BY <1>11 DEF DrainEnds, Goto, vars, sendVars
<1>12. CASE Restore
  BY <1>12 DEF Restore, Release, Goto, vars, sendVars
<1>13. CASE Pop
  BY <1>13 DEF Pop, Goto, vars, sendVars
<1>14. CASE QueueEmpty
  BY <1>14 DEF QueueEmpty, Goto, vars, sendVars
<1>15. CASE Send
  BY <1>15 DEF Send, Release, Goto, vars, sendVars
<1>16. CASE SendReset
  BY <1>16 DEF SendReset, PeerReset, Release, DropPacket, Goto, vars, sendVars
<1>17. CASE SendError
  BY <1>17 DEF SendError, ReportError, Release, DropPacket, Goto, vars, sendVars
<1>18. CASE Enqueue
  BY <1>18 DEF Enqueue, vars, sendVars
<1>19. ASSUME NEW s \in Socks, PeerCloses(s) PROVE PacketStep
  BY <1>19 DEF PeerCloses, vars, sendVars
<1>20. CASE Terminated
  BY <1>20 DEF Terminated, vars, sendVars
<1>21. CASE UNCHANGED vars
  BY <1>21 DEF vars, sendVars
<1> QED BY <1>1, <1>2, <1>3, <1>4, <1>5, <1>6, <1>7, <1>8, <1>9, <1>10, <1>11, <1>12, <1>13,
      <1>14, <1>15, <1>16, <1>17, <1>18, <1>19, <1>20, <1>21 DEF Next, Read, Write

(* The writer holds at most one popped packet, and only while it writes.   *)
PacketInv ==
    /\ Len(packet) <= 1
    /\ packet # <<>> => pc["write"] \in {"lock", "clear", "send", "dead"}

(* The popped packet is gone when the writer comes back for the next.      *)
LEMMA PacketInvStep ==
    ASSUME TypeOK, ThreadsInPlace, PacketInv, [Next]_vars
    PROVE  PacketInv'
<1> USE DEF TypeOK, Threads, Workers, Socks, IOLabels, ThreadsInPlace, WriterLabels, ReaderLabels, OpLabels, ManagerLabels, PacketInv
<1>1. CASE Start
  BY <1>1 DEF Start, vars, threadVars, waitVars, connVars, sendVars
<1>2. CASE Stop
  BY <1>2 DEF Stop, Goto, vars, threadVars, waitVars, connVars, sendVars
<1>3. CASE NotifyAll
  BY <1>3 DEF NotifyAll, Goto, vars, threadVars, waitVars, connVars, sendVars
<1>4. CASE Join
  BY <1>4 DEF Join, Goto, vars, threadVars, waitVars, connVars, sendVars
<1>5. ASSUME NEW t \in Threads, Manage(t) PROVE PacketInv'
  <2>1. CASE TryLock(t)
    BY <2>1 DEF TryLock, Goto, vars, threadVars, waitVars, connVars, sendVars
  <2>2. CASE RetryTakes(t)
    BY <2>2 DEF RetryTakes, Goto, vars, threadVars, waitVars, connVars, sendVars
  <2>3. CASE RetryWaits(t)
    BY <2>3 DEF RetryWaits, Goto, vars, threadVars, waitVars, connVars, sendVars
  <2>4. CASE WaitTimeout(t)
    BY <2>4 DEF WaitTimeout, Goto, vars, threadVars, waitVars, connVars, sendVars
  <2>5. CASE WaitNoTimeout(t)
    BY <2>5 DEF WaitNoTimeout, Goto, AfterOp, vars, threadVars, waitVars, connVars, sendVars
  <2>6. CASE Unlock(t)
    BY <2>6 DEF Unlock, Goto, AfterOp, vars, threadVars, waitVars, connVars, sendVars
  <2>7. CASE SkipClose(t)
    BY <2>7 DEF SkipClose, AfterClose, Goto, vars, threadVars, waitVars, connVars, sendVars
  <2>8. CASE CloseFlag(t)
    BY <2>8 DEF CloseFlag, Goto, vars, threadVars, waitVars, connVars, sendVars
  <2>9. CASE CloseFd(t)
    BY <2>9 DEF CloseFd, AfterClose, Goto, vars, threadVars, waitVars, connVars, sendVars
  <2>10. CASE Sleep(t)
    BY <2>10 DEF Sleep, Goto, vars, threadVars, waitVars, connVars, sendVars
  <2>11. CASE AwaitDone(t)
    BY <2>11 DEF AwaitDone, AwaitReturns, Goto, vars, threadVars, waitVars, connVars, sendVars
  <2>12. CASE Dial(t)
    BY <2>12 DEF Dial, Goto, vars, threadVars, waitVars, connVars, sendVars
  <2>13. CASE DialOk(t)
    BY <2>13 DEF DialOk, Goto, vars, threadVars, waitVars, connVars, sendVars
  <2>14. CASE ReadOptions(t)
    BY <2>14 DEF ReadOptions, Goto, vars, threadVars, waitVars, connVars, sendVars
  <2>15. CASE DialFails(t)
    BY <2>15 DEF DialFails, Goto, vars, threadVars, waitVars, connVars, sendVars
  <2>16. CASE DialWaitTimeout(t)
    BY <2>16 DEF DialWaitTimeout, Goto, vars, threadVars, waitVars, connVars, sendVars
  <2>17. CASE DialWaitNoTimeout(t)
BY <2>17 DEF DialWaitNoTimeout, AwaitReturns, Goto, vars, threadVars, waitVars, connVars,
        sendVars
<2> QED BY <1>5, <2>1, <2>2, <2>3, <2>4, <2>5, <2>6, <2>7, <2>8, <2>9, <2>10, <2>11, <2>12,
        <2>13, <2>14, <2>15, <2>16, <2>17 DEF Manage
<1>6. ASSUME NEW t \in Workers, Work(t) PROVE PacketInv'
  <2>1. CASE Loop(t)
    BY <2>1 DEF Loop, Goto, vars, threadVars, waitVars, connVars, sendVars
  <2>2. CASE Nap(t)
    BY <2>2 DEF Nap, Goto, IsConnected, vars, threadVars, waitVars, connVars, sendVars
  <2>3. CASE Acquire(t)
    BY <2>3 DEF Acquire, Goto, vars, threadVars, waitVars, connVars, sendVars
  <2>4. CASE AcquireFails(t)
BY <2>4 DEF AcquireFails, ReportError, Release, DropPacket, Goto, vars, threadVars,
        waitVars, connVars, sendVars
  <2>5. CASE Clear(t)
    BY <2>5 DEF Clear, SetMode, Goto, vars, threadVars, waitVars, connVars, sendVars
  <2>6. CASE SetModeFails(t)
    BY <2>6 DEF SetModeFails, Terminate, vars, threadVars, waitVars, connVars, sendVars
  <2> QED BY <1>6, <2>1, <2>2, <2>3, <2>4, <2>5, <2>6 DEF Work
<1>7. CASE SetNonblock
  BY <1>7 DEF SetNonblock, SetMode, Goto, vars, threadVars, waitVars, connVars, sendVars
<1>8. CASE Recv
  <2>1. CASE staleErrno
    <3>1. pc["read"] = "recv" /\ PeerReset("read") /\ UNCHANGED staleErrno
      BY <1>8, <2>1 DEF Recv
    <3> QED BY <3>1 DEF PeerReset, Release, DropPacket, vars, threadVars, waitVars, connVars, sendVars, Goto
  <2>2. CASE ~staleErrno
    <3>1. /\ pc["read"] = "recv" /\ fd[sock["read"]] = "open" /\ link[sock["read"]] = "up"
          /\ Goto("read", "setnonblock")
          /\ UNCHANGED <<running, op, sock, waitVars, connVars, lock, sendVars>>
          /\ UNCHANGED staleErrno
      BY <1>8, <2>2 DEF Recv
    <3> QED BY <3>1 DEF vars, threadVars, waitVars, connVars, sendVars, Goto
  <2> QED BY <2>1, <2>2
<1>9. CASE RecvReset
BY <1>9 DEF RecvReset, PeerReset, Release, DropPacket, Goto, vars, threadVars, waitVars,
      connVars, sendVars
<1>10. CASE RecvError
BY <1>10 DEF RecvError, ReportError, Release, DropPacket, Goto, vars, threadVars, waitVars,
      connVars, sendVars
<1>11. CASE DrainEnds
  BY <1>11 DEF DrainEnds, Goto, vars, threadVars, waitVars, connVars, sendVars
<1>12. CASE Restore
  BY <1>12 DEF Restore, Release, Goto, vars, threadVars, waitVars, connVars, sendVars
<1>13. CASE Pop
  BY <1>13 DEF Pop, Goto, vars, threadVars, waitVars, connVars, sendVars
<1>14. CASE QueueEmpty
  BY <1>14 DEF QueueEmpty, Goto, vars, threadVars, waitVars, connVars, sendVars
<1>15. CASE Send
  BY <1>15 DEF Send, Release, Goto, vars, threadVars, waitVars, connVars, sendVars
<1>16. CASE SendReset
BY <1>16 DEF SendReset, PeerReset, Release, DropPacket, Goto, vars, threadVars, waitVars,
      connVars, sendVars
<1>17. CASE SendError
BY <1>17 DEF SendError, ReportError, Release, DropPacket, Goto, vars, threadVars, waitVars,
      connVars, sendVars
<1>18. CASE Enqueue
  BY <1>18 DEF Enqueue, vars, threadVars, waitVars, connVars, sendVars
<1>19. ASSUME NEW s \in Socks, PeerCloses(s) PROVE PacketInv'
  BY <1>19 DEF PeerCloses, vars, threadVars, waitVars, connVars, sendVars
<1>20. CASE Terminated
  BY <1>20 DEF Terminated, vars, threadVars, waitVars, connVars, sendVars
<1>21. CASE UNCHANGED vars
  BY <1>21 DEF vars, threadVars, waitVars, connVars, sendVars
<1> QED BY <1>1, <1>2, <1>3, <1>4, <1>5, <1>6, <1>7, <1>8, <1>9, <1>10, <1>11, <1>12, <1>13,
      <1>14, <1>15, <1>16, <1>17, <1>18, <1>19, <1>20, <1>21 DEF Next, Read, Write

LEMMA PacketInvariant == Spec => []PacketInv
<1>1. Init => PacketInv
  BY DEF Init, PacketInv
<1> QED BY <1>1, PacketInvStep, TypeCorrect, PlaceInvariant, PTL DEF Spec


(* The writer implements PacketChannel: packets are handed to the robot in *)
(* the order of queueing and at most once, through every reconnection.     *)
THEOREM ImplementsChannel == Spec => ChannelSpec
<1>1. Init => Channel!Init
  BY DEF Init, Channel!Init
<1>2. ASSUME TypeOK, PacketInv, [Next]_vars
      PROVE  [Channel!Next]_(Channel!vars)
  <2> USE <1>2 DEF TypeOK
  <2>1. CASE UNCHANGED sendVars
    BY <2>1 DEF sendVars, Channel!vars
  <2>2. CASE Pop
    <3>1. packet = <<>>
      BY <2>2 DEF Pop, PacketInv
    <3>2. packet' \o queue' = packet \o queue
      BY <2>2, <3>1 DEF Pop
    <3> QED BY <2>2, <3>2 DEF Pop, Channel!vars
  <2>3. CASE Send
    <3>1. CASE packet = <<>>
      BY <2>3, <3>1 DEF Send, connVars, Channel!vars
    <3>2. CASE packet # <<>>
      <4>1. /\ packet \o queue # <<>>
            /\ Tail(packet \o queue) = queue
            /\ sent \o packet = Append(sent, Head(packet \o queue))
        BY <3>2 DEF PacketInv
      <4>2. packet' \o queue' = queue
        BY <2>3 DEF Send
      <4>3. CASE sent' = sent
        BY <2>3, <4>1, <4>2, <4>3 DEF Send, Channel!Next, Channel!Lose
      <4>4. CASE sent' = sent \o packet
        BY <2>3, <4>1, <4>2, <4>4 DEF Send, Channel!Next, Channel!Deliver
      <4> QED BY <2>3, <4>3, <4>4 DEF Send
    <3> QED BY <3>1, <3>2
  <2>4. CASE DropPacket("write")
    <3>1. packet' \o queue' = queue
      BY <2>4 DEF DropPacket
    <3>2. CASE packet = <<>>
      BY <2>4, <3>1, <3>2 DEF DropPacket, Channel!vars
    <3>3. CASE packet # <<>>
      <4>1. packet \o queue # <<>> /\ Tail(packet \o queue) = queue
        BY <3>3 DEF PacketInv
      <4> QED BY <2>4, <3>1, <4>1 DEF DropPacket, Channel!Next, Channel!Lose
    <3> QED BY <3>2, <3>3
  <2>5. CASE Enqueue
    <3>1. packet' \o queue' = Append(packet \o queue, pushed + 1)
      BY <2>5 DEF Enqueue
    <3> QED BY <2>5, <3>1 DEF Enqueue, Channel!Next, Channel!Enqueue
  <2> QED BY <2>1, <2>2, <2>3, <2>4, <2>5, PacketSteps DEF PacketStep
<1> QED BY <1>1, <1>2, TypeCorrect, PacketInvariant, PTL DEF Spec, ChannelSpec, Channel!Spec


(* So the robot is handed the packets in the order of queueing, none twice. *)
THEOREM RobotSeesOrder == Spec => []Channel!InOrder
BY Channel!SentInOrder, ImplementsChannel, PTL DEF ChannelSpec
====================================================================================
