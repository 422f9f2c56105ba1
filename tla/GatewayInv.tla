-------------------------------- MODULE GatewayInv --------------------------------
(***************************************************************************)
(* The inductive strengthenings of the invariants of Gateway, in the order *)
(* in which each rests on those before it.                                 *)
(***************************************************************************)
EXTENDS Gateway

OpLabels     == ManagerLabels \cup {"enter", "retry", "wait"}
MainLabels   == {"idle", "run", "notify", "join", "done", "dead"} \cup OpLabels
ReaderLabels == {"idle", "loop", "lock", "nap", "exit", "dead"} \cup OpLabels
                    \cup (IOLabels \ {"send"})
WriterLabels == {"idle", "loop", "lock", "nap", "exit", "dead", "queue"} \cup OpLabels
                    \cup {"clear", "send"}

(* Each thread stays in its own code; main is in stop() once ~running, and *)
(* nothing has happened before start().                                    *)
ThreadsInPlace ==
    /\ pc["main"] \in MainLabels
    /\ pc["read"] \in ReaderLabels
    /\ pc["write"] \in WriterLabels
    /\ running => pc["main"] \in {"run", "dead"}
    /\ pc["main"] \in {"idle", "dead"} => \A t \in Workers : pc[t] = pc["main"]
    /\ pc["main"] = "idle" =>
          /\ mutex = Nobody /\ notified = {}
          /\ \A s \in Socks : ~connected[s] /\ fd[s] = "none"

(* The descriptor is non-blocking only if the program thinks it is, and    *)
(* only the reader, under Socket::_lock, makes it so.                      *)
BlockingInv ==
    /\ \A s \in Socks : mode[s] => nonblock[s]
    /\ BlockingIO

(* Nobody was notified while the gateway runs.                             *)
NobodyNotified == running => notified = {}

(* A socket whose flag disconnect() has cleared stays unconnected until it *)
(* is closed.                                                              *)
ShutIsUnconnected ==
    running => \A t \in Threads : pc[t] = "shut" => ~connected[sock[t]]

(* The mutex is always owned by a thread at work under it, though not every *)
(* thread at work owns it once stop() has notified the waiters.             *)
OwnerManages == \A t \in Threads : mutex = t => Managing(t)

(* What stop() has closed when it is at each place of its _disconnect().   *)
StopProgress ==
    /\ pc["main"] \in OpLabels \cup {"done"} =>
          (\A t \in Workers : pc[t] = "exit") /\ op["main"] = "disconnect" /\ ~running
    /\ pc["main"] \in OpLabels =>
          pc["main"] \in {"enter", "close", "shut", "sleep", "unlock"}
    /\ pc["main"] \in {"close", "shut"} /\ sock["main"] = "camera" =>
          ~connected["command"]
    /\ pc["main"] = "shut" => ~connected[sock["main"]]
    /\ pc["main"] \in {"sleep", "unlock", "done"} => \A s \in Socks : ~connected[s]
====================================================================================
