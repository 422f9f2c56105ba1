------------------------------- MODULE PacketChannel -------------------------------
(***************************************************************************)
(* What Gateway::enqueue / Gateway::emplace promise to the units that      *)
(* command the robot: packets leave in the order in which they were        *)
(* queued, none leaves twice, and any of them may be lost on the way.      *)
(* Packets are numbered in the order in which they are queued.             *)
(***************************************************************************)
EXTENDS Naturals, Sequences, TLAPS

VARIABLES
    pushed,     \* how many packets were ever queued
    pending,    \* the packets not yet handed to the robot, oldest first
    sent        \* the packets the robot was handed, oldest first

vars == <<pushed, pending, sent>>

Init == pushed = 0 /\ pending = <<>> /\ sent = <<>>

Enqueue ==
    /\ pushed' = pushed + 1
    /\ pending' = Append(pending, pushed + 1)
    /\ UNCHANGED sent

Deliver ==
    /\ pending # <<>>
    /\ sent' = Append(sent, Head(pending))
    /\ pending' = Tail(pending)
    /\ UNCHANGED pushed

Lose ==
    /\ pending # <<>>
    /\ pending' = Tail(pending)
    /\ UNCHANGED <<pushed, sent>>

Next == Enqueue \/ Deliver \/ Lose

Spec == Init /\ [][Next]_vars

----------------------------------------------------------------------------
Increasing(s) == \A i, j \in 1 .. Len(s) : i < j => s[i] < s[j]

(* What was sent was sent in the order of queueing and at most once. *)
InOrder == Increasing(sent)

(* The inductive form: what is pending is in order too, and younger than   *)
(* anything sent.                                                          *)
InOrderInv ==
    /\ pushed \in Nat /\ pending \in Seq(Nat) /\ sent \in Seq(Nat)
    /\ Increasing(sent) /\ Increasing(pending)
    /\ \A i \in 1 .. Len(sent), j \in 1 .. Len(pending) : sent[i] < pending[j]
    /\ \A i \in 1 .. Len(sent) : sent[i] <= pushed
    /\ \A j \in 1 .. Len(pending) : pending[j] <= pushed

----------------------------------------------------------------------------
LEMMA AppendIncreasing ==
    ASSUME NEW s \in Seq(Nat), Increasing(s), NEW n \in Nat,
           \A i \in 1 .. Len(s) : s[i] < n
    PROVE  Increasing(Append(s, n))
<1> DEFINE u == Append(s, n)
<1>1. Len(u) = Len(s) + 1 /\ u[Len(s) + 1] = n /\ \A i \in 1 .. Len(s) : u[i] = s[i]
  OBVIOUS
<1> HIDE DEF u
<1>2. ASSUME NEW i \in 1 .. Len(u), NEW j \in 1 .. Len(u), i < j PROVE u[i] < u[j]
  <2>1. CASE j = Len(s) + 1
    <3>1. i \in 1 .. Len(s)
      BY <1>1, <1>2, <2>1
    <3>2. u[i] = s[i] /\ s[i] < n
      BY <1>1, <3>1
    <3>3. u[j] = n
      BY <1>1, <2>1
    <3> QED BY <3>2, <3>3
  <2>2. CASE j \in 1 .. Len(s)
    <3>1. i \in 1 .. Len(s)
      BY <1>1, <1>2, <2>2
    <3>2. s[i] < s[j]
      BY <1>2, <2>2, <3>1 DEF Increasing
    <3> QED BY <1>1, <2>2, <3>1, <3>2
  <2> QED BY <1>1, <2>1, <2>2
<1>3. Increasing(u)
  BY <1>2 DEF Increasing
<1> QED BY <1>3 DEF u

LEMMA TailIncreasing ==
    ASSUME NEW s \in Seq(Nat), s # <<>>, Increasing(s)
    PROVE  /\ Increasing(Tail(s)) /\ Tail(s) \in Seq(Nat) /\ Head(s) = s[1]
           /\ \A i \in 1 .. Len(Tail(s)) : Tail(s)[i] = s[i + 1] /\ s[1] < s[i + 1]
           /\ Len(Tail(s)) = Len(s) - 1
<1>1. Len(Tail(s)) = Len(s) - 1 /\ \A i \in 1 .. Len(Tail(s)) : Tail(s)[i] = s[i + 1]
  OBVIOUS
<1> QED BY <1>1 DEF Increasing

(* Each step keeps what is sent, what is pending and the two together in   *)
(* the order of queueing.                                                  *)
LEMMA InOrderStep ==
    ASSUME InOrderInv, [Next]_vars
    PROVE  InOrderInv'
<1> USE DEF InOrderInv
<1>1. CASE Enqueue
  <2>1. Increasing(pending')
    BY <1>1, AppendIncreasing DEF Enqueue
  <2>2. /\ pending' \in Seq(Nat) /\ Len(pending') = Len(pending) + 1
        /\ pending'[Len(pending) + 1] = pushed + 1
        /\ \A j \in 1 .. Len(pending) : pending'[j] = pending[j]
    BY <1>1 DEF Enqueue
  <2>3. \A j \in 1 .. Len(pending') : pending'[j] <= pushed'
    BY <1>1, <2>2 DEF Enqueue
  <2>4. ASSUME NEW i \in 1 .. Len(sent'), NEW j \in 1 .. Len(pending')
        PROVE  sent'[i] < pending'[j]
    <3>1. sent' = sent /\ sent[i] \in Nat /\ sent[i] <= pushed
      BY <1>1 DEF Enqueue
    <3>2. CASE j = Len(pending) + 1
      BY <2>2, <3>1, <3>2
    <3>3. CASE j \in 1 .. Len(pending)
      BY <2>2, <3>1, <3>3
    <3> QED BY <2>2, <3>2, <3>3
  <2> QED BY <1>1, <2>1, <2>2, <2>3, <2>4 DEF Enqueue
<1>2. CASE Deliver
  <2>1. Increasing(sent')
    <3>1. pending[1] \in Nat /\ Head(pending) = pending[1] /\ 1 \in 1 .. Len(pending)
      BY <1>2 DEF Deliver
    <3>2. \A i \in 1 .. Len(sent) : sent[i] < pending[1]
      BY <3>1
    <3>3. Increasing(Append(sent, pending[1]))
      BY <3>1, <3>2, AppendIncreasing
    <3> QED BY <1>2, <3>1, <3>3 DEF Deliver
  <2>2. /\ sent' \in Seq(Nat) /\ Len(sent') = Len(sent) + 1
        /\ sent'[Len(sent) + 1] = pending[1]
        /\ \A i \in 1 .. Len(sent) : sent'[i] = sent[i]
    BY <1>2 DEF Deliver
  <2>3. /\ Increasing(pending') /\ pending' \in Seq(Nat) /\ Len(pending') = Len(pending) - 1
        /\ \A j \in 1 .. Len(pending') : pending'[j] = pending[j + 1] /\ pending[1] < pending[j + 1]
    BY <1>2, TailIncreasing DEF Deliver
  <2>4. ASSUME NEW i \in 1 .. Len(sent'), NEW j \in 1 .. Len(pending')
        PROVE  sent'[i] < pending'[j]
    <3>1. pending'[j] = pending[j + 1] /\ pending[1] < pending[j + 1] /\ j + 1 \in 1 .. Len(pending)
      BY <2>3
    <3>2. CASE i = Len(sent) + 1
      BY <2>2, <3>1, <3>2
    <3>3. CASE i \in 1 .. Len(sent)
      BY <2>2, <3>1, <3>3
    <3> QED BY <2>2, <3>2, <3>3
  <2>5. \A i \in 1 .. Len(sent') : sent'[i] <= pushed'
    BY <1>2, <2>2 DEF Deliver
  <2>6. \A j \in 1 .. Len(pending') : pending'[j] <= pushed'
    BY <1>2, <2>3 DEF Deliver
  <2> QED BY <1>2, <2>1, <2>2, <2>3, <2>4, <2>5, <2>6 DEF Deliver
<1>3. CASE Lose
  <2>1. /\ Increasing(pending') /\ pending' \in Seq(Nat) /\ Len(pending') = Len(pending) - 1
        /\ \A j \in 1 .. Len(pending') : pending'[j] = pending[j + 1]
    BY <1>3, TailIncreasing DEF Lose
  <2> QED BY <1>3, <2>1 DEF Lose
<1>4. CASE UNCHANGED vars
  BY <1>4 DEF vars
<1> QED BY <1>1, <1>2, <1>3, <1>4 DEF Next

(* A channel that only ever takes the oldest pending packet sends in the   *)
(* order of queueing, no packet twice.                                     *)
THEOREM SentInOrder == Spec => []InOrder
<1>1. Init => InOrderInv
  BY DEF Init, InOrderInv, Increasing
<1>2. InOrderInv => InOrder
  BY DEF InOrderInv, InOrder
<1> QED BY <1>1, <1>2, InOrderStep, PTL DEF Spec
====================================================================================
