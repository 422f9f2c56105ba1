------------------------------ MODULE TelemetryProofs ------------------------------
(* Theorems about what the units read, for any types of packet and any      *)
(* number of packets and of failures.                                      *)
EXTENDS Telemetry, SequenceTheorems, TLAPS

----------------------------------------------------------------------------
(* Lists of packets: the relations between two of them, and how they behave *)
(* when lists are joined or cut.                                           *)
Holds(packets, t) == \E i \in DOMAIN packets : packets[i].type = t

Before(a, b, t) ==
    \A i \in DOMAIN a, j \in DOMAIN b :
        a[i].type = t /\ b[j].type = t => a[i].n < b[j].n

LEMMA PacketFields ==
    ASSUME NEW p \in Packets
    PROVE  p.n \in 1 .. MaxPackets /\ p.n \in Nat /\ p.type \in Types /\ p.tick \in {0, 1}
BY TelemetryAssumption DEF Packets

LEMMA Elements ==
    ASSUME NEW s \in Seq(Packets), NEW i \in DOMAIN s
    PROVE  s[i] \in Packets /\ s[i].n \in Nat /\ i \in 1 .. Len(s) /\ Len(s) \in Nat
<1>1. i \in 1 .. Len(s) /\ Len(s) \in Nat
  BY LenProperties
<1>2. s[i] \in Packets
  BY <1>1, ElementOfSeq
<1> QED
  BY <1>1, <1>2, PacketFields

(* Where an element of a joined list comes from.                           *)
LEMMA Joined ==
    ASSUME NEW a \in Seq(Packets), NEW b \in Seq(Packets)
    PROVE  /\ a \o b \in Seq(Packets)
           /\ DOMAIN (a \o b) = 1 .. Len(a) + Len(b)
           /\ \A i \in DOMAIN (a \o b) :
                 \/ i \in DOMAIN a /\ (a \o b)[i] = a[i]
                 \/ i > Len(a) /\ i - Len(a) \in DOMAIN b /\ (a \o b)[i] = b[i - Len(a)]
           /\ \A i \in DOMAIN a : i \in DOMAIN (a \o b) /\ (a \o b)[i] = a[i]
           /\ \A i \in DOMAIN b : Len(a) + i \in DOMAIN (a \o b) /\ (a \o b)[Len(a) + i] = b[i]
<1>1. /\ Len(a) \in Nat /\ DOMAIN a = 1 .. Len(a)
      /\ Len(b) \in Nat /\ DOMAIN b = 1 .. Len(b)
  BY LenProperties
<1>2. /\ a \o b \in Seq(Packets) /\ Len(a \o b) = Len(a) + Len(b)
      /\ \A i \in 1 .. Len(a) + Len(b) :
            (a \o b)[i] = IF i <= Len(a) THEN a[i] ELSE b[i - Len(a)]
  BY ConcatProperties
<1>3. DOMAIN (a \o b) = 1 .. Len(a) + Len(b)
  BY <1>2, LenProperties
<1> DEFINE ab == a \o b
<1> HIDE DEF ab
<1>4. /\ DOMAIN ab = 1 .. Len(a) + Len(b)
      /\ \A i \in 1 .. Len(a) + Len(b) :
            ab[i] = IF i <= Len(a) THEN a[i] ELSE b[i - Len(a)]
  BY <1>2, <1>3 DEF ab
<1>5. \A i \in DOMAIN ab :
         \/ i \in DOMAIN a /\ ab[i] = a[i]
         \/ i > Len(a) /\ i - Len(a) \in DOMAIN b /\ ab[i] = b[i - Len(a)]
  BY <1>1, <1>4
<1>6. /\ \A i \in DOMAIN a : i \in DOMAIN ab /\ ab[i] = a[i]
      /\ \A i \in DOMAIN b : Len(a) + i \in DOMAIN ab /\ ab[Len(a) + i] = b[i]
  BY <1>1, <1>4
<1> QED
  BY <1>2, <1>3, <1>5, <1>6 DEF ab

LEMMA JoinedRises ==
    ASSUME NEW a \in Seq(Packets), NEW b \in Seq(Packets), NEW t
    PROVE  Rising(a \o b, t) <=> Rising(a, t) /\ Rising(b, t) /\ Before(a, b, t)
<1> DEFINE ab == a \o b
<1>0. /\ Len(a) \in Nat /\ DOMAIN a = 1 .. Len(a)
      /\ Len(b) \in Nat /\ DOMAIN b = 1 .. Len(b)
  BY LenProperties
<1>1. /\ DOMAIN ab = 1 .. Len(a) + Len(b)
      /\ \A i \in DOMAIN ab :
            \/ i \in DOMAIN a /\ ab[i] = a[i]
            \/ i > Len(a) /\ i - Len(a) \in DOMAIN b /\ ab[i] = b[i - Len(a)]
      /\ \A i \in DOMAIN a : i \in DOMAIN ab /\ ab[i] = a[i]
      /\ \A i \in DOMAIN b : Len(a) + i \in DOMAIN ab /\ ab[Len(a) + i] = b[i]
  BY Joined
<1> HIDE DEF ab
<1>2. ASSUME Rising(ab, t)
      PROVE  Rising(a, t) /\ Rising(b, t) /\ Before(a, b, t)
  <2>1. Rising(a, t)
    BY <1>0, <1>1, <1>2 DEF Rising
  <2>2. Rising(b, t)
    <3> SUFFICES ASSUME NEW i \in DOMAIN b, NEW j \in DOMAIN b, i < j,
                        b[i].type = t, b[j].type = t
                 PROVE  b[i].n < b[j].n
      BY DEF Rising
    <3>1. Len(a) + i < Len(a) + j
      BY <1>0
    <3> QED
      BY <1>1, <1>2, <3>1 DEF Rising
  <2>3. Before(a, b, t)
    <3> SUFFICES ASSUME NEW i \in DOMAIN a, NEW j \in DOMAIN b,
                        a[i].type = t, b[j].type = t
                 PROVE  a[i].n < b[j].n
      BY DEF Before
    <3>1. i < Len(a) + j
      BY <1>0
    <3> QED
      BY <1>1, <1>2, <3>1 DEF Rising
  <2> QED
    BY <2>1, <2>2, <2>3
<1>3. ASSUME Rising(a, t), Rising(b, t), Before(a, b, t)
      PROVE  Rising(ab, t)
  <2> SUFFICES ASSUME NEW i \in DOMAIN ab, NEW j \in DOMAIN ab, i < j,
                      ab[i].type = t, ab[j].type = t
               PROVE  ab[i].n < ab[j].n
    BY DEF Rising
  <2>1. CASE i \in DOMAIN a /\ ab[i] = a[i] /\ j \in DOMAIN a /\ ab[j] = a[j]
    BY <1>3, <2>1 DEF Rising
  <2>2. CASE /\ i \in DOMAIN a /\ ab[i] = a[i]
             /\ j - Len(a) \in DOMAIN b /\ ab[j] = b[j - Len(a)]
    BY <1>3, <2>2 DEF Before
  <2>3. CASE /\ i - Len(a) \in DOMAIN b /\ ab[i] = b[i - Len(a)]
             /\ j - Len(a) \in DOMAIN b /\ ab[j] = b[j - Len(a)]
    <3>1. i - Len(a) < j - Len(a)
      BY <1>0, <1>1
    <3> QED
      BY <1>3, <2>3, <3>1 DEF Rising
  <2>4. ~ (i > Len(a) /\ j \in DOMAIN a)
    BY <1>0, <1>1
  <2> QED
    BY <1>1, <2>1, <2>2, <2>3, <2>4
<1>4. Rising(ab, t) <=> Rising(a, t) /\ Rising(b, t) /\ Before(a, b, t)
  BY <1>2, <1>3
<1> QED
  BY <1>4 DEF ab

LEMMA JoinedBefore ==
    ASSUME NEW a \in Seq(Packets), NEW b \in Seq(Packets), NEW c, NEW t
    PROVE  /\ Before(a \o b, c, t) <=> Before(a, c, t) /\ Before(b, c, t)
           /\ Before(c, a \o b, t) <=> Before(c, a, t) /\ Before(c, b, t)
<1> DEFINE ab == a \o b
<1>1. /\ \A i \in DOMAIN ab :
            \/ i \in DOMAIN a /\ ab[i] = a[i]
            \/ i > Len(a) /\ i - Len(a) \in DOMAIN b /\ ab[i] = b[i - Len(a)]
      /\ \A i \in DOMAIN a : i \in DOMAIN ab /\ ab[i] = a[i]
      /\ \A i \in DOMAIN b : Len(a) + i \in DOMAIN ab /\ ab[Len(a) + i] = b[i]
  BY Joined
<1> HIDE DEF ab
<1>2. Before(ab, c, t) <=> Before(a, c, t) /\ Before(b, c, t)
  BY <1>1 DEF Before
<1>3. Before(c, ab, t) <=> Before(c, a, t) /\ Before(c, b, t)
  BY <1>1 DEF Before
<1> QED
  BY <1>2, <1>3 DEF ab

LEMMA JoinedNewer ==
    ASSUME NEW a \in Seq(Packets), NEW b \in Seq(Packets), NEW old, NEW t
    PROVE  Newer(a \o b, old, t) <=> Newer(a, old, t) /\ Newer(b, old, t)
<1> DEFINE ab == a \o b
<1>1. /\ \A i \in DOMAIN ab :
            \/ i \in DOMAIN a /\ ab[i] = a[i]
            \/ i > Len(a) /\ i - Len(a) \in DOMAIN b /\ ab[i] = b[i - Len(a)]
      /\ \A i \in DOMAIN a : i \in DOMAIN ab /\ ab[i] = a[i]
      /\ \A i \in DOMAIN b : Len(a) + i \in DOMAIN ab /\ ab[Len(a) + i] = b[i]
  BY Joined
<1> HIDE DEF ab
<1>2. Newer(ab, old, t) <=> Newer(a, old, t) /\ Newer(b, old, t)
  BY <1>1 DEF Newer
<1> QED
  BY <1>2 DEF ab

UpTo(s, t, n) == \A i \in DOMAIN s : s[i].type = t => s[i].n <= n

LEMMA JoinedUpTo ==
    ASSUME NEW a \in Seq(Packets), NEW b \in Seq(Packets), NEW t, NEW n
    PROVE  UpTo(a \o b, t, n) <=> UpTo(a, t, n) /\ UpTo(b, t, n)
<1> DEFINE ab == a \o b
<1>1. /\ \A i \in DOMAIN ab :
            \/ i \in DOMAIN a /\ ab[i] = a[i]
            \/ i > Len(a) /\ i - Len(a) \in DOMAIN b /\ ab[i] = b[i - Len(a)]
      /\ \A i \in DOMAIN a : i \in DOMAIN ab /\ ab[i] = a[i]
      /\ \A i \in DOMAIN b : Len(a) + i \in DOMAIN ab /\ ab[Len(a) + i] = b[i]
  BY Joined
<1> HIDE DEF ab
<1>2. UpTo(ab, t, n) <=> UpTo(a, t, n) /\ UpTo(b, t, n)
  BY <1>1 DEF UpTo
<1> QED
  BY <1>2 DEF ab

(* A list with nothing of a type adds nothing to what is said of that type. *)
LEMMA JoinedHolds ==
    ASSUME NEW a \in Seq(Packets), NEW b \in Seq(Packets), NEW t
    PROVE  Holds(a \o b, t) <=> Holds(a, t) \/ Holds(b, t)
<1> DEFINE ab == a \o b
<1>1. /\ \A i \in DOMAIN ab :
            \/ i \in DOMAIN a /\ ab[i] = a[i]
            \/ i > Len(a) /\ i - Len(a) \in DOMAIN b /\ ab[i] = b[i - Len(a)]
      /\ \A i \in DOMAIN a : i \in DOMAIN ab /\ ab[i] = a[i]
      /\ \A i \in DOMAIN b : Len(a) + i \in DOMAIN ab /\ ab[Len(a) + i] = b[i]
  BY Joined
<1> HIDE DEF ab
<1>2. Holds(ab, t) <=> Holds(a, t) \/ Holds(b, t)
  BY <1>1 DEF Holds
<1> QED
  BY <1>2 DEF ab

LEMMA Absent ==
    ASSUME NEW a, NEW t, ~ Holds(a, t)
    PROVE  /\ Rising(a, t)
           /\ \A b : Before(a, b, t) /\ Before(b, a, t)
           /\ \A old : Newer(a, old, t)
           /\ \A n : UpTo(a, t, n)
BY DEF Holds, Rising, Before, Newer, UpTo

LEMMA EmptyHoldsNone ==
    ASSUME NEW t
    PROVE  << >> \in Seq(Packets) /\ ~ Holds(<< >>, t)
<1>1. << >> \in Seq(Packets) /\ Len(<< >>) = 0
  BY EmptySeq
<1>2. DOMAIN << >> = {}
  OBVIOUS
<1> QED
  BY <1>1, <1>2 DEF Holds

(* A list is what a cut leaves on its two sides.                           *)
LEMMA Cut ==
    ASSUME NEW s \in Seq(Packets), NEW n \in 0 .. Len(s)
    PROVE  /\ SubSeq(s, 1, n) \in Seq(Packets)
           /\ SubSeq(s, n + 1, Len(s)) \in Seq(Packets)
           /\ s = SubSeq(s, 1, n) \o SubSeq(s, n + 1, Len(s))
<1>1. Len(s) \in Nat /\ n \in Int /\ n + 1 \in Int /\ \A i \in 1 .. Len(s) : s[i] \in Packets
  BY LenProperties, ElementOfSeq
<1>2. SubSeq(s, 1, n) \in Seq(Packets)
  BY <1>1, SubSeqProperties
<1>3. SubSeq(s, n + 1, Len(s)) \in Seq(Packets)
  BY <1>1, SubSeqProperties
<1>4. SubSeq(s, 1, n) \o SubSeq(s, n + 1, Len(s)) = SubSeq(s, 1, Len(s))
  <2>1. 1 \in 1 .. Len(s) + 1 /\ n \in 1 - 1 .. Len(s) /\ Len(s) \in n .. Len(s)
    BY <1>1
  <2> QED
    BY <2>1, ConcatAdjacentSubSeq, Zenon
<1>5. SubSeq(s, 1, Len(s)) = s
  BY SubSeqFull
<1> QED
  BY <1>2, <1>3, <1>4, <1>5

LEMMA HeadAndTail ==
    ASSUME NEW s \in Seq(Packets), s # << >>
    PROVE  /\ Head(s) \in Packets /\ Tail(s) \in Seq(Packets)
           /\ s = << Head(s) >> \o Tail(s)
           /\ \A i \in DOMAIN s : s[i] = Head(s) \/ \E j \in DOMAIN Tail(s) : Tail(s)[j] = s[i]
<1>1. Len(s) \in Nat /\ Len(s) >= 1 /\ DOMAIN s = 1 .. Len(s)
  BY LenProperties, EmptySeq
<1>2. /\ Head(s) = s[1] /\ Tail(s) \in Seq(Packets) /\ Len(Tail(s)) = Len(s) - 1
      /\ \A i \in 1 .. Len(Tail(s)) : Tail(s)[i] = s[i + 1]
  BY HeadTailProperties
<1>3. Head(s) \in Packets
  BY <1>1, <1>2, ElementOfSeq
<1>4. s = << Head(s) >> \o Tail(s)
  <2>1. 1 \in 1 .. Len(s) /\ Len(s) \in 1 .. Len(s) /\ 1 + 1 = 2
    BY <1>1
  <2>2. SubSeq(s, 1, Len(s)) = << s[1] >> \o SubSeq(s, 1 + 1, Len(s))
    BY <2>1, SubSeqRecursiveFirst
  <2>3. Tail(s) = SubSeq(s, 2, Len(s)) /\ s = SubSeq(s, 1, Len(s))
    BY TailIsSubSeq, SubSeqFull
  <2> QED
    BY <1>2, <2>1, <2>2, <2>3
<1>5. ASSUME NEW i \in DOMAIN s, i # 1
      PROVE  i - 1 \in DOMAIN Tail(s) /\ Tail(s)[i - 1] = s[i]
  <2>1. i - 1 \in 1 .. Len(Tail(s)) /\ (i - 1) + 1 = i
    BY <1>1, <1>2, <1>5
  <2>2. DOMAIN Tail(s) = 1 .. Len(Tail(s))
    BY <1>2, LenProperties
  <2> QED
    BY <1>2, <2>1, <2>2
<1> QED
  BY <1>2, <1>3, <1>4, <1>5

----------------------------------------------------------------------------
(* What holds of a type t: h, r and f are the codec's list, the buffer and  *)
(* the stream, old the packets handed on and n how many were sent.         *)
Ordered(h, r, f, old, n, t) ==
    /\ Rising(h, t) /\ Rising(r, t) /\ Rising(f, t)
    /\ Before(h, r, t) /\ Before(h, f, t) /\ Before(r, f, t)
    /\ Newer(h, old, t) /\ Newer(r, old, t) /\ Newer(f, old, t)
    /\ UpTo(h, t, n) /\ UpTo(r, t, n) /\ UpTo(f, t, n)
    /\ \A p \in old[t] : p.n <= n

LEMMA OrderedWaits ==
    ASSUME NEW h \in Seq(Packets), NEW r \in Seq(Packets), NEW f \in Seq(Packets),
           NEW old, NEW n, NEW t, Ordered(h, r, f, old, n, t)
    PROVE  Rising(h \o r \o f, t) /\ Newer(h \o r \o f, old, t)
<1>1. h \o r \in Seq(Packets)
  BY Joined
<1>2. Rising(h \o r, t) /\ Before(h \o r, f, t) /\ Newer(h \o r, old, t)
  BY JoinedRises, JoinedBefore, JoinedNewer DEF Ordered
<1> QED
  BY <1>1, <1>2, JoinedRises, JoinedNewer DEF Ordered

(* A recv moves the front of the stream to the buffer.                     *)
LEMMA TakeKeepsOrder ==
    ASSUME NEW h, NEW r \in Seq(Packets), NEW a \in Seq(Packets), NEW b \in Seq(Packets),
           NEW old, NEW n, NEW t, Ordered(h, r, a \o b, old, n, t)
    PROVE  Ordered(h, r \o a, b, old, n, t)
<1>1. /\ Rising(a, t) /\ Rising(b, t) /\ Before(a, b, t)
      /\ Before(h, a, t) /\ Before(h, b, t) /\ Before(r, a, t) /\ Before(r, b, t)
      /\ Newer(a, old, t) /\ Newer(b, old, t) /\ UpTo(a, t, n) /\ UpTo(b, t, n)
  BY JoinedRises, JoinedBefore, JoinedNewer, JoinedUpTo DEF Ordered
<1>2. /\ Rising(r \o a, t) /\ Before(h, r \o a, t) /\ Before(r \o a, b, t)
      /\ Newer(r \o a, old, t) /\ UpTo(r \o a, t, n)
  BY <1>1, JoinedRises, JoinedBefore, JoinedNewer, JoinedUpTo DEF Ordered
<1> QED
  BY <1>1, <1>2 DEF Ordered

(* A recv from the other stream moves nothing of the type.                 *)
LEMMA TakeOfOthersKeepsOrder ==
    ASSUME NEW h, NEW r \in Seq(Packets), NEW a \in Seq(Packets), NEW f,
           NEW old, NEW n, NEW t, ~ Holds(a, t), Ordered(h, r, f, old, n, t)
    PROVE  Ordered(h, r \o a, f, old, n, t)
<1>1. /\ Rising(a, t) /\ Before(h, a, t) /\ Before(r, a, t) /\ Before(a, f, t)
      /\ Newer(a, old, t) /\ UpTo(a, t, n)
  BY Absent
<1>2. /\ Rising(r \o a, t) /\ Before(h, r \o a, t) /\ Before(r \o a, f, t)
      /\ Newer(r \o a, old, t) /\ UpTo(r \o a, t, n)
  BY <1>1, JoinedRises, JoinedBefore, JoinedNewer, JoinedUpTo DEF Ordered
<1> QED
  BY <1>2 DEF Ordered

(* A decoding that fails moves the front of the buffer to the codec's list  *)
(* and drops the rest.                                                      *)
LEMMA FailureKeepsOrder ==
    ASSUME NEW h \in Seq(Packets), NEW a \in Seq(Packets), NEW b \in Seq(Packets), NEW f,
           NEW old, NEW n, NEW t, Ordered(h, a \o b, f, old, n, t)
    PROVE  Ordered(h \o a, << >>, f, old, n, t)
<1>1. /\ Rising(a, t) /\ Before(h, a, t) /\ Before(a, f, t)
      /\ Newer(a, old, t) /\ UpTo(a, t, n)
  BY JoinedRises, JoinedBefore, JoinedNewer, JoinedUpTo DEF Ordered
<1>2. /\ Rising(h \o a, t) /\ Before(h \o a, f, t)
      /\ Newer(h \o a, old, t) /\ UpTo(h \o a, t, n)
  BY <1>1, JoinedRises, JoinedBefore, JoinedNewer, JoinedUpTo DEF Ordered
<1>3. ~ Holds(<< >>, t)
  BY EmptyHoldsNone
<1> QED
  BY <1>2, <1>3, Absent DEF Ordered


(* A packet the robot sends is newer than all of its type before.          *)
LEMMA SendKeepsOrder ==
    ASSUME NEW h, NEW r, NEW f \in Seq(Packets), NEW old, NEW t, NEW n \in Nat,
           h \in Seq(Packets), r \in Seq(Packets), old[t] \subseteq Packets,
           Ordered(h, r, f, old, n, t), NEW p \in Packets, p.n = n + 1
    PROVE  Ordered(h, r, f \o << p >>, old, n + 1, t)
<1> DEFINE one == << p >>
<1>1. one \in Seq(Packets) /\ DOMAIN one = {1} /\ one[1] = p
  OBVIOUS
<1> HIDE DEF one
<1>2. \A s \in Seq(Packets) : UpTo(s, t, n) => UpTo(s, t, n + 1) /\ Before(s, one, t)
  <2> SUFFICES ASSUME NEW s \in Seq(Packets), UpTo(s, t, n), NEW i \in DOMAIN s,
                      s[i].type = t
               PROVE  s[i].n <= n + 1 /\ s[i].n < p.n
    BY <1>1 DEF UpTo, Before
  <2>1. s[i].n \in Nat /\ s[i].n <= n
    BY Elements DEF UpTo
  <2> QED
    BY <2>1
<1>3. Rising(one, t) /\ UpTo(one, t, n + 1)
  BY <1>1 DEF Rising, UpTo
<1>4. \A q \in old[t] : q.n <= n + 1 /\ q.n < p.n
  <2> SUFFICES ASSUME NEW q \in old[t] PROVE q.n <= n + 1 /\ q.n < p.n
    OBVIOUS
  <2>1. q.n \in Nat /\ q.n <= n
    BY PacketFields DEF Ordered
  <2> QED
    BY <2>1
<1>5. Newer(one, old, t)
  BY <1>1, <1>4 DEF Newer
<1>6. /\ Rising(f \o one, t) /\ Before(h, f \o one, t) /\ Before(r, f \o one, t)
      /\ Newer(f \o one, old, t) /\ UpTo(f \o one, t, n + 1)
  BY <1>1, <1>2, <1>3, <1>5, JoinedRises, JoinedBefore, JoinedNewer, JoinedUpTo DEF Ordered
<1>7. Ordered(h, r, f \o one, old, n + 1, t)
  BY <1>2, <1>4, <1>6 DEF Ordered
<1> QED
  BY <1>7 DEF one

LEMMA SendOfOthersKeepsOrder ==
    ASSUME NEW h, NEW r, NEW f \in Seq(Packets), NEW old, NEW t, NEW n,
           Ordered(h, r, f, old, n, t), NEW p \in Packets, p.type # t
    PROVE  Ordered(h, r, f \o << p >>, old, n, t)
<1> DEFINE one == << p >>
<1>1. one \in Seq(Packets) /\ ~ Holds(one, t)
  BY DEF Holds
<1> HIDE DEF one
<1>2. /\ Rising(one, t) /\ Before(h, one, t) /\ Before(r, one, t) /\ Before(f, one, t)
      /\ Newer(one, old, t) /\ UpTo(one, t, n)
  BY <1>1, Absent
<1>3. /\ Rising(f \o one, t) /\ Before(h, f \o one, t) /\ Before(r, f \o one, t)
      /\ Newer(f \o one, old, t) /\ UpTo(f \o one, t, n)
  BY <1>1, <1>2, JoinedRises, JoinedBefore, JoinedNewer, JoinedUpTo DEF Ordered
<1>4. Ordered(h, r, f \o one, old, n, t)
  BY <1>3 DEF Ordered
<1> QED
  BY <1>4 DEF one

(* A decoding moves the buffer to the codec's list.                        *)
LEMMA DecodeKeepsOrder ==
    ASSUME NEW h \in Seq(Packets), NEW r \in Seq(Packets), NEW f, NEW old,
           NEW t, NEW n, Ordered(h, r, f, old, n, t)
    PROVE  Ordered(h \o r, << >>, f, old, n, t)
<1>1. /\ Rising(h \o r, t) /\ Before(h \o r, f, t)
      /\ Newer(h \o r, old, t) /\ UpTo(h \o r, t, n)
  BY JoinedRises, JoinedBefore, JoinedNewer, JoinedUpTo DEF Ordered
<1> QED
  BY <1>1, EmptyHoldsNone, Absent DEF Ordered

(* What storing the first packet of a list does for its type and others.   *)
LEMMA SetKeepsOrder ==
    ASSUME NEW s \in Seq(Packets), s # << >>, NEW f, NEW t \in Types, NEW n,
           NEW old, NEW new, Ordered(s, << >>, f, old, n, t),
           IF t = Head(s).type THEN new[t] = {Head(s)} ELSE new[t] = old[t]
    PROVE  Ordered(Tail(s), << >>, f, new, n, t)
<1> DEFINE one == << Head(s) >>
           b == Tail(s)
<1>1. /\ one \in Seq(Packets) /\ DOMAIN one = {1} /\ one[1] = Head(s)
      /\ b \in Seq(Packets) /\ s = one \o b
  BY HeadAndTail
<1> HIDE DEF one, b
<1>2. /\ Rising(b, t) /\ Before(one, b, t) /\ Before(one, f, t) /\ Before(b, f, t)
      /\ Newer(b, old, t) /\ UpTo(b, t, n) /\ UpTo(one, t, n)
  BY <1>1, JoinedRises, JoinedBefore, JoinedNewer, JoinedUpTo DEF Ordered
<1>3. Newer(b, new, t) /\ Newer(f, new, t) /\ \A p \in new[t] : p.n <= n
  BY <1>1, <1>2 DEF Ordered, Newer, Before, UpTo
<1>4. Ordered(b, << >>, f, new, n, t)
  BY <1>2, <1>3, EmptyHoldsNone, Absent DEF Ordered
<1> QED
  BY <1>4 DEF b

----------------------------------------------------------------------------
(* The types.                                                              *)
LEMMA TakeTypes ==
    ASSUME TypeOK, Take
    PROVE  response' \in Seq(Packets) /\ inflight' \in [Streams -> Seq(Packets)]
<1>1. PICK n \in 1 .. Len(inflight[stream]) :
          /\ response' = response \o SubSeq(inflight[stream], 1, n)
          /\ inflight' = [inflight EXCEPT ![stream] = SubSeq(@, n + 1, Len(@))]
  BY DEF Take
<1>2. inflight[stream] \in Seq(Packets) /\ response \in Seq(Packets)
      /\ stream \in Streams /\ inflight \in [Streams -> Seq(Packets)]
  BY DEF TypeOK
<1>3. n \in 0 .. Len(inflight[stream])
  BY <1>2, LenProperties
<1>4. /\ SubSeq(inflight[stream], 1, n) \in Seq(Packets)
      /\ SubSeq(inflight[stream], n + 1, Len(inflight[stream])) \in Seq(Packets)
  BY <1>2, <1>3, Cut
<1> QED
  BY <1>1, <1>2, <1>4, Joined

LEMMA DecodeDoneTypes ==
    ASSUME TypeOK, DecodeDone
    PROVE  /\ up' \in BOOLEAN /\ made' \in [Types -> 0 .. MaxPackets]
           /\ inflight' \in [Streams -> Seq(Packets)]
           /\ stage' \in {"recv", "pause"} /\ stream' \in Streams
           /\ response' \in Seq(Packets)
           /\ wheel' \in {0, 1} /\ ticks' \in Nat
<1>1. UNCHANGED <<up, inflight, made, wheel, ticks>>
  BY DEF DecodeDone, net, odo
<1>2. stage' \in {"recv", "pause"} /\ stream' \in Streams
  BY DEF DecodeDone, Streams
<1>3. response' \in Seq(Packets)
  BY EmptyHoldsNone DEF DecodeDone
<1> QED
  BY <1>1, <1>2, <1>3 DEF TypeOK

LEMMA OneMore ==
    ASSUME NEW S, NEW m \in Nat, NEW f \in [S -> 0 .. m], NEW s \in S, f[s] < m
    PROVE  [f EXCEPT ![s] = f[s] + 1] \in [S -> 0 .. m] /\ f[s] + 1 \in 1 .. m
<1>1. f[s] \in 0 .. m
  OBVIOUS
<1>2. f[s] + 1 \in 1 .. m /\ f[s] + 1 \in 0 .. m
  BY <1>1
<1> QED
  BY <1>2

LEMMA AddedTo ==
    ASSUME NEW S, NEW f \in [S -> Nat], NEW s \in S, NEW m \in Nat
    PROVE  [f EXCEPT ![s] = @ + m] \in [S -> Nat]
<1>1. f[s] + m \in Nat
  OBVIOUS
<1> QED
  BY <1>1

(* A packet put in the place of the last one of its type.                  *)
LEMMA StoredTypes ==
    ASSUME NEW p \in Packets, NEW old \in [Types -> SUBSET Packets],
           \A t \in Types : \A q, r \in old[t] : q.type = t /\ q = r
    PROVE  /\ [old EXCEPT ![p.type] = {p}] \in [Types -> SUBSET Packets]
           /\ \A t \in Types : \A q, r \in [old EXCEPT ![p.type] = {p}][t] :
                 q.type = t /\ q = r
<1>1. p.type \in Types /\ {p} \in SUBSET Packets
  BY PacketFields
<1>2. \A t \in Types :
         [old EXCEPT ![p.type] = {p}][t] = IF t = p.type THEN {p} ELSE old[t]
  BY <1>1
<1> QED
  BY <1>1, <1>2

LEMMA TypeStep ==
    ASSUME TypeOK, [Next]_vars
    PROVE  TypeOK'
<1> USE TelemetryAssumption
<1> USE DEF TypeOK, net, reader, stats, codec, odo
<1>1. ASSUME NEW t \in Types, RobotSends(t) PROVE TypeOK'
  <2>1. PICK tick \in Ticks(t) :
            inflight' = [inflight EXCEPT ![StreamOf[t]] =
                            Append(@, [type |-> t, n |-> made'[t], tick |-> tick])]
    BY <1>1 DEF RobotSends
  <2>2. made[t] \in Nat /\ made' = [made EXCEPT ![t] = made[t] + 1] /\ made[t] < MaxPackets
    BY <1>1 DEF RobotSends
  <2>3. made' \in [Types -> 0 .. MaxPackets] /\ made'[t] \in 1 .. MaxPackets
    <3>1. made \in [Types -> 0 .. MaxPackets] /\ MaxPackets \in Nat
      OBVIOUS
    <3>2. /\ [made EXCEPT ![t] = made[t] + 1] \in [Types -> 0 .. MaxPackets]
          /\ made[t] + 1 \in 1 .. MaxPackets
      BY <2>2, <3>1, OneMore
    <3>3. made'[t] = made[t] + 1
      BY <2>2, <3>1
    <3> QED
      BY <2>2, <3>2, <3>3
  <2>4. [type |-> t, n |-> made'[t], tick |-> tick] \in Packets
    BY <2>3 DEF Packets, Ticks
  <2>5. inflight' \in [Streams -> Seq(Packets)]
    BY <2>1, <2>4
  <2> QED
    BY <1>1, <2>3, <2>5 DEF RobotSends
<1>2. CASE Disconnect
  BY <1>2, EmptyHoldsNone DEF Disconnect
<1>3. CASE Reconnect
  BY <1>3 DEF Reconnect
<1>4. CASE Recv \/ Drain
  BY <1>4, TakeTypes DEF Recv, Drain
<1>5. CASE Drained \/ ReadFails \/ Resume
  BY <1>5 DEF Drained, ReadFails, Resume, Streams
<1>6. ASSUME NEW header \in BOOLEAN, Decode(header) PROVE TypeOK'
  <2> DEFINE s == held \o response
  <2>1. s \in Seq(Packets) /\ Len(s) \in Nat
    BY Joined, LenProperties
  <2>2. held' = s /\ rest' = s /\ stage' = "set"
    BY <1>6 DEF Decode
  <2>3. received' = [received EXCEPT ![stream] = @ + Len(s)]
    BY <1>6, <2>2 DEF Decode
  <2>4. lost' = lost \/ lost' = [lost EXCEPT ![stream] = @ + Len(s)]
    BY <1>6, <2>2 DEF Decode
  <2> HIDE DEF s
  <2>5. received' \in [Streams -> Nat] /\ lost' \in [Streams -> Nat]
    <3>1. /\ received \in [Streams -> Nat] /\ lost \in [Streams -> Nat]
          /\ stream \in Streams
      OBVIOUS
    <3>2. \A f \in [Streams -> Nat] :
             [f EXCEPT ![stream] = @ + Len(s)] \in [Streams -> Nat]
      BY <2>1, <3>1, AddedTo
    <3> QED
      BY <2>3, <2>4, <3>1, <3>2
  <2> QED
    BY <1>6, <2>1, <2>2, <2>5 DEF Decode
<1>10. CASE Set
  <2>1. /\ Head(rest) \in Packets /\ Tail(rest) \in Seq(Packets)
        /\ last' = [last EXCEPT ![Head(rest).type] = {Head(rest)}]
        /\ rest' = Tail(rest)
    BY <1>10, HeadAndTail DEF Set, Stored
  <2>3. /\ last' \in [Types -> SUBSET Packets]
        /\ \A t \in Types : \A p, q \in last'[t] : p.type = t /\ p = q
    <3>1. /\ last \in [Types -> SUBSET Packets]
          /\ \A t \in Types : \A p, q \in last[t] : p.type = t /\ p = q
      OBVIOUS
    <3> DEFINE new == [last EXCEPT ![Head(rest).type] = {Head(rest)}]
    <3>2. /\ new \in [Types -> SUBSET Packets]
          /\ \A t \in Types : \A p, q \in new[t] : p.type = t /\ p = q
      BY <2>1, <3>1, StoredTypes
    <3>3. last' = new
      BY <2>1
    <3> HIDE DEF new
    <3> QED
      BY <3>2, <3>3, Zenon
  <2> QED
    BY <1>10, <2>1, <2>3 DEF Set
<1>11. CASE Decoded
  BY <1>11, DecodeDoneTypes, EmptyHoldsNone DEF Decoded
<1>7. CASE DecodeFails
  <2>1. PICK n \in 0 .. Len(response) : held' = held \o SubSeq(response, 1, n)
    BY <1>7 DEF DecodeFails
  <2>2. held' \in Seq(Packets)
    BY <2>1, Cut, Joined
  <2>3. bad' = [bad EXCEPT ![stream] = bad[stream] + 1] /\ bad[stream] < MaxBad
    BY <1>7, Zenon DEF DecodeFails
  <2>4. bad' \in [Streams -> 0 .. MaxBad]
    <3>1. bad \in [Streams -> 0 .. MaxBad] /\ MaxBad \in Nat /\ stream \in Streams
      OBVIOUS
    <3> QED
      BY <2>3, <3>1, OneMore
  <2>5. DecodeDone /\ UNCHANGED <<rest, last, received, lost>>
    BY <1>7 DEF DecodeFails
  <2> QED
    BY <2>2, <2>4, <2>5, DecodeDoneTypes
<1>8. CASE OdoUpdate
  <2>1. PICK p \in last[Odo] : wheel' = p.tick
    BY <1>8 DEF OdoUpdate
  <2>2. wheel' \in {0, 1}
    BY <2>1, PacketFields
  <2> QED
    BY <1>8, <2>2 DEF OdoUpdate
<1>9. CASE UNCHANGED vars
  BY <1>9 DEF vars
<1> QED
  BY <1>1, <1>2, <1>3, <1>4, <1>5, <1>6, <1>7, <1>8, <1>9, <1>10, <1>11 DEF Next

LEMMA TypeInit == Init => TypeOK
BY TelemetryAssumption, EmptyHoldsNone DEF Init, TypeOK, Streams

(* THEOREM: the registers keep their types, and the last packet of a type   *)
(* is one packet of that type, whatever fails.                             *)
THEOREM TypeCorrect == Spec => []TypeOK
BY TypeInit, TypeStep, PTL DEF Spec

----------------------------------------------------------------------------

(* The inductive invariant: a stream carries the types that are sent on it, *)
(* and of every type all packets between the robot and the units are in the *)
(* order in which they were sent.                                          *)
Routed ==
    \A st \in Streams, t \in Types : StreamOf[t] # st => ~ Holds(inflight[st], t)

\* While the codec's list is stored, the buffer is done with.
Codec  == IF stage = "set" THEN rest ELSE held
Buffer == IF stage = "set" THEN << >> ELSE response

InOrder ==
    \A t \in Types : Ordered(Codec, Buffer, inflight[StreamOf[t]], last, made[t], t)

LEMMA ListTypes ==
    ASSUME TypeOK
    PROVE  /\ held \in Seq(Packets) /\ rest \in Seq(Packets) /\ response \in Seq(Packets)
           /\ Codec \in Seq(Packets) /\ Buffer \in Seq(Packets)
BY EmptyHoldsNone DEF TypeOK, Codec, Buffer

LEMMA TakeStep ==
    ASSUME TypeOK, Routed, InOrder, Take, stage # "set", stage' # "set",
           UNCHANGED <<held, last, made>>
    PROVE  Routed' /\ InOrder'
<1> DEFINE f == inflight[stream]
<1>1. PICK n \in 1 .. Len(f) :
          /\ response' = response \o SubSeq(f, 1, n)
          /\ inflight' = [inflight EXCEPT ![stream] = SubSeq(f, n + 1, Len(f))]
  BY DEF Take
<1> DEFINE a == SubSeq(f, 1, n)
           b == SubSeq(f, n + 1, Len(f))
<1>2. /\ f \in Seq(Packets) /\ response \in Seq(Packets)
      /\ inflight \in [Streams -> Seq(Packets)] /\ stream \in Streams
  BY DEF TypeOK
<1>3. n \in 0 .. Len(f)
  BY <1>2, LenProperties
<1>4. a \in Seq(Packets) /\ b \in Seq(Packets) /\ f = a \o b
  BY <1>2, <1>3, Cut
<1> HIDE DEF a, b, f
<1>0. /\ Codec = held /\ Buffer = response
      /\ Codec' = held' /\ Buffer' = response'
  BY DEF Codec, Buffer
<1>5. /\ response' = response \o a
      /\ inflight'[stream] = b /\ \A st \in Streams : st # stream => inflight'[st] = inflight[st]
  BY <1>1, <1>2 DEF a, b
<1>6. ASSUME NEW t \in Types, StreamOf[t] # stream
      PROVE  ~ Holds(a, t) /\ ~ Holds(b, t)
  <2>1. ~ Holds(f, t)
    BY <1>2, <1>6 DEF Routed, f
  <2> QED
    BY <1>4, <2>1, JoinedHolds
<1>7. Routed'
  BY <1>5, <1>6 DEF Routed
<1>8. ASSUME NEW t \in Types
      PROVE  Ordered(held, response \o a, inflight'[StreamOf[t]], last, made[t], t)
  <2>0. StreamOf[t] \in Streams
    BY TelemetryAssumption
  <2>1. CASE StreamOf[t] = stream
    <3>1. Ordered(held, response, a \o b, last, made[t], t)
      BY <1>0, <1>4, <2>1 DEF InOrder, f
    <3> QED
      BY <1>2, <1>4, <1>5, <2>1, <3>1, TakeKeepsOrder
  <2>2. CASE StreamOf[t] # stream
    <3>1. Ordered(held, response, inflight[StreamOf[t]], last, made[t], t)
      BY <1>0 DEF InOrder
    <3> QED
      BY <1>2, <1>4, <1>5, <1>6, <2>0, <2>2, <3>1, TakeOfOthersKeepsOrder
  <2> QED
    BY <2>1, <2>2
<1>9. InOrder'
  BY <1>0, <1>5, <1>8 DEF InOrder
<1> QED
  BY <1>7, <1>9

LEMMA SendStep ==
    ASSUME TypeOK, Routed, InOrder, NEW u \in Types, RobotSends(u)
    PROVE  Routed' /\ InOrder'
<1>1. PICK tick \in Ticks(u) :
          inflight' = [inflight EXCEPT ![StreamOf[u]] =
                          Append(@, [type |-> u, n |-> made'[u], tick |-> tick])]
  BY DEF RobotSends
<1> DEFINE p == [type |-> u, n |-> made'[u], tick |-> tick]
           f == inflight[StreamOf[u]]
<1>2. /\ Codec \in Seq(Packets) /\ Buffer \in Seq(Packets) /\ f \in Seq(Packets)
      /\ inflight \in [Streams -> Seq(Packets)] /\ StreamOf[u] \in Streams
      /\ made \in [Types -> 0 .. MaxPackets] /\ \A t \in Types : last[t] \subseteq Packets
  BY ListTypes, TelemetryAssumption DEF TypeOK
<1>3. /\ made[u] < MaxPackets /\ made' = [made EXCEPT ![u] = made[u] + 1]
      /\ UNCHANGED <<Codec, Buffer, last>>
  BY DEF RobotSends, reader, codec, Codec, Buffer
<1>4. made'[u] = made[u] + 1 /\ made'[u] \in 1 .. MaxPackets /\ made[u] \in Nat
  BY <1>2, <1>3, TelemetryAssumption
<1>5. p \in Packets /\ p.type = u /\ p.n = made[u] + 1
  BY <1>4 DEF Packets, Ticks
<1> HIDE DEF p, f
<1>6. Append(f, p) = f \o << p >>
  BY <1>2, <1>5, AppendIsConcat
<1>7. /\ inflight'[StreamOf[u]] = f \o << p >>
      /\ \A st \in Streams : st # StreamOf[u] => inflight'[st] = inflight[st]
  BY <1>1, <1>2, <1>6 DEF p, f
<1>8. Routed'
  <2> SUFFICES ASSUME NEW st \in Streams, NEW t \in Types, StreamOf[t] # st
               PROVE  ~ Holds(inflight'[st], t)
    BY DEF Routed
  <2>1. CASE st # StreamOf[u]
    BY <1>7, <2>1 DEF Routed
  <2>2. CASE st = StreamOf[u]
    <3>1. << p >> \in Seq(Packets) /\ ~ Holds(<< p >>, t)
      BY <1>5, <2>2 DEF Holds
    <3>2. ~ Holds(f, t)
      BY <2>2 DEF Routed, f
    <3>3. f \in Seq(Packets)
      BY <1>2
    <3>4. ~ Holds(f \o << p >>, t)
      BY <3>1, <3>2, <3>3, JoinedHolds
    <3>5. inflight'[st] = f \o << p >>
      BY <1>7, <2>2
    <3> QED
      BY <3>4, <3>5
  <2> QED
    BY <2>1, <2>2
<1>9. ASSUME NEW t \in Types
      PROVE  Ordered(Codec, Buffer, inflight'[StreamOf[t]], last, made'[t], t)
  <2>0. /\ StreamOf[t] \in Streams /\ last[t] \subseteq Packets
        /\ Ordered(Codec, Buffer, inflight[StreamOf[t]], last, made[t], t)
    BY <1>2, TelemetryAssumption DEF InOrder
  <2>1. CASE t = u
    <3>1. Ordered(Codec, Buffer, f \o << p >>, last, made[u] + 1, u)
      BY <1>2, <1>4, <1>5, <2>0, <2>1, SendKeepsOrder DEF f
    <3> QED
      BY <1>4, <1>7, <2>1, <3>1
  <2>2. CASE t # u /\ StreamOf[t] = StreamOf[u]
    <3>1. Ordered(Codec, Buffer, f \o << p >>, last, made[t], t)
      BY <1>2, <1>5, <2>0, <2>2, SendOfOthersKeepsOrder DEF f
    <3>2. made'[t] = made[t]
      BY <1>2, <1>3, <2>2
    <3> QED
      BY <1>7, <2>2, <3>1, <3>2
  <2>3. CASE StreamOf[t] # StreamOf[u]
    <3>1. made'[t] = made[t]
      BY <1>2, <1>3, <2>3
    <3> QED
      BY <1>7, <2>0, <2>3, <3>1
  <2> QED
    BY <2>1, <2>2, <2>3
<1>10. InOrder'
  BY <1>3, <1>9 DEF InOrder
<1> QED
  BY <1>8, <1>10

LEMMA DecodeStep ==
    ASSUME TypeOK, Routed, InOrder, NEW header, Decode(header)
    PROVE  Routed' /\ InOrder'
<1>1. /\ Codec = held /\ Buffer = response
      /\ Codec' = held \o response /\ Buffer' = << >>
      /\ UNCHANGED <<inflight, made, last>>
  BY DEF Decode, Codec, Buffer, net
<1>2. ASSUME NEW t \in Types
      PROVE  Ordered(held \o response, << >>, inflight[StreamOf[t]], last, made[t], t)
  BY <1>1, ListTypes, DecodeKeepsOrder DEF InOrder
<1> QED
  BY <1>1, <1>2 DEF Routed, InOrder

LEMMA SetStep ==
    ASSUME TypeOK, Routed, InOrder, Set
    PROVE  Routed' /\ InOrder'
<1>1. /\ Codec = rest /\ Buffer = << >> /\ rest # << >> /\ rest \in Seq(Packets)
      /\ Codec' = Tail(rest) /\ Buffer' = << >>
      /\ UNCHANGED <<inflight, made>>
  BY ListTypes DEF Set, Codec, Buffer, net
<1>2. ASSUME NEW t \in Types
      PROVE  Ordered(Tail(rest), << >>, inflight[StreamOf[t]], last', made[t], t)
  <2>1. Ordered(rest, << >>, inflight[StreamOf[t]], last, made[t], t)
    BY <1>1 DEF InOrder
  <2>2. IF t = Head(rest).type THEN last'[t] = {Head(rest)} ELSE last'[t] = last[t]
    BY DEF Set, Stored, TypeOK
  <2> QED
    BY <1>1, <2>1, <2>2, SetKeepsOrder
<1> QED
  BY <1>1, <1>2 DEF Routed, InOrder

LEMMA DecodedStep ==
    ASSUME TypeOK, Routed, InOrder, Decoded
    PROVE  Routed' /\ InOrder'
<1>1. /\ Codec = << >> /\ Buffer = << >> /\ Codec' = << >> /\ Buffer' = << >>
      /\ UNCHANGED <<inflight, made, last>>
  BY DEF Decoded, DecodeDone, Codec, Buffer, net
<1> QED
  BY <1>1 DEF Routed, InOrder

LEMMA DecodeFailsStep ==
    ASSUME TypeOK, Routed, InOrder, DecodeFails
    PROVE  Routed' /\ InOrder'
<1>1. /\ Codec = held /\ Buffer = response /\ Codec' = held' /\ Buffer' = << >>
      /\ UNCHANGED <<inflight, made, last>>
  BY DEF DecodeFails, DecodeDone, Codec, Buffer, net
<1>2. PICK n \in 0 .. Len(response) : held' = held \o SubSeq(response, 1, n)
  BY DEF DecodeFails
<1> DEFINE a == SubSeq(response, 1, n)
           b == SubSeq(response, n + 1, Len(response))
<1>3. /\ held \in Seq(Packets) /\ a \in Seq(Packets) /\ b \in Seq(Packets)
      /\ response = a \o b
  BY Cut DEF TypeOK
<1>4. held' = held \o a
  BY <1>2
<1> HIDE DEF a, b
<1>5. ASSUME NEW t \in Types
      PROVE  Ordered(held \o a, << >>, inflight[StreamOf[t]], last, made[t], t)
  <2>1. Ordered(held, a \o b, inflight[StreamOf[t]], last, made[t], t)
    BY <1>1, <1>3 DEF InOrder
  <2> QED
    BY <1>3, <2>1, FailureKeepsOrder
<1> QED
  BY <1>1, <1>4, <1>5 DEF Routed, InOrder

LEMMA DisconnectStep ==
    ASSUME InOrder, Disconnect
    PROVE  Routed' /\ InOrder'
<1>1. UNCHANGED <<Codec, Buffer, last, made>> /\ \A st \in Streams : inflight'[st] = << >>
  BY DEF Disconnect, reader, codec, Codec, Buffer
<1>2. \A t : ~ Holds(<< >>, t)
  BY EmptyHoldsNone
<1>3. Routed'
  BY <1>1, <1>2 DEF Routed
<1>4. ASSUME NEW t \in Types
      PROVE  Ordered(Codec, Buffer, << >>, last, made[t], t)
  BY <1>2, Absent DEF InOrder, Ordered
<1>5. \A t \in Types : StreamOf[t] \in Streams
  BY TelemetryAssumption
<1> QED
  BY <1>1, <1>3, <1>4, <1>5 DEF InOrder

LEMMA OrderStep ==
    ASSUME TypeOK, Routed, InOrder, [Next]_vars
    PROVE  Routed' /\ InOrder'
<1>1. ASSUME NEW t \in Types, RobotSends(t) PROVE Routed' /\ InOrder'
  BY <1>1, SendStep
<1>2. CASE Disconnect
  BY <1>2, DisconnectStep
<1>3. CASE Recv \/ Drain
  BY <1>3, TakeStep DEF Recv, Drain, codec
<1>4. ASSUME NEW header \in BOOLEAN, Decode(header) PROVE Routed' /\ InOrder'
  BY <1>4, DecodeStep
<1>5. CASE DecodeFails
  BY <1>5, DecodeFailsStep
<1>7. CASE Set
  BY <1>7, SetStep
<1>8. CASE Decoded
  BY <1>8, DecodedStep
<1>6. CASE Reconnect \/ Drained \/ ReadFails \/ Resume \/ OdoUpdate \/ UNCHANGED vars
  <2>1. UNCHANGED <<Codec, Buffer, inflight, last, made>>
    BY <1>6 DEF Reconnect, Drained, ReadFails, Resume, OdoUpdate, vars, net, reader,
       codec, Codec, Buffer
  <2> QED
    BY <2>1 DEF Routed, InOrder
<1> QED
  BY <1>1, <1>2, <1>3, <1>4, <1>5, <1>6, <1>7, <1>8 DEF Next

LEMMA OrderInvariant == Spec => [](TypeOK /\ Routed /\ InOrder)
<1>1. Init => Routed /\ InOrder
  <2> SUFFICES ASSUME Init PROVE Routed /\ InOrder
    OBVIOUS
  <2>1. \A t : ~ Holds(<< >>, t)
    BY EmptyHoldsNone
  <2>2. Codec = << >> /\ Buffer = << >> /\ \A st \in Streams : inflight[st] = << >>
    BY DEF Init, Codec, Buffer
  <2>3. \A t \in Types : StreamOf[t] \in Streams /\ last[t] = {}
    BY TelemetryAssumption DEF Init
  <2>4. \A t \in Types : Ordered(<< >>, << >>, << >>, last, made[t], t)
    BY <2>1, <2>3, Absent DEF Ordered
  <2> QED
    BY <2>1, <2>2, <2>3, <2>4 DEF Routed, InOrder
<1> QED
  BY <1>1, OrderStep, TypeInit, TypeStep, PTL DEF Spec

LEMMA LastTypes ==
    ASSUME TypeOK
    PROVE  \A t \in Types :
              /\ last[t] \subseteq Packets
              /\ \A p, q \in last[t] : p = q
              /\ \A p \in last[t] : p.n \in Nat
<1>1. ASSUME NEW t \in Types
      PROVE  last[t] \subseteq Packets /\ \A p, q \in last[t] : p = q
  <2>1. last \in [Types -> SUBSET Packets]
    BY DEF TypeOK
  <2>2. last[t] \subseteq Packets
    BY <2>1
  <2>3. \A p, q \in last[t] : p = q
    BY DEF TypeOK
  <2> QED
    BY <2>2, <2>3
<1> QED
  BY <1>1, PacketFields

(* THEOREM: nothing is handed on twice or behind a later packet of its      *)
(* type, whatever reads and decodings fail and whatever connections break.  *)
THEOREM NothingTwiceHolds == Spec => []NothingTwice
<1>1. TypeOK /\ InOrder => NothingTwice
  <2> SUFFICES ASSUME TypeOK, InOrder, NEW t \in Types
               PROVE  /\ Rising(Waiting \o inflight[StreamOf[t]], t)
                      /\ Newer(Waiting \o inflight[StreamOf[t]], last, t)
    BY DEF NothingTwice
  <2>1. /\ Codec \in Seq(Packets) /\ Buffer \in Seq(Packets)
        /\ inflight[StreamOf[t]] \in Seq(Packets)
    BY ListTypes, TelemetryAssumption DEF TypeOK
  <2>2. Waiting = Codec \o Buffer
    <3>1. CASE stage = "set"
      BY <2>1, <3>1, ConcatEmptySeq DEF Waiting, Codec, Buffer
    <3>2. CASE stage # "set"
      BY <3>2 DEF Waiting, Codec, Buffer
    <3> QED
      BY <3>1, <3>2
  <2> QED
    BY <2>1, <2>2, OrderedWaits DEF InOrder
<1> QED
  BY <1>1, OrderInvariant, PTL

(* While the loop over the list goes on, a packet of it has been stored, or *)
(* a newer one of its type, or it waits to be.                             *)
Covered(p) == \E q \in last[p.type] : q.n >= p.n

StoredOrWaiting ==
    stage = "set" =>
        \A i \in DOMAIN held : Covered(held[i]) \/ \E j \in DOMAIN rest : rest[j] = held[i]

LEMMA SetGoesForward ==
    ASSUME TypeOK, InOrder, Set
    PROVE  /\ Head(rest) \in Packets /\ last'[Head(rest).type] = {Head(rest)}
           /\ \A t \in Types : t # Head(rest).type => last'[t] = last[t]
           /\ \A p \in last[Head(rest).type] : p.n < Head(rest).n
           /\ \A t \in Types : \A p \in last[t] : \E q \in last'[t] : q.n >= p.n
<1> DEFINE p1 == Head(rest)
<1>1. /\ rest \in Seq(Packets) /\ rest # << >> /\ stage = "set"
      /\ last' = [last EXCEPT ![p1.type] = {p1}]
  BY ListTypes DEF Set, Stored
<1>2. p1 \in Packets /\ p1.type \in Types /\ p1.n \in Nat
  BY <1>1, HeadAndTail, PacketFields
<1>3. p1 = rest[1] /\ 1 \in DOMAIN rest
  BY <1>1, LenProperties, EmptySeq
<1> HIDE DEF p1
<1>4. last'[p1.type] = {p1} /\ \A t \in Types : t # p1.type => last'[t] = last[t]
  BY <1>1, <1>2 DEF TypeOK
<1>5. Newer(rest, last, p1.type)
  BY <1>1, <1>2 DEF InOrder, Ordered, Codec
<1>6. \A p \in last[p1.type] : p.n < p1.n
  BY <1>3, <1>5 DEF Newer
<1>7. ASSUME NEW t \in Types, NEW p \in last[t]
      PROVE  \E q \in last'[t] : q.n >= p.n
  <2>1. p.n \in Nat
    BY LastTypes
  <2>2. CASE t = p1.type
    <3>1. p.n < p1.n
      BY <1>6, <2>2
    <3>2. p1.n >= p.n
      BY <1>2, <2>1, <3>1
    <3> QED
      BY <1>4, <2>2, <3>2
  <2>3. CASE t # p1.type
    <3>1. p.n >= p.n
      BY <2>1
    <3> QED
      BY <1>4, <2>3, <3>1
  <2> QED
    BY <2>2, <2>3
<1> QED
  BY <1>2, <1>4, <1>6, <1>7 DEF p1

LEMMA StoredOrWaitingStep ==
    ASSUME TypeOK, TypeOK', InOrder, StoredOrWaiting, [Next]_vars
    PROVE  StoredOrWaiting'
<1>1. ASSUME NEW header \in BOOLEAN, Decode(header) PROVE StoredOrWaiting'
  BY <1>1 DEF Decode, StoredOrWaiting
<1>2. CASE Set
  <2> SUFFICES ASSUME NEW i \in DOMAIN held
               PROVE  Covered(held[i])' \/ \E j \in DOMAIN rest' : rest'[j] = held[i]
    BY <1>2 DEF StoredOrWaiting, Set
  <2> DEFINE p == held[i]
  <2>1. p \in Packets /\ p.type \in Types /\ p.n \in Nat
    BY ListTypes, Elements, PacketFields
  <2>2. held' = held /\ rest' = Tail(rest) /\ rest \in Seq(Packets) /\ rest # << >>
    BY <1>2, ListTypes DEF Set
  <2>3. Covered(p) \/ \E j \in DOMAIN rest : rest[j] = p
    BY <1>2 DEF StoredOrWaiting, Set
  <2> HIDE DEF p
  <2>4. ASSUME Covered(p) PROVE \E q \in last'[p.type] : q.n >= p.n
    <3>1. PICK q \in last[p.type] : q.n >= p.n
      BY <2>4 DEF Covered
    <3>2. PICK r \in last'[p.type] : r.n >= q.n
      BY <1>2, <2>1, SetGoesForward
    <3>3. q.n \in Nat /\ r.n \in Nat
      <4>1. q.n \in Nat
        BY <2>1, LastTypes
      <4>2. r \in Packets
        <5>1. last' \in [Types -> SUBSET Packets]
          BY DEF TypeOK
        <5> QED
          BY <2>1, <5>1
      <4> QED
        BY <4>1, <4>2, PacketFields
    <3>4. r.n >= p.n
      BY <2>1, <3>1, <3>2, <3>3
    <3> QED
      BY <3>4
  <2>5. ASSUME NEW j \in DOMAIN rest, rest[j] = p
        PROVE  (\E q \in last'[p.type] : q.n >= p.n) \/ \E k \in DOMAIN Tail(rest) : Tail(rest)[k] = p
    <3>1. p = Head(rest) \/ \E k \in DOMAIN Tail(rest) : Tail(rest)[k] = p
      BY <2>2, <2>5, HeadAndTail
    <3>2. p.n >= p.n
      BY <2>1
    <3>3. p = Head(rest) => last'[p.type] = {p}
      BY <1>2, SetGoesForward
    <3> QED
      BY <3>1, <3>2, <3>3
  <2>6. (\E q \in last'[p.type] : q.n >= p.n) \/ \E k \in DOMAIN rest' : rest'[k] = p
    BY <2>2, <2>3, <2>4, <2>5
  <2> QED
    BY <2>2, <2>6 DEF Covered, p
<1>3. CASE UNCHANGED <<stage, held, rest, last>>
  BY <1>3 DEF StoredOrWaiting, Covered
<1>4. CASE stage' # "set"
  BY <1>4 DEF StoredOrWaiting
<1>5. \/ UNCHANGED <<stage, held, rest, last>> \/ stage' # "set" \/ Set
      \/ \E header \in BOOLEAN : Decode(header)
  BY DEF Next, RobotSends, Disconnect, Reconnect, Recv, Drain, Drained, ReadFails, Decoded,
     DecodeDone, DecodeFails, Resume, OdoUpdate, vars, reader, codec
<1> QED
  BY <1>1, <1>2, <1>3, <1>4, <1>5

(* THEOREM: no unit ever sees a packet older than one it has seen, and when *)
(* the loop over the codec's list ends none of the list is newer than what  *)
(* they see.                                                               *)
THEOREM NewestIsKeptHolds == Spec => NewestIsKept
<1> DEFINE Forward == \A t \in Types : \A p \in last[t] : \E q \in last'[t] : q.n >= p.n
           AllStored ==
               stage = "set" /\ stage' # "set" =>
                   \A i \in DOMAIN held : \E q \in last'[held[i].type] : q.n >= held[i].n
<1>1. ASSUME TypeOK, InOrder, StoredOrWaiting, [Next]_vars PROVE Forward /\ AllStored
  <2>1. CASE Set
    <3>1. Forward
      BY <1>1, <2>1, SetGoesForward
    <3>2. AllStored
      BY <2>1 DEF Set
    <3> QED
      BY <3>1, <3>2
  <2>2. ASSUME UNCHANGED last PROVE Forward
    <3>1. \A n \in Nat : n >= n
      OBVIOUS
    <3> QED
      BY <1>1, <2>2, <3>1, LastTypes
  <2>3. UNCHANGED last \/ Set
    BY <1>1 DEF Next, RobotSends, Disconnect, Reconnect, Recv, Drain, Drained, ReadFails,
       Decode, Decoded, DecodeFails, Resume, OdoUpdate, vars, reader, codec
  <2>4. stage = "set" /\ stage' # "set" => rest = << >> /\ UNCHANGED last
    BY <1>1 DEF Next, RobotSends, Disconnect, Reconnect, Recv, Drain, Drained, ReadFails,
       Decode, Set, Decoded, DecodeFails, Resume, OdoUpdate, vars, reader, codec
  <2>5. CASE UNCHANGED last
    <3> SUFFICES ASSUME stage = "set", stage' # "set", NEW i \in DOMAIN held
                 PROVE  \E q \in last'[held[i].type] : q.n >= held[i].n
      BY <2>2, <2>5
    <3>1. rest = << >>
      BY <2>4
    <3>2. ~ \E j \in DOMAIN rest : rest[j] = held[i]
      BY <3>1
    <3>3. Covered(held[i])
      BY <1>1, <3>2 DEF StoredOrWaiting
    <3> QED
      BY <2>5, <3>3 DEF Covered
  <2> QED
    BY <2>1, <2>3, <2>5
<1>2. TypeOK /\ InOrder /\ StoredOrWaiting /\ [Next]_vars => [Forward /\ AllStored]_vars
  BY <1>1
<1>3. Init => StoredOrWaiting
  BY DEF Init, StoredOrWaiting
<1> QED
  BY <1>2, <1>3, StoredOrWaitingStep, OrderInvariant, PTL DEF Spec, NewestIsKept

----------------------------------------------------------------------------
(* The odometer: as long as it has not looked at a packet whose tick differs *)
(* it has counted fewer ticks than packets.                                 *)
TicksInv ==
    /\ last[Odo] = {} => ticks = 0
    /\ \A p \in last[Odo] : ticks <= p.n /\ (p.tick # wheel => ticks < p.n)

LEMMA TicksStep ==
    ASSUME TypeOK, TypeOK', InOrder, TicksInv, [Next]_vars
    PROVE  TicksInv'
<1> USE DEF TicksInv
<1>0. Odo \in Types /\ ticks \in Nat /\ last[Odo] \subseteq Packets
  BY TelemetryAssumption DEF TypeOK
<1>1. CASE Set
  <2> DEFINE q == Head(rest)
  <2>1. UNCHANGED <<wheel, ticks>>
    BY <1>1 DEF Set, odo
  <2>2. /\ q \in Packets /\ last'[q.type] = {q} /\ (q.type # Odo => last'[Odo] = last[Odo])
        /\ \A p \in last[q.type] : p.n < q.n
    BY <1>0, <1>1, SetGoesForward
  <2> HIDE DEF q
  <2>3. CASE q.type = Odo
    <3>1. q.n \in 1 .. MaxPackets
      BY <2>2, PacketFields
    <3>2. ticks < q.n
      <4>1. CASE last[Odo] = {}
        BY <1>0, <3>1, <4>1, TelemetryAssumption
      <4>2. ASSUME NEW p \in last[Odo] PROVE ticks < q.n
        <5>1. p.n \in Nat /\ q.n \in Nat /\ ticks <= p.n /\ p.n < q.n
          BY <1>0, <2>2, <2>3, <3>1, PacketFields, TelemetryAssumption
        <5> QED
          BY <1>0, <5>1
      <4> QED
        BY <4>1, <4>2
    <3>3. ticks <= q.n
      BY <1>0, <3>1, <3>2, TelemetryAssumption
    <3> QED
      BY <2>1, <2>2, <2>3, <3>2, <3>3
  <2>4. CASE q.type # Odo
    BY <2>1, <2>2, <2>4
  <2> QED
    BY <2>3, <2>4
<1>2. CASE OdoUpdate
  <2>1. PICK p \in last[Odo] : p.tick # wheel /\ wheel' = p.tick
    BY <1>2 DEF OdoUpdate
  <2>2. ticks' = ticks + 1 /\ last' = last
    BY <1>2 DEF OdoUpdate, reader, codec
  <2>3. last[Odo] = {p}
    BY <1>0, <2>1, LastTypes
  <2>4. p.n \in Nat /\ ticks < p.n
    BY <1>0, <2>1, PacketFields
  <2>5. ticks' <= p.n
    BY <1>0, <2>2, <2>4
  <2> QED
    BY <2>1, <2>2, <2>3, <2>5
<1>3. CASE UNCHANGED <<last, wheel, ticks>>
  BY <1>3
<1>4. UNCHANGED <<last, wheel, ticks>> \/ OdoUpdate \/ Set
  BY DEF Next, RobotSends, Disconnect, Reconnect, Recv, Drain, Drained, ReadFails,
     Decode, Decoded, DecodeFails, DecodeDone, Resume, vars, reader, codec, odo
<1> QED
  BY <1>1, <1>2, <1>3, <1>4

(* THEOREM: however often the odometer reads the same packet, it adds to    *)
(* its distance at most once for each.                                     *)
THEOREM NoTickTwiceHolds == Spec => []NoTickTwice
<1>1. Init => TicksInv
  BY TelemetryAssumption DEF Init, TicksInv
<1>2. TypeOK /\ InOrder /\ TicksInv => NoTickTwice
  <2> SUFFICES ASSUME TypeOK, InOrder, TicksInv PROVE ticks <= made[Odo]
    BY DEF NoTickTwice
  <2>1. /\ ticks \in Nat /\ made[Odo] \in Nat /\ last[Odo] \subseteq Packets
        /\ \A p \in last[Odo] : p.n <= made[Odo]
    BY TelemetryAssumption DEF TypeOK, InOrder, Ordered
  <2>2. ASSUME NEW p \in last[Odo] PROVE ticks <= made[Odo]
    <3>1. p.n \in Nat /\ ticks <= p.n /\ p.n <= made[Odo]
      BY <2>1, PacketFields DEF TicksInv
    <3> QED
      BY <2>1, <3>1
  <2> QED
    BY <2>1, <2>2 DEF TicksInv
<1> QED
  BY <1>1, <1>2, TicksStep, OrderInvariant, PTL DEF Spec
====================================================================================
