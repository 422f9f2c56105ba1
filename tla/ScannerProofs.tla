------------------------------- MODULE ScannerProofs -------------------------------
(* Theorems about the scanner, for any grid, any reach and any number of   *)
(* points in a capture.                                                    *)
EXTENDS Scanner, SequenceTheorems, FiniteSetTheorems, WellFoundedInduction, TLAPS

----------------------------------------------------------------------------
(* The distance and the order of the points.                               *)
Points == Int \X Int

LEMMA GridPoints == Grid \subseteq Points /\ Null \in Points
BY ScannerAssumption DEF Points, Null

LEMMA Squares == \A n \in Int : n * n \in Nat
OBVIOUS

LEMMA DistanceType ==
    ASSUME NEW p \in Points, NEW q \in Points
    PROVE  Distance2(p, q) \in Nat
<1> DEFINE x == q[1] - p[1]
           y == q[2] - p[2]
<1>1. x \in Int /\ y \in Int
  BY DEF Points
<1> HIDE DEF x, y
<1>2. x * x \in Nat /\ y * y \in Nat
  BY <1>1, Squares
<1>3. x * x + y * y \in Nat
  BY <1>2
<1> QED
  BY <1>3 DEF Distance2, x, y

LEMMA NearInHorizon == Near * Near < Horizon * Horizon /\ Horizon * Horizon \in Nat
<1>1. Near \in Nat /\ Horizon \in Nat /\ Near < Horizon
  BY ScannerAssumption
<1>2. PICK d \in Nat : Horizon = Near + d /\ d > 0
  <2>1. Horizon - Near \in Nat /\ Horizon - Near > 0 /\ Horizon = Near + (Horizon - Near)
    BY <1>1
  <2> QED
    BY <2>1
<1>3. Horizon * Horizon = Near * Near + 2 * (Near * d) + d * d
  BY <1>1, <1>2
<1>4. Near * d \in Nat /\ d * d \in Nat /\ d * d > 0 /\ Near * Near \in Nat
  BY <1>1, <1>2
<1> QED
  BY <1>3, <1>4

LEMMA AbsType == \A n \in Int : Abs(n) \in Nat
BY DEF Abs

LEMMA LessIrreflexive ==
    ASSUME NEW p \in Points
    PROVE  ~ Less(p, p)
BY AbsType DEF Less, Points

(* Not to be less is transitive: operator< is a strict weak order.         *)
LEMMA NotLessTransitive ==
    ASSUME NEW p \in Points, NEW q \in Points, NEW r \in Points,
           ~ Less(q, p), ~ Less(r, q)
    PROVE  ~ Less(r, p)
<1>1. /\ Abs(p[1]) \in Nat /\ Abs(q[1]) \in Nat /\ Abs(r[1]) \in Nat
      /\ Abs(p[2]) \in Nat /\ Abs(q[2]) \in Nat /\ Abs(r[2]) \in Nat
  BY AbsType DEF Points
<1> QED
  BY <1>1 DEF Less

----------------------------------------------------------------------------
(* The list of a set of places.                                            *)
Rank(S, j) == Cardinality({i \in S : i <= j})

Rising(s) == \A i, j \in DOMAIN s : i < j => s[i] < s[j]

LEMMA Minimum ==
    ASSUME NEW T, T \subseteq Nat, T # {}
    PROVE  \E m \in T : \A n \in T : m <= n
<1>1. PICK m \in T : \A n \in T : ~ (<<n, m>> \in OpToRel(<, Nat))
  BY NatLessThanWellFounded, WFMin
<1>2. ASSUME NEW n \in T, n < m PROVE FALSE
  <2>1. <<n, m>> \in OpToRel(<, Nat)
    BY <1>2 DEF OpToRel
  <2> QED
    BY <1>1, <2>1
<1>3. \A n \in T : m <= n
  BY <1>2
<1> QED
  BY <1>3

LEMMA RankType ==
    ASSUME NEW S, S \subseteq Nat, IsFiniteSet(S), NEW j \in S
    PROVE  /\ IsFiniteSet({i \in S : i <= j})
           /\ Rank(S, j) \in 1 .. Cardinality(S)
<1> DEFINE A == {i \in S : i <= j}
<1>1. A \in SUBSET S /\ j \in A
  OBVIOUS
<1>2. IsFiniteSet(A) /\ Cardinality(A) <= Cardinality(S)
  BY <1>1, FS_Subset
<1>3. Cardinality(A) \in Nat /\ Cardinality(S) \in Nat /\ Cardinality(A) # 0
  BY <1>1, <1>2, FS_CardinalityType, FS_EmptySet
<1> QED
  BY <1>2, <1>3 DEF Rank

LEMMA RankRises ==
    ASSUME NEW S, S \subseteq Nat, IsFiniteSet(S), NEW j \in S, NEW k \in S, j < k
    PROVE  Rank(S, j) < Rank(S, k)
<1> DEFINE A == {i \in S : i <= j}
           B == {i \in S : i <= k}
<1>1. A \in SUBSET B /\ k \in B /\ k \notin A
  <2>1. j \in Nat /\ k \in Nat /\ k <= k /\ ~ (k <= j)
    OBVIOUS
  <2>2. \A i \in S : i <= j => i <= k
    BY <2>1
  <2> QED
    BY <2>1, <2>2
<1>2. IsFiniteSet(A) /\ IsFiniteSet(B)
  BY RankType
<1>3. Cardinality(A) <= Cardinality(B) /\ Cardinality(A) # Cardinality(B)
  BY <1>1, <1>2, FS_Subset
<1>4. Cardinality(A) \in Nat /\ Cardinality(B) \in Nat
  BY <1>2, FS_CardinalityType
<1> QED
  BY <1>3, <1>4 DEF Rank

(* Every rank up to the number of members is taken.                        *)
LEMMA RankTaken ==
    ASSUME NEW S, S \subseteq Nat, IsFiniteSet(S), NEW k \in 1 .. Cardinality(S)
    PROVE  \E j \in S : Rank(S, j) = k
<1> DEFINE Free == {n \in 1 .. Cardinality(S) : \A j \in S : Rank(S, j) # n}
<1>1. Cardinality(S) \in Nat
  BY FS_CardinalityType
<1> SUFFICES Free = {}
  OBVIOUS
<1> SUFFICES ASSUME Free # {} PROVE FALSE
  OBVIOUS
<1>2. PICK n \in Free : \A l \in Free : n <= l
  <2>1. Free \subseteq Nat
    BY <1>1
  <2> HIDE DEF Free
  <2> QED
    BY <2>1, Minimum
<1>3. n \in Nat /\ 1 <= n /\ n <= Cardinality(S)
  BY <1>1
\* R is what lies beyond the members whose ranks are below n.
<1>4. PICK P \in SUBSET S : /\ IsFiniteSet(P) /\ Cardinality(P) = n - 1
                            /\ \A i \in P, j \in S \ P : i < j
  <2>1. CASE n = 1
    BY <2>1, FS_EmptySet
  <2>2. CASE n # 1
    <3>1. n - 1 \in 1 .. Cardinality(S) /\ ~ (n <= n - 1)
      BY <1>1, <1>3, <2>2
    <3>2. PICK j \in S : Rank(S, j) = n - 1
      <4>1. n - 1 \notin Free
        BY <1>2, <3>1
      <4> QED
        BY <3>1, <4>1
    <3> DEFINE P == {i \in S : i <= j}
    <3>3. IsFiniteSet(P) /\ Cardinality(P) = n - 1
      BY <3>2, RankType DEF Rank
    <3>4. \A i \in P, l \in S \ P : i < l
      OBVIOUS
    <3> QED
      BY <3>3, <3>4
  <2> QED
    BY <2>1, <2>2
<1>5. PICK m \in S \ P : \A l \in S \ P : m <= l
  <2>1. S \ P # {}
    <3> SUFFICES ASSUME S = P PROVE FALSE
      OBVIOUS
    <3> QED
      BY <1>1, <1>3, <1>4
  <2> QED
    BY <2>1, Minimum
<1>6. {i \in S : i <= m} = P \cup {m}
  <2>1. \A i \in S : i <= m => i \in P \/ i = m
    BY <1>5
  <2>2. \A i \in P : i <= m
    BY <1>4, <1>5
  <2>3. m \in S /\ m <= m /\ P \subseteq S
    BY <1>4, <1>5
  <2> QED
    BY <2>1, <2>2, <2>3, Zenon
<1>7. Cardinality(P \cup {m}) = n
  <2>1. m \notin P
    BY <1>5
  <2>2. Cardinality(P \cup {m}) = Cardinality(P) + 1
    BY <1>4, <2>1, FS_AddElement
  <2> QED
    BY <1>3, <1>4, <2>2
<1>8. Rank(S, m) = n
  BY <1>6, <1>7 DEF Rank
<1> QED
  BY <1>2, <1>5, <1>8

(* THEOREM: the list of a set of places has each of its members once, in   *)
(* the order of the world.                                                 *)
THEOREM AscendingLists ==
    ASSUME NEW S, S \subseteq Nat, IsFiniteSet(S)
    PROVE  /\ Ascending(S) \in Seq(S)
           /\ Len(Ascending(S)) = Cardinality(S)
           /\ Rising(Ascending(S))
           /\ \A j \in S : \E k \in DOMAIN Ascending(S) : Ascending(S)[k] = j
<1> DEFINE n == Cardinality(S)
           s == Ascending(S)
<1>1. n \in Nat
  BY FS_CardinalityType
<1>2. s = [k \in 1 .. n |-> CHOOSE j \in S : Rank(S, j) = k]
  BY DEF Ascending, Rank
<1>3. \A k \in 1 .. n : s[k] \in S /\ Rank(S, s[k]) = k
  BY <1>2, RankTaken
<1>4. DOMAIN s = 1 .. n /\ s \in [1 .. n -> S]
  BY <1>2, <1>3
<1> HIDE DEF s
<1>5. s \in Seq(S)
  BY <1>1, <1>4, SeqDef
<1>6. Len(s) = n
  <2>1. Len(s) \in Nat /\ DOMAIN s = 1 .. Len(s)
    BY <1>5, LenProperties
  <2> QED
    BY <1>1, <1>4, <2>1
<1>7. Rising(s)
  <2> SUFFICES ASSUME NEW i \in 1 .. n, NEW j \in 1 .. n, i < j, ~ (s[i] < s[j])
               PROVE  FALSE
    BY <1>4 DEF Rising
  <2>1. s[i] \in Nat /\ s[j] \in Nat /\ s[i] \in S /\ s[j] \in S
    BY <1>3
  <2>2. s[j] < s[i] \/ s[j] = s[i]
    BY <2>1
  <2>3. i \in Nat /\ j \in Nat /\ Rank(S, s[i]) = i /\ Rank(S, s[j]) = j
    BY <1>1, <1>3
  <2>4. CASE s[j] < s[i]
    <3>1. Rank(S, s[j]) < Rank(S, s[i])
      BY <2>1, <2>4, RankRises
    <3> QED
      BY <2>3, <3>1
  <2>5. CASE s[j] = s[i]
    BY <2>3, <2>5
  <2> QED
    BY <2>2, <2>4, <2>5
<1>8. \A j \in S : \E k \in DOMAIN s : s[k] = j
  <2> SUFFICES ASSUME NEW j \in S PROVE \E k \in 1 .. n : s[k] = j
    BY <1>4
  <2>1. Rank(S, j) \in 1 .. n
    BY RankType
  <2>2. PICK i \in S : i = s[Rank(S, j)] /\ Rank(S, i) = Rank(S, j)
    BY <1>3, <2>1
  <2>3. i \in Nat /\ j \in Nat /\ Rank(S, j) \in Nat
    BY <1>1, <2>1
  <2>4. ~ (i < j)
    <3> SUFFICES ASSUME i < j PROVE FALSE
      OBVIOUS
    <3>1. Rank(S, i) < Rank(S, j)
      BY RankRises
    <3> QED
      BY <2>2, <2>3, <3>1
  <2>5. ~ (j < i)
    <3> SUFFICES ASSUME j < i PROVE FALSE
      OBVIOUS
    <3>1. Rank(S, j) < Rank(S, i)
      BY RankRises
    <3> QED
      BY <2>2, <2>3, <3>1
  <2>6. i = j
    BY <2>3, <2>4, <2>5
  <2> QED
    BY <2>1, <2>2, <2>6
<1> QED
  BY <1>5, <1>6, <1>7, <1>8 DEF s

----------------------------------------------------------------------------
(* The inductive invariant. Where the registers are that are not in use,   *)
(* and how many turns the loops have made.                                 *)
Shape ==
    /\ phase = "agglomerate" => at = 1 /\ id = 0 /\ iterations = 0 /\ lines = <<>>
    /\ phase # "expand" => line = <<>> /\ neighbors = <<>>
    /\ phase = "expand" => at <= Len(world) /\ line # <<>> /\ it <= Len(neighbors) + 1
    /\ phase \notin {"measure", "done"} => measured = 0
    /\ phase = "done" => measured = Len(lines)
    /\ id < at

Budget(a, l, n) == (a - 1) * l + n

Turns ==
    iterations <= Budget(at, Len(world), IF phase = "expand" THEN it - 1 ELSE 0)

(* The world is sorted, and the list of neighbors with it.                 *)
Sorted == \A i, j \in Places : i < j => ~ Less(world[j], world[i])

ListInv == Rising(neighbors)

(* The line being put together starts near the robot and has been taken    *)
(* from the neighbors visited so far, each within reach of one before it.  *)
GoodLine(l) ==
    Chained(l) /\ RunsAway(l) /\ Front(l) <= Near * Near

Taken ==
    \A j \in DOMAIN line : j > 1 => \E n \in DOMAIN neighbors : n < it /\ line[j] = neighbors[n]

Reached ==
    \A n \in DOMAIN neighbors : \E i \in DOMAIN line : Close(line[i], neighbors[n])

RisingTail(l) == \A i, j \in DOMAIN l : 1 < i /\ i < j => l[i] < l[j]

LineInv == line # <<>> => Taken /\ Reached /\ RisingTail(line) /\ GoodLine(line)

LinesInv == \A k \in DOMAIN lines : GoodLine(lines[k])

(* The points of the lines are bound, and shared by no two of them.        *)
Distinct(l) == \A i, j \in DOMAIN l : l[i] = l[j] => i = j

Apart(l, m) == \A i \in DOMAIN l, j \in DOMAIN m : l[i] # m[j]

Bound(l) == \A i \in DOMAIN l : cluster[l[i]] # Unbound

PartInv ==
    /\ Distinct(line) /\ Bound(line)
    /\ \A k \in DOMAIN lines :
          /\ Distinct(lines[k]) /\ Bound(lines[k]) /\ Apart(lines[k], line)
          /\ \A m \in DOMAIN lines : k # m => Apart(lines[k], lines[m])

(* What get_near_point knows of the lines it has measured.                 *)
First(k) == near.a = Second(lines[k]) /\ near.da = Front(lines[k])

NearInv ==
    /\ \A k \in 1 .. measured : near.da <= Front(lines[k])
    /\ near.da = Horizon * Horizon \/ \E k \in 1 .. measured : First(k)
    /\ \/ near.b = Null
       \/ \E k, m \in 1 .. measured :
             /\ k # m /\ First(k) /\ near.b = Second(lines[m])
             /\ Front(lines[k]) <= Front(lines[m])

IInv ==
    /\ TypeOK /\ Shape /\ Turns
    /\ Sorted /\ ListInv
    /\ LineInv /\ LinesInv /\ PartInv
    /\ NearInv

----------------------------------------------------------------------------
(* Facts about the registers.                                              *)
LEMMA Lists ==
    ASSUME NEW n \in Nat, NEW s \in Seq(1 .. n)
    PROVE  /\ Len(s) \in Nat /\ DOMAIN s = 1 .. Len(s)
           /\ \A i \in DOMAIN s : s[i] \in 1 .. n /\ i \in Nat /\ s[i] \in Nat
BY LenProperties, ElementOfSeq

LEMMA WorldFacts ==
    ASSUME TypeOK
    PROVE  /\ Len(world) \in Nat /\ Len(world) <= MaxPoints /\ MaxPoints \in Nat
           /\ IsFiniteSet(Places) /\ Cardinality(Places) = Len(world)
           /\ \A i \in Places : world[i] \in Points /\ i \in Nat
<1>1. world \in Seq(Grid) /\ Len(world) <= MaxPoints
  BY DEF TypeOK
<1>2. Len(world) \in Nat /\ \A i \in 1 .. Len(world) : world[i] \in Grid
  BY <1>1, LenProperties, ElementOfSeq
<1>3. IsFiniteSet(1 .. Len(world)) /\ Cardinality(1 .. Len(world)) = Len(world)
  BY <1>2, FS_Interval
<1> QED
  BY <1>1, <1>2, <1>3, GridPoints, ScannerAssumption DEF Places

LEMMA CountUpTo ==
    ASSUME NEW n \in Nat
    PROVE  IsFiniteSet(1 .. n) /\ Cardinality(1 .. n) = n
BY FS_Interval

(* A rising list of places is not longer than the world.                   *)
LEMMA RisingIsShort ==
    ASSUME NEW n \in Nat, NEW s \in Seq(1 .. n), Rising(s)
    PROVE  Len(s) <= n
<1>1. Len(s) \in Nat /\ DOMAIN s = 1 .. Len(s) /\ s \in [1 .. Len(s) -> 1 .. n]
  BY LenProperties
<1>2. \A i, j \in DOMAIN s : s[i] = s[j] => i = j
  <2> SUFFICES ASSUME NEW i \in DOMAIN s, NEW j \in DOMAIN s, s[i] = s[j], i # j
               PROVE  FALSE
    OBVIOUS
  <2>1. i \in Nat /\ j \in Nat /\ s[i] \in Nat /\ s[j] \in Nat
    BY Lists
  <2>2. i < j \/ j < i
    BY <2>1
  <2> QED
    BY <2>1, <2>2 DEF Rising
<1>3. s \in Injection(1 .. Len(s), 1 .. n)
  BY <1>1, <1>2 DEF Injection, IsInjective
<1>4. /\ IsFiniteSet(1 .. n) /\ Cardinality(1 .. n) = n
      /\ Cardinality(1 .. Len(s)) = Len(s)
  BY <1>1, CountUpTo
<1>5. Cardinality(1 .. Len(s)) <= Cardinality(1 .. n)
  BY <1>3, <1>4, FS_Injection
<1> QED
  BY <1>4, <1>5

(* Joining a rising list with one that lies beyond its last member.        *)
LEMMA RisingJoined ==
    ASSUME NEW n \in Nat, NEW s \in Seq(1 .. n), NEW t \in Seq(1 .. n),
           Rising(s), Rising(t), s # << >>,
           \A j \in DOMAIN t : s[Len(s)] < t[j]
    PROVE  Rising(s \o t)
<1> DEFINE c == s \o t
<1>1. /\ Len(s) \in Nat /\ Len(t) \in Nat /\ DOMAIN s = 1 .. Len(s) /\ DOMAIN t = 1 .. Len(t)
      /\ c \in Seq(1 .. n) /\ Len(c) = Len(s) + Len(t)
      /\ \A i \in 1 .. Len(s) + Len(t) : c[i] = IF i <= Len(s) THEN s[i] ELSE t[i - Len(s)]
  BY LenProperties, ConcatProperties
<1>2. DOMAIN c = 1 .. Len(s) + Len(t)
  BY <1>1, LenProperties
<1>3. Len(s) \in DOMAIN s
  BY <1>1, EmptySeq
<1>4. /\ \A i \in DOMAIN s : s[i] \in Nat
      /\ \A i \in DOMAIN t : t[i] \in Nat
  BY Lists
<1>5. \A i \in DOMAIN s : s[i] <= s[Len(s)]
  <2> SUFFICES ASSUME NEW i \in DOMAIN s PROVE s[i] <= s[Len(s)]
    OBVIOUS
  <2>1. i = Len(s) \/ i < Len(s)
    BY <1>1
  <2> QED
    BY <1>3, <1>4, <2>1 DEF Rising
<1> HIDE DEF c
<1>6. ASSUME NEW i \in DOMAIN c
      PROVE  \/ i <= Len(s) /\ i \in DOMAIN s /\ c[i] = s[i]
             \/ i > Len(s) /\ i - Len(s) \in DOMAIN t /\ c[i] = t[i - Len(s)]
  <2>1. i \in 1 .. Len(s) + Len(t)
    BY <1>2
  <2>2. c[i] = IF i <= Len(s) THEN s[i] ELSE t[i - Len(s)]
    BY <1>1, <2>1
  <2>3. CASE i <= Len(s)
    <3>1. i \in 1 .. Len(s)
      BY <2>1, <2>3
    <3> QED
      BY <1>1, <2>2, <2>3, <3>1, Zenon
  <2>4. CASE ~ (i <= Len(s))
    <3>1. Len(s) \in Nat /\ Len(t) \in Nat
      BY <1>1
    <3>2. i > Len(s) /\ i - Len(s) \in 1 .. Len(t)
      BY <2>1, <2>4, <3>1
    <3> QED
      BY <1>1, <2>2, <2>4, <3>2, Zenon
  <2> QED
    BY <2>3, <2>4
<1>7. ASSUME NEW i \in DOMAIN c, NEW j \in DOMAIN c, i < j PROVE c[i] < c[j]
  <2>1. i \in Nat /\ j \in Nat
    BY <1>1, <1>2
  <2>2. CASE j <= Len(s)
    <3>1. i \in DOMAIN s /\ j \in DOMAIN s /\ c[i] = s[i] /\ c[j] = s[j]
      BY <1>1, <1>6, <1>7, <2>1, <2>2
    <3> QED
      BY <1>7, <3>1 DEF Rising
  <2>3. CASE i <= Len(s) /\ j > Len(s)
    <3>1. i \in DOMAIN s /\ j - Len(s) \in DOMAIN t /\ c[i] = s[i] /\ c[j] = t[j - Len(s)]
      BY <1>1, <1>6, <2>1, <2>3
    <3>2. s[i] \in Nat /\ s[Len(s)] \in Nat /\ t[j - Len(s)] \in Nat
      BY <1>3, <1>4, <3>1
    <3>3. s[i] <= s[Len(s)] /\ s[Len(s)] < t[j - Len(s)]
      BY <1>5, <3>1
    <3> QED
      BY <3>1, <3>2, <3>3
  <2>4. CASE i > Len(s)
    <3>1. i - Len(s) \in DOMAIN t /\ j - Len(s) \in DOMAIN t
          /\ c[i] = t[i - Len(s)] /\ c[j] = t[j - Len(s)]
      BY <1>1, <1>6, <1>7, <2>1, <2>4
    <3>2. i - Len(s) < j - Len(s)
      BY <1>1, <1>7, <2>1
    <3> QED
      BY <3>1, <3>2 DEF Rising
  <2> QED
    BY <1>1, <2>1, <2>2, <2>3, <2>4
<1> QED
  BY <1>7 DEF Rising, c

LEMMA Appended ==
    ASSUME NEW n \in Nat, NEW s \in Seq(1 .. n), NEW p \in 1 .. n
    PROVE  /\ Append(s, p) \in Seq(1 .. n) /\ Append(s, p) # << >>
           /\ DOMAIN Append(s, p) = 1 .. Len(s) + 1 /\ DOMAIN s = 1 .. Len(s) /\ Len(s) \in Nat
           /\ \A i \in DOMAIN s : i \in DOMAIN Append(s, p) /\ Append(s, p)[i] = s[i]
           /\ Append(s, p)[Len(s) + 1] = p /\ Len(s) + 1 \in DOMAIN Append(s, p)
           /\ \A i \in DOMAIN Append(s, p) : i \in DOMAIN s \/ i = Len(s) + 1
<1>1. /\ Append(s, p) \in Seq(1 .. n) /\ Append(s, p) # << >>
      /\ Len(Append(s, p)) = Len(s) + 1
      /\ \A i \in 1 .. Len(s) : Append(s, p)[i] = s[i]
      /\ Append(s, p)[Len(s) + 1] = p
  BY AppendProperties
<1>2. Len(s) \in Nat /\ DOMAIN s = 1 .. Len(s) /\ DOMAIN Append(s, p) = 1 .. Len(s) + 1
  BY <1>1, LenProperties
<1>3. 1 .. Len(s) + 1 = (1 .. Len(s)) \cup {Len(s) + 1}
  BY <1>2
<1> QED
  BY <1>1, <1>2, <1>3

(* What is not erased of the new neighbors lies beyond the last of the     *)
(* list.                                                                   *)
LEMMA BeyondLast ==
    ASSUME TypeOK, Sorted, NEW last \in Places, NEW new \in SUBSET Places,
           NEW j \in Beyond(last, new)
    PROVE  j \in new /\ last < j
<1>1. PICK k \in new : k <= j /\ Less(world[last], world[k])
  BY DEF Beyond
<1>2. /\ last \in Nat /\ k \in Nat /\ j \in Nat /\ j \in new /\ k \in Places
      /\ world[last] \in Points
  BY WorldFacts DEF Beyond
<1>3. k # last
  BY <1>1, <1>2, LessIrreflexive
<1>4. ~ (k < last)
  BY <1>1, <1>2 DEF Sorted
<1> QED
  BY <1>1, <1>2, <1>3, <1>4

(* The turns of the loops.                                                 *)
LEMMA TurnsBound ==
    ASSUME NEW l \in Nat, NEW m \in Nat, l <= m, NEW a \in 1 .. l, NEW n \in 0 .. l
    PROVE  (a - 1) * l + n <= m * m
<1>1. a \in Nat /\ l - a \in Nat /\ m - l \in Nat /\ n \in Nat /\ n <= l
  OBVIOUS
<1>2. l * l = a * l + (l - a) * l /\ (l - a) * l \in Nat /\ a * l \in Nat
  BY <1>1
<1>3. a * l = (a - 1) * l + l
  BY <1>1
<1>4. m * m = l * l + 2 * (l * (m - l)) + (m - l) * (m - l)
  BY <1>1
<1>5. l * (m - l) \in Nat /\ (m - l) * (m - l) \in Nat
  BY <1>1
<1>6. (a - 1) * l \in Int /\ m * m \in Int
  BY <1>1
<1> QED
  BY <1>1, <1>2, <1>3, <1>4, <1>5, <1>6

LEMMA OneMorePlace ==
    ASSUME NEW l \in Nat, NEW a \in Nat
    PROVE  (a + 1 - 1) * l = (a - 1) * l + l /\ (a - 1) * l \in Int
OBVIOUS

----------------------------------------------------------------------------
(* Steps that leave the points alone.                                      *)
LEMMA SortedKept == Sorted /\ UNCHANGED world => Sorted'
BY DEF Sorted, Places

LEMMA LinesKept == LinesInv /\ UNCHANGED <<world, lines>> => LinesInv'
BY DEF LinesInv, GoodLine, Chained, RunsAway, Front, Close

LEMMA LineKept ==
    LineInv /\ UNCHANGED <<world, line, neighbors, it>> => LineInv'
BY DEF LineInv, Taken, Reached, RisingTail, GoodLine, Chained, RunsAway, Front, Close

LEMMA PartKept == PartInv /\ UNCHANGED <<cluster, line, lines>> => PartInv'
BY DEF PartInv, Bound, Distinct, Apart

LEMMA NearKept == NearInv /\ UNCHANGED <<world, lines, near, measured>> => NearInv'
BY DEF NearInv, First, Second, Front

\* Steps that build no line leave the invariant's other parts alone too.
LEMMA RestKept ==
    ASSUME IInv, UNCHANGED <<world, cluster, line, neighbors, it, lines>>
    PROVE  Sorted' /\ ListInv' /\ LineInv' /\ LinesInv' /\ PartInv'
<1>1. Sorted /\ LineInv /\ LinesInv /\ PartInv /\ ListInv
  BY DEF IInv
<1>2. ListInv'
  BY <1>1 DEF ListInv
<1> QED
  BY <1>1, <1>2, SortedKept, LinesKept, LineKept, PartKept

LEMMA Numbers ==
    ASSUME TypeOK
    PROVE  /\ Len(world) \in Nat /\ MaxPoints \in Nat /\ Len(world) <= MaxPoints
           /\ at \in 1 .. Len(world) + 1 /\ id \in 0 .. MaxPoints /\ iterations \in Nat
<1> DEFINE most == MaxPoints * MaxPoints
<1>1. iterations \in 0 .. most /\ at \in 1 .. Len(world) + 1 /\ id \in 0 .. MaxPoints
  BY DEF TypeOK
<1> HIDE DEF most
<1>2. iterations \in Nat
  BY <1>1
<1> QED
  BY <1>1, <1>2, WorldFacts

(* The bound on the turns grows with at, by the length of the world.       *)
LEMMA TurnsOfNext ==
    ASSUME NEW l \in Nat, NEW a \in Nat, NEW i \in Int, NEW n \in Int,
           n <= l, i <= Budget(a, l, n)
    PROVE  i <= Budget(a + 1, l, 0)
<1> DEFINE x == (a - 1) * l
           y == (a + 1 - 1) * l
<1>1. y = x + l /\ x \in Int
  BY OneMorePlace
<1>2. i <= x + n
  BY DEF Budget
<1> HIDE DEF x, y
<1>3. i <= y + 0
  BY <1>1, <1>2
<1> QED
  BY <1>3 DEF y, Budget

LEMMA AgglomeratedStep == ASSUME IInv, Agglomerated PROVE IInv'
<1>1. Sorted' /\ ListInv' /\ LineInv' /\ LinesInv' /\ PartInv'
  BY RestKept DEF Agglomerated, scan
<1>2. NearInv'
  BY NearKept DEF IInv, Agglomerated, scan
<1>3. TypeOK' /\ Shape' /\ Turns'
  BY DEF IInv, TypeOK, Shape, Turns, Agglomerated, scan, Places
<1> QED
  BY <1>1, <1>2, <1>3 DEF IInv

LEMMA FinishStep == ASSUME IInv, Finish PROVE IInv'
<1>1. Sorted' /\ ListInv' /\ LineInv' /\ LinesInv' /\ PartInv'
  BY RestKept DEF Finish, scan
<1>2. NearInv'
  BY NearKept DEF IInv, Finish, scan
<1>3. TypeOK' /\ Shape' /\ Turns'
  BY DEF IInv, TypeOK, Shape, Turns, Finish, scan, Places
<1> QED
  BY <1>1, <1>2, <1>3 DEF IInv

LEMMA ReturnStep == ASSUME IInv, Return PROVE IInv'
<1>1. Sorted' /\ ListInv' /\ LineInv' /\ LinesInv' /\ PartInv'
  BY RestKept DEF Return, scan
<1>2. NearInv'
  BY NearKept DEF IInv, Return, scan
<1>3. TypeOK' /\ Shape' /\ Turns'
  BY DEF IInv, TypeOK, Shape, Turns, Return, scan, Places
<1> QED
  BY <1>1, <1>2, <1>3 DEF IInv

LEMMA SkipStep == ASSUME IInv, Skip PROVE IInv'
<1>1. Sorted' /\ ListInv' /\ LineInv' /\ LinesInv' /\ PartInv'
  BY RestKept DEF Skip
<1>2. NearInv'
  BY NearKept DEF IInv, Skip
<1>3. /\ Len(world) \in Nat /\ at \in Nat /\ at >= 1 /\ iterations \in Nat
      /\ at <= Len(world) /\ id \in Nat /\ id < at
  <2>1. /\ Len(world) \in Nat /\ MaxPoints \in Nat /\ iterations \in Nat
        /\ at \in 1 .. Len(world) + 1 /\ id \in 0 .. MaxPoints
    BY Numbers DEF IInv
  <2> QED
    BY <2>1 DEF IInv, Skip, Shape
<1>4. TypeOK'
  BY <1>3 DEF IInv, TypeOK, Skip, Places
<1>5. Shape'
  BY <1>3 DEF IInv, Shape, Skip
<1>6. Turns'
  <2>1. iterations <= Budget(at, Len(world), 0)
    BY DEF IInv, Turns, Skip
  <2>2. iterations \in Int /\ 0 \in Int /\ 0 <= Len(world)
    BY <1>3
  <2>3. iterations <= Budget(at + 1, Len(world), 0)
    BY <1>3, <2>1, <2>2, TurnsOfNext, Zenon
  <2> QED
    BY <2>3 DEF Turns, Skip
<1> QED
  BY <1>1, <1>2, <1>4, <1>5, <1>6 DEF IInv

(* A turn of expand is counted and the list is not longer than the world.  *)
LEMMA VisitCounted ==
    ASSUME IInv, Visit
    PROVE  /\ Turns' /\ iterations' \in 0 .. MaxPoints * MaxPoints
           /\ it \in Nat /\ it >= 1 /\ it \in DOMAIN neighbors /\ at \in Places
<1>1. /\ phase = "expand" /\ it <= Len(neighbors) /\ it' = it + 1
      /\ iterations' = iterations + 1 /\ UNCHANGED <<phase, world, at>>
  BY DEF Visit
<1>2. /\ Len(world) \in Nat /\ MaxPoints \in Nat /\ Len(world) <= MaxPoints
      /\ at \in 1 .. Len(world) /\ iterations \in Nat
  BY <1>1, Numbers DEF IInv, Shape
<1>3. neighbors \in Seq(1 .. Len(world)) /\ Rising(neighbors)
  BY DEF IInv, TypeOK, ListInv, Places
<1>4. Len(neighbors) \in Nat /\ DOMAIN neighbors = 1 .. Len(neighbors)
  BY <1>3, LenProperties
<1>5. Len(neighbors) <= Len(world)
  BY <1>2, <1>3, RisingIsShort
<1>6. it \in Nat /\ it >= 1
  BY <1>1, <1>4 DEF IInv, TypeOK
<1>7. it \in 0 .. Len(world)
  BY <1>1, <1>2, <1>4, <1>5, <1>6
<1> DEFINE turns == (at - 1) * Len(world)
<1>8. turns + it <= MaxPoints * MaxPoints
  BY <1>2, <1>7, TurnsBound
<1>9. turns \in Int /\ MaxPoints * MaxPoints \in Nat
  BY <1>2, OneMorePlace
<1>10. iterations <= turns + (it - 1)
  BY <1>1 DEF IInv, Turns, Budget
<1>11. iterations' <= turns + (it' - 1)
  <2> HIDE DEF turns
  <2> QED
    BY <1>1, <1>2, <1>6, <1>9, <1>10
<1>12. Turns'
  BY <1>1, <1>11 DEF Turns, Budget
<1>13. iterations' \in 0 .. MaxPoints * MaxPoints
  <2> HIDE DEF turns
  <2> QED
    BY <1>1, <1>2, <1>6, <1>8, <1>9, <1>10
<1> QED
  BY <1>1, <1>2, <1>4, <1>6, <1>12, <1>13 DEF Places

LEMMA RevisitStep == ASSUME IInv, Revisit PROVE IInv'
<1>0. /\ phase = "expand" /\ it <= Len(neighbors) /\ it' = it + 1
      /\ UNCHANGED <<phase, world, at, id, lines, near, measured, cluster, line, neighbors>>
  BY DEF Revisit, Visit
<1>1. Sorted' /\ ListInv' /\ LinesInv' /\ PartInv'
  <2>1. ListInv'
    BY <1>0 DEF IInv, ListInv
  <2> QED
    BY <1>0, <2>1, SortedKept, LinesKept, PartKept DEF IInv
<1>2. NearInv'
  BY <1>0, NearKept DEF IInv
<1>3. /\ Turns' /\ iterations' \in 0 .. MaxPoints * MaxPoints /\ it \in Nat /\ it >= 1
      /\ it \in DOMAIN neighbors
  BY VisitCounted DEF Revisit
<1>4. neighbors \in Seq(1 .. Len(world)) /\ Len(neighbors) \in Nat
      /\ DOMAIN neighbors = 1 .. Len(neighbors)
  BY LenProperties DEF IInv, TypeOK, Places
<1>5. LineInv'
  <2>1. \A n \in DOMAIN neighbors : n < it => n < it + 1
    BY <1>3, <1>4
  <2> QED
    BY <1>0, <2>1 DEF IInv, LineInv, Taken, Reached, RisingTail, GoodLine, Chained,
                      RunsAway, Front, Close
<1>6. TypeOK'
  BY <1>0, <1>3, <1>4 DEF IInv, TypeOK, Places
<1>7. Shape'
  BY <1>0, <1>3, <1>4 DEF IInv, Shape
<1> QED
  BY <1>1, <1>2, <1>3, <1>5, <1>6, <1>7 DEF IInv

----------------------------------------------------------------------------
(* agglomerate.                                                            *)

(* With no line begun only the sorted world and the near points matter.    *)
LEMMA NoLines ==
    ASSUME line = << >>, neighbors = << >>, lines = << >>, measured = 0,
           near.da = Horizon * Horizon, near.b = Null
    PROVE  ListInv /\ LineInv /\ LinesInv /\ PartInv /\ NearInv
<1>1. DOMAIN line = {} /\ DOMAIN neighbors = {} /\ DOMAIN lines = {} /\ 1 .. measured = {}
  OBVIOUS
<1>2. ListInv
  BY <1>1 DEF ListInv, Rising
<1>3. LineInv /\ LinesInv
  BY <1>1 DEF LineInv, LinesInv
<1>4. PartInv
  BY <1>1 DEF PartInv, Distinct, Bound
<1>5. NearInv
  BY <1>1 DEF NearInv
<1> QED
  BY <1>2, <1>3, <1>4, <1>5

LEMMA NoLinesNext ==
    ASSUME line' = << >>, neighbors' = << >>, lines' = << >>, measured' = 0,
           near'.da = Horizon * Horizon, near'.b = Null
    PROVE  ListInv' /\ LineInv' /\ LinesInv' /\ PartInv' /\ NearInv'
<1>1. DOMAIN line' = {} /\ DOMAIN neighbors' = {} /\ DOMAIN lines' = {} /\ 1 .. measured' = {}
  OBVIOUS
<1>2. ListInv'
  BY <1>1 DEF ListInv, Rising
<1>3. LineInv' /\ LinesInv'
  BY <1>1 DEF LineInv, LinesInv
<1>4. PartInv'
  BY <1>1 DEF PartInv, Distinct, Bound
<1>5. NearInv'
  BY <1>1 DEF NearInv
<1> QED
  BY <1>2, <1>3, <1>4, <1>5

LEMMA EmptyLists ==
    /\ \A S : << >> \in Seq(S)
    /\ Len(<< >>) = 0
BY EmptySeq

LEMMA NearInit ==
    [a |-> Null, b |-> Null, da |-> Horizon * Horizon, db |-> Horizon * Horizon]
        \in [a : Grid \cup {Null}, da : 0 .. Horizon * Horizon,
             b : Grid \cup {Null}, db : 0 .. Horizon * Horizon]
<1>1. Horizon * Horizon \in 0 .. Horizon * Horizon
  <2> DEFINE most == Horizon * Horizon
  <2>1. most \in Nat
    BY NearInHorizon
  <2> HIDE DEF most
  <2>2. most \in 0 .. most
    BY <2>1
  <2> QED
    BY <2>2 DEF most
<1> QED
  BY <1>1

LEMMA InitInv == Init => IInv
<1> SUFFICES ASSUME Init PROVE IInv
  OBVIOUS
<1>1. /\ phase = "agglomerate" /\ world = << >> /\ cluster = << >>
      /\ at = 1 /\ id = 0 /\ line = << >> /\ neighbors = << >> /\ it = 1
      /\ lines = << >> /\ iterations = 0 /\ measured = 0
      /\ near = [a |-> Null, b |-> Null, da |-> Horizon * Horizon, db |-> Horizon * Horizon]
  BY DEF Init
<1>2. Places = {} /\ Len(world) = 0
  BY <1>1 DEF Places
<1>3. 0 \in 0 .. MaxPoints * MaxPoints
  <2> DEFINE most == MaxPoints * MaxPoints
  <2>1. most \in Nat
    BY ScannerAssumption, Squares
  <2> HIDE DEF most
  <2>2. 0 \in 0 .. most
    BY <2>1
  <2> QED
    BY <2>2 DEF most
<1>4. TypeOK
  <2>1. world \in Seq(Grid) /\ line \in Seq(Places) /\ neighbors \in Seq(Places)
        /\ lines \in Seq(Seq(Places)) /\ DOMAIN lines = {} /\ Len(lines) = 0
    BY <1>1, EmptyLists
  <2>2. cluster \in [Places -> Unbound .. MaxPoints]
    BY <1>1, <1>2
  <2>3. at \in 1 .. Len(world) + 1 /\ id \in 0 .. MaxPoints /\ Len(world) <= MaxPoints
        /\ measured \in 0 .. Len(lines)
    BY <1>1, <1>2, <2>1, ScannerAssumption
  <2>4. iterations \in 0 .. MaxPoints * MaxPoints
    BY <1>1, <1>3, Zenon
  <2> QED
    BY <1>1, <2>1, <2>2, <2>3, <2>4, NearInit DEF TypeOK
<1>5. Shape
  BY <1>1 DEF Shape
<1>6. Turns
  BY <1>1, <1>2 DEF Turns, Budget
<1>7. Sorted
  BY <1>2 DEF Sorted
<1>8. near.da = Horizon * Horizon /\ near.b = Null
  BY <1>1
<1>9. ListInv /\ LineInv /\ LinesInv /\ PartInv /\ NearInv
  BY <1>1, <1>8, NoLines
<1> QED
  BY <1>4, <1>5, <1>6, <1>7, <1>9 DEF IInv

(* A point that is not less than the last of the world goes to its end.    *)
LEMMA SortedGrows ==
    ASSUME IInv, NEW p \in Grid, Detect(p)
    PROVE  Sorted'
<1> DEFINE n == Len(world)
<1>1. /\ n \in Nat /\ Places = 1 .. n /\ world \in Seq(Grid) /\ p \in Points
      /\ \A i \in 1 .. n : world[i] \in Points
  BY WorldFacts, GridPoints DEF IInv, TypeOK, Places
<1>2. /\ Len(world') = n + 1 /\ \A i \in 1 .. n : world'[i] = world[i]
      /\ world'[n + 1] = p
  BY <1>1, AppendProperties DEF Detect
<1>3. world # << >> => ~ Less(p, world[n])
  BY DEF Detect
<1> HIDE DEF n
<1>4. ASSUME NEW i \in 1 .. n + 1, NEW j \in 1 .. n + 1, i < j
      PROVE  ~ Less(world'[j], world'[i])
  <2>1. i \in 1 .. n
    BY <1>1, <1>4
  <2>2. CASE j \in 1 .. n
    BY <1>1, <1>2, <1>4, <2>1, <2>2 DEF IInv, Sorted
  <2>3. CASE j = n + 1
    <3>1. n \in 1 .. n /\ (i = n \/ i < n)
      BY <1>1, <2>1
    <3>2. ~ Less(p, world[n])
      <4>1. world # << >>
        BY <1>1, <3>1, EmptyLists DEF n
      <4> QED
        BY <1>3, <4>1
    <3>3. ~ Less(world[n], world[i])
      <4>1. CASE i = n
        BY <1>1, <2>1, <4>1, LessIrreflexive
      <4>2. CASE i < n
        BY <1>1, <2>1, <3>1, <4>2 DEF IInv, Sorted
      <4> QED
        BY <3>1, <4>1, <4>2
    <3>4. ~ Less(p, world[i])
      BY <1>1, <2>1, <3>1, <3>2, <3>3, NotLessTransitive
    <3> QED
      BY <1>2, <2>1, <2>3, <3>4
  <2> QED
    BY <1>1, <2>2, <2>3
<1>5. Places' = 1 .. n + 1
  BY <1>2 DEF Places
<1> QED
  BY <1>4, <1>5 DEF Sorted

LEMMA DetectStep == ASSUME IInv, NEW p \in Grid, Detect(p) PROVE IInv'
<1> DEFINE n == Len(world)
<1>1. /\ phase = "agglomerate" /\ at = 1 /\ id = 0 /\ iterations = 0 /\ lines = << >>
      /\ line = << >> /\ neighbors = << >> /\ measured = 0
  BY DEF IInv, Shape, Detect
<1>2. UNCHANGED <<phase, at, id, line, neighbors, it, lines, iterations, near, measured>>
  BY DEF Detect
<1>3. near.da = Horizon * Horizon /\ near.b = Null
  <2>1. 1 .. measured = {}
    BY <1>1
  <2> QED
    BY <2>1 DEF IInv, NearInv
<1>4. ListInv' /\ LineInv' /\ LinesInv' /\ PartInv' /\ NearInv'
  <2>1. near'.da = Horizon * Horizon /\ near'.b = Null
    BY <1>2, <1>3
  <2> QED
    BY <1>1, <1>2, <2>1, NoLinesNext
<1>5. Sorted'
  BY SortedGrows
<1>6. n \in Nat /\ n < MaxPoints /\ MaxPoints \in Nat
  BY WorldFacts DEF IInv, Detect
<1>7. world' \in Seq(Grid) /\ Len(world') = n + 1
  BY AppendProperties DEF IInv, TypeOK, Detect
<1>8. cluster' \in [1 .. n + 1 -> Unbound .. MaxPoints]
  <2> DEFINE V == Unbound .. MaxPoints
  <2>1. cluster \in [1 .. n -> V] /\ Unbound \in V
    BY <1>6 DEF IInv, TypeOK, Places, Unbound
  <2> HIDE DEF V
  <2>2. cluster \in Seq(V) /\ Len(cluster) = n
    <3>1. cluster \in Seq(V)
      BY <1>6, <2>1, SeqDef
    <3>2. DOMAIN cluster = 1 .. n /\ DOMAIN cluster = 1 .. Len(cluster) /\ Len(cluster) \in Nat
      BY <2>1, <3>1, LenProperties
    <3> QED
      BY <1>6, <3>1, <3>2
  <2>3. cluster' \in Seq(V) /\ Len(cluster') = n + 1
    BY <2>1, <2>2, AppendProperties DEF Detect
  <2>4. cluster' \in [1 .. Len(cluster') -> V]
    BY <2>3, LenProperties
  <2> QED
    BY <2>3, <2>4 DEF V
<1>9. TypeOK'
  <2>1. Places' = 1 .. n + 1
    BY <1>7 DEF Places
  <2>2. /\ line' \in Seq(Places') /\ neighbors' \in Seq(Places')
        /\ lines' \in Seq(Seq(Places')) /\ DOMAIN lines' = {}
    BY <1>1, <1>2, EmptyLists
  <2>3. at' \in 1 .. Len(world') + 1 /\ Len(world') <= MaxPoints
    BY <1>1, <1>2, <1>6, <1>7
  <2>4. /\ phase' = "agglomerate" /\ id' \in 0 .. MaxPoints
        /\ iterations' \in 0 .. MaxPoints * MaxPoints /\ measured' \in 0 .. Len(lines')
        /\ near' \in [a : Grid \cup {Null}, da : 0 .. Horizon * Horizon,
                      b : Grid \cup {Null}, db : 0 .. Horizon * Horizon]
    BY <1>1, <1>2 DEF IInv, TypeOK
  <2> QED
    BY <1>7, <1>8, <2>1, <2>2, <2>3, <2>4 DEF TypeOK
<1>10. Shape'
  BY <1>1, <1>2 DEF Shape
<1>11. Turns'
  <2>1. Budget(at', Len(world'), 0) = 0
    BY <1>1, <1>2, <1>6, <1>7 DEF Budget
  <2> QED
    BY <1>1, <1>2, <2>1 DEF Turns
<1> QED
  BY <1>4, <1>5, <1>9, <1>10, <1>11 DEF IInv

----------------------------------------------------------------------------
(* Binding a point: scan_sub_lines its seed, expand a neighbor.            *)
LEMMA LinesTypes ==
    ASSUME TypeOK
    PROVE  /\ Len(lines) \in Nat /\ DOMAIN lines = 1 .. Len(lines)
           /\ \A k \in DOMAIN lines :
                 /\ lines[k] \in Seq(Places) /\ Len(lines[k]) >= 3
                 /\ \A i \in DOMAIN lines[k] : lines[k][i] \in Places
           /\ \A i \in DOMAIN line : line[i] \in Places
<1>1. lines \in Seq(Seq(Places)) /\ line \in Seq(Places)
  BY DEF TypeOK
<1>2. Len(lines) \in Nat /\ DOMAIN lines = 1 .. Len(lines)
  BY <1>1, LenProperties
<1>3. \A k \in DOMAIN lines : lines[k] \in Seq(Places) /\ Len(lines[k]) >= 3
  BY <1>1, <1>2, ElementOfSeq DEF TypeOK
<1>4. \A l \in Seq(Places) : \A i \in DOMAIN l : l[i] \in Places
  BY LenProperties, ElementOfSeq
<1> QED
  BY <1>1, <1>2, <1>3, <1>4, Zenon

LEMMA BindsOne ==
    ASSUME TypeOK, NEW p \in Places, cluster' = [cluster EXCEPT ![p] = id]
    PROVE  /\ cluster' \in [Places -> Unbound .. MaxPoints]
           /\ cluster'[p] # Unbound
           /\ \A i \in Places : cluster[i] # Unbound => cluster'[i] # Unbound
<1>1. id \in 0 .. MaxPoints /\ MaxPoints \in Nat
  BY Numbers
<1>2. id \in Unbound .. MaxPoints /\ id # Unbound
  BY <1>1 DEF Unbound
<1>3. cluster \in [Places -> Unbound .. MaxPoints]
  BY DEF TypeOK
<1> QED
  BY <1>2, <1>3

LEMMA AppendedEmpty == \A p : Append(<< >>, p) = <<p>>
OBVIOUS

(* The point bound was in no line, so it is in the current one only.       *)
LEMMA PartGrows ==
    ASSUME TypeOK, PartInv, NEW p \in Places, cluster[p] = Unbound,
           cluster' = [cluster EXCEPT ![p] = id], line' = Append(line, p), UNCHANGED lines
    PROVE  PartInv'
<1> DEFINE n == Len(world)
<1>1. n \in Nat /\ Places = 1 .. n /\ line \in Seq(1 .. n)
  BY WorldFacts DEF TypeOK, Places
<1>2. /\ \A i \in DOMAIN line : i \in DOMAIN line' /\ line'[i] = line[i]
      /\ line'[Len(line) + 1] = p
      /\ \A i \in DOMAIN line' : i \in DOMAIN line \/ i = Len(line) + 1
  BY <1>1, Appended
<1>3. \A i \in DOMAIN line : line[i] # p
  BY DEF PartInv, Bound
<1>4. \A k \in DOMAIN lines : \A i \in DOMAIN lines[k] : lines[k][i] # p
  BY DEF PartInv, Bound
<1>5. Distinct(line')
  BY <1>2, <1>3 DEF PartInv, Distinct
<1>6. \A i \in DOMAIN line' : cluster'[line'[i]] # Unbound
  BY <1>2, BindsOne, LinesTypes DEF PartInv, Bound
<1>7. ASSUME NEW k \in DOMAIN lines
      PROVE  /\ Distinct(lines[k]) /\ Apart(lines[k], line')
             /\ \A i \in DOMAIN lines[k] : cluster'[lines[k][i]] # Unbound
             /\ \A m \in DOMAIN lines : k # m => Apart(lines[k], lines[m])
  <2>1. Distinct(lines[k]) /\ \A m \in DOMAIN lines : k # m => Apart(lines[k], lines[m])
    BY DEF PartInv
  <2>2. Apart(lines[k], line')
    BY <1>2, <1>4 DEF PartInv, Apart
  <2>3. \A i \in DOMAIN lines[k] : cluster'[lines[k][i]] # Unbound
    BY BindsOne, LinesTypes DEF PartInv, Bound
  <2> QED
    BY <2>1, <2>2, <2>3
<1> QED
  BY <1>5, <1>6, <1>7 DEF PartInv, Distinct, Bound, Apart

LEMMA NeighborsList ==
    ASSUME TypeOK, NEW S \in SUBSET Places
    PROVE  /\ Ascending(S) \in Seq(Places) /\ Rising(Ascending(S))
           /\ Len(Ascending(S)) \in Nat
           /\ DOMAIN Ascending(S) = 1 .. Len(Ascending(S))
           /\ \A k \in DOMAIN Ascending(S) : Ascending(S)[k] \in S
           /\ \A j \in S : \E k \in DOMAIN Ascending(S) : Ascending(S)[k] = j
<1>1. IsFiniteSet(S) /\ S \subseteq Nat
  BY WorldFacts, FS_Subset
<1>2. /\ Ascending(S) \in Seq(S) /\ Rising(Ascending(S))
      /\ \A j \in S : \E k \in DOMAIN Ascending(S) : Ascending(S)[k] = j
  BY <1>1, AscendingLists
<1>3. /\ Len(Ascending(S)) \in Nat /\ DOMAIN Ascending(S) = 1 .. Len(Ascending(S))
      /\ \A k \in DOMAIN Ascending(S) : Ascending(S)[k] \in S
  BY <1>2, LenProperties, ElementOfSeq
<1>4. Ascending(S) \in Seq(Places)
  BY <1>2, SeqMonotonic
<1> QED
  BY <1>2, <1>3, <1>4

LEMMA SeedStep == ASSUME IInv, Seed PROVE IInv'
<1> DEFINE S == NeighborsOf(at, cluster)
<1>1. /\ phase = "scan" /\ at <= Len(world) /\ StartsLine(at)
      /\ neighbors' = Ascending(S) /\ it' = 1 /\ cluster' = [cluster EXCEPT ![at] = id]
      /\ line' = <<at>> /\ phase' = "expand"
      /\ UNCHANGED <<world, at, id, lines, iterations, near, measured>>
  BY DEF Seed
<1>2. line = << >> /\ measured = 0 /\ id < at /\ TypeOK
  BY <1>1 DEF IInv, Shape
<1>3. at \in Places /\ Len(world) \in Nat /\ Places' = Places
  BY <1>1, <1>2, Numbers DEF Places
<1>4. S \in SUBSET Places /\ \A j \in S : Close(at, j)
  BY DEF NeighborsOf
<1>5. /\ neighbors' \in Seq(Places) /\ Rising(neighbors') /\ Len(neighbors') \in Nat
      /\ \A k \in DOMAIN neighbors' : neighbors'[k] \in S
  BY <1>1, <1>2, <1>4, NeighborsList
<1>6. line' = Append(line, at) /\ line' \in Seq(Places) /\ line' # << >>
      /\ DOMAIN line' = {1} /\ line'[1] = at
  BY <1>1, <1>2, <1>3, AppendedEmpty
<1>7. TypeOK'
  <2>1. cluster' \in [Places -> Unbound .. MaxPoints]
    BY <1>1, <1>2, <1>3, BindsOne
  <2>2. it' \in 1 .. Len(neighbors') + 1
    BY <1>1, <1>5
  <2> QED
    BY <1>1, <1>2, <1>3, <1>5, <1>6, <2>1, <2>2 DEF TypeOK
<1>8. Shape'
  BY <1>1, <1>2, <1>3, <1>5, <1>6 DEF Shape, IInv
<1>9. Turns'
  <2>1. iterations <= Budget(at, Len(world), 0)
    BY <1>1 DEF IInv, Turns
  <2> QED
    BY <1>1, <2>1 DEF Turns
<1>10. Sorted' /\ LinesInv' /\ NearInv'
  BY <1>1, SortedKept, LinesKept, NearKept DEF IInv
<1>11. ListInv'
  BY <1>5 DEF ListInv
<1>12. PartInv'
  <2>1. cluster[at] = Unbound /\ PartInv
    BY <1>1 DEF StartsLine, IInv
  <2> QED
    BY <1>1, <1>2, <1>3, <1>6, <2>1, PartGrows
<1>13. LineInv'
  <2>1. \A k \in DOMAIN neighbors' : Close(line'[1], neighbors'[k])
    BY <1>4, <1>5, <1>6
  <2>2. Front(line') <= Near * Near
    BY <1>1, <1>6 DEF StartsLine, Front
  <2>3. \A j \in DOMAIN line' : ~ (j > 1) /\ ~ (1 < j) /\ ~ (j > 2)
    BY <1>6
  <2>4. Taken' /\ RisingTail(line')
    BY <2>3 DEF Taken, RisingTail
  <2>5. Reached'
    BY <1>1, <1>6, <2>1 DEF Reached, Close
  <2>6. GoodLine(line)'
    BY <1>1, <2>2, <2>3 DEF GoodLine, Chained, RunsAway, Front
  <2> QED
    BY <2>4, <2>5, <2>6 DEF LineInv, RisingTail
<1> QED
  BY <1>7, <1>8, <1>9, <1>10, <1>11, <1>12, <1>13 DEF IInv

(* Bind, part by part. The neighbors the list gets lie beyond its last.    *)
LEMMA BindLists ==
    ASSUME IInv, Bind
    PROVE  /\ neighbors' \in Seq(Places) /\ Rising(neighbors')
           /\ Len(neighbors) \in Nat /\ Len(neighbors') \in Nat
           /\ Len(neighbors) <= Len(neighbors')
           /\ \A k \in DOMAIN neighbors : k \in DOMAIN neighbors' /\ neighbors'[k] = neighbors[k]
           /\ \A k \in DOMAIN neighbors' :
                 \/ k \in DOMAIN neighbors
                 \/ /\ k > Len(neighbors) /\ Close(neighbors[it], neighbors'[k])
                    /\ cluster'[neighbors'[k]] = Unbound
           /\ \A i \in Places : cluster'[i] = Unbound /\ Close(neighbors[it], i) =>
                 \/ \E k \in DOMAIN neighbors' : neighbors'[k] = i
                 \/ ~ Less(world[neighbors[Len(neighbors)]], world[i])
<1> DEFINE n    == Len(world)
           last == neighbors[Len(neighbors)]
           new  == NeighborsOf(neighbors[it], cluster')
           t    == Ascending(Beyond(last, new))
<1>1. TypeOK /\ Sorted /\ Rising(neighbors)
  BY DEF IInv, ListInv
<1>2. n \in Nat /\ Places = 1 .. n /\ neighbors \in Seq(1 .. n)
  BY <1>1, WorldFacts DEF TypeOK, Places
<1>3. Len(neighbors) \in Nat /\ DOMAIN neighbors = 1 .. Len(neighbors)
  BY <1>2, LenProperties
<1>4. it \in DOMAIN neighbors
  BY VisitCounted DEF Bind
<1>5. Len(neighbors) \in DOMAIN neighbors /\ neighbors # << >> /\ last \in Places
  BY <1>2, <1>3, <1>4, ElementOfSeq
<1>6. /\ new \in SUBSET Places
      /\ \A j \in Places : j \in new <=> cluster'[j] = Unbound /\ Close(neighbors[it], j)
  BY DEF NeighborsOf, Bind, Visit, Places
<1>7. neighbors' = neighbors \o t
  BY DEF Bind
<1> HIDE DEF last, new
<1>8. \A j \in Beyond(last, new) : j \in new /\ last < j
  BY <1>1, <1>5, <1>6, BeyondLast
<1>9. Beyond(last, new) \in SUBSET Places
  BY <1>6, <1>8
<1>10. /\ t \in Seq(Places) /\ Rising(t) /\ Len(t) \in Nat /\ DOMAIN t = 1 .. Len(t)
       /\ \A k \in DOMAIN t : t[k] \in Beyond(last, new)
       /\ \A j \in Beyond(last, new) : \E k \in DOMAIN t : t[k] = j
  BY <1>1, <1>9, NeighborsList
<1> HIDE DEF t
<1>11. Rising(neighbors')
  <2>1. \A j \in DOMAIN t : neighbors[Len(neighbors)] < t[j]
    BY <1>8, <1>10 DEF last
  <2> QED
    BY <1>1, <1>2, <1>5, <1>7, <1>10, <2>1, RisingJoined
<1>12. /\ neighbors' \in Seq(1 .. n) /\ Len(neighbors') = Len(neighbors) + Len(t)
       /\ \A k \in 1 .. Len(neighbors) + Len(t) :
             neighbors'[k] = IF k <= Len(neighbors) THEN neighbors[k]
                             ELSE t[k - Len(neighbors)]
  BY <1>2, <1>7, <1>10, ConcatProperties
<1>13. DOMAIN neighbors' = 1 .. Len(neighbors) + Len(t)
  BY <1>12, LenProperties
<1>14. \A k \in DOMAIN neighbors : k \in DOMAIN neighbors' /\ neighbors'[k] = neighbors[k]
  BY <1>3, <1>10, <1>12, <1>13
<1>15. ASSUME NEW k \in DOMAIN neighbors', k \notin DOMAIN neighbors
       PROVE  /\ k > Len(neighbors) /\ Close(neighbors[it], neighbors'[k])
              /\ cluster'[neighbors'[k]] = Unbound
  <2>1. /\ k - Len(neighbors) \in DOMAIN t /\ ~ (k <= Len(neighbors))
        /\ k > Len(neighbors)
    BY <1>3, <1>10, <1>13, <1>15
  <2>2. neighbors'[k] = t[k - Len(neighbors)]
    BY <1>12, <1>13, <2>1
  <2> QED
    BY <1>6, <1>8, <1>9, <1>10, <2>1, <2>2
<1>16. ASSUME NEW i \in Places, cluster'[i] = Unbound, Close(neighbors[it], i),
              Less(world[last], world[i])
       PROVE  \E k \in DOMAIN neighbors' : neighbors'[k] = i
  <2>1. i \in new /\ i <= i
    BY <1>2, <1>6, <1>16
  <2>2. i \in Beyond(last, new)
    BY <1>16, <2>1 DEF Beyond
  <2>3. PICK k \in DOMAIN t : t[k] = i
    BY <1>10, <2>2
  <2> DEFINE m == k + Len(neighbors)
  <2>4. m \in 1 .. Len(neighbors) + Len(t) /\ ~ (m <= Len(neighbors))
        /\ m - Len(neighbors) = k
    BY <1>3, <1>10, <2>3
  <2> HIDE DEF m
  <2>5. neighbors'[m] = t[m - Len(neighbors)]
    BY <1>12, <2>4, Zenon
  <2> QED
    BY <1>13, <2>3, <2>4, <2>5
<1> QED
  BY <1>2, <1>3, <1>10, <1>11, <1>12, <1>14, <1>15, <1>16 DEF last

(* The line gets the neighbor visited: it lies beyond those visited before *)
(* and within reach of a point of the line.                                *)
LEMMA BindLine ==
    ASSUME IInv, Bind
    PROVE  /\ line' \in Seq(Places) /\ line' # << >>
           /\ Taken' /\ Reached' /\ RisingTail(line') /\ GoodLine(line)'
<1> DEFINE p == neighbors[it]
           e == Len(line) + 1
<1>0. /\ TypeOK /\ Sorted /\ Rising(neighbors) /\ line # << >>
      /\ Taken /\ Reached /\ RisingTail(line) /\ Chained(line) /\ RunsAway(line)
      /\ Front(line) <= Near * Near
  BY DEF IInv, ListInv, Shape, LineInv, GoodLine, Bind, Visit
<1>1. it' = it + 1 /\ line' = Append(line, p) /\ UNCHANGED world
  BY DEF Bind, Visit
<1>2. Len(world) \in Nat /\ Places = 1 .. Len(world) /\ line \in Seq(Places)
  BY <1>0, WorldFacts DEF TypeOK, Places
<1>3. it \in Nat /\ it \in DOMAIN neighbors
  BY VisitCounted DEF Bind
<1>4. /\ neighbors \in Seq(Places) /\ DOMAIN neighbors \subseteq Nat
      /\ \A k \in DOMAIN neighbors : neighbors[k] \in Places /\ neighbors[k] \in Nat
  BY <1>0, <1>2, Lists DEF TypeOK
<1>5. p \in Places
  BY <1>3, <1>4
<1>6. /\ line' \in Seq(Places) /\ line' # << >> /\ Len(line) \in Nat
      /\ DOMAIN line' = 1 .. e /\ DOMAIN line = 1 .. Len(line)
      /\ \A i \in DOMAIN line : i \in DOMAIN line' /\ line'[i] = line[i]
      /\ line'[e] = p /\ e \in DOMAIN line'
      /\ \A i \in DOMAIN line' : i \in DOMAIN line \/ i = e
  BY <1>1, <1>2, <1>5, Appended
<1>7. 1 \in DOMAIN line /\ line'[1] = line[1]
  BY <1>0, <1>2, <1>6, EmptySeq
<1>8. /\ \A k \in DOMAIN neighbors : k \in DOMAIN neighbors' /\ neighbors'[k] = neighbors[k]
      /\ \A k \in DOMAIN neighbors' : k \in DOMAIN neighbors \/ Close(p, neighbors'[k])
  BY BindLists
<1> HIDE DEF p, e
<1>9. Taken'
  <2>1. ASSUME NEW j \in DOMAIN line', j > 1
        PROVE  \E k \in DOMAIN neighbors' : k < it + 1 /\ line'[j] = neighbors'[k]
    <3>1. CASE j \in DOMAIN line
      <4>1. PICK k \in DOMAIN neighbors : k < it /\ line[j] = neighbors[k]
        BY <1>0, <2>1, <3>1 DEF Taken
      <4>2. k < it + 1
        BY <1>3, <1>4, <4>1
      <4> QED
        BY <1>6, <1>8, <3>1, <4>1, <4>2
    <3>2. CASE j = e
      <4>1. it < it + 1 /\ it \in DOMAIN neighbors' /\ neighbors'[it] = p
        BY <1>3, <1>8 DEF p
      <4> QED
        BY <1>6, <3>2, <4>1
    <3> QED
      BY <1>6, <3>1, <3>2
  <2> QED
    BY <1>1, <2>1 DEF Taken
<1>10. Reached'
  <2>1. ASSUME NEW k \in DOMAIN neighbors'
        PROVE  \E i \in DOMAIN line' : Close(line'[i], neighbors'[k])
    <3>1. CASE k \in DOMAIN neighbors
      <4>1. PICK i \in DOMAIN line : Close(line[i], neighbors[k])
        BY <1>0, <3>1 DEF Reached
      <4> QED
        BY <1>6, <1>8, <3>1, <4>1
    <3>2. CASE Close(p, neighbors'[k])
      BY <1>6, <3>2
    <3> QED
      BY <1>8, <3>1, <3>2
  <2> QED
    BY <1>1, <2>1 DEF Reached, Close
\* The points after the first rise up to the one that is bound.
<1>11. \A j \in DOMAIN line : j > 1 => line[j] < p
  BY <1>0, <1>3 DEF Taken, Rising, p
<1>12. RisingTail(line')
  <2>1. ASSUME NEW i \in DOMAIN line', NEW j \in DOMAIN line', 1 < i, i < j
        PROVE  line'[i] < line'[j]
    <3>1. i \in DOMAIN line
      BY <1>6, <2>1 DEF e
    <3>2. CASE j \in DOMAIN line
      BY <1>0, <1>6, <2>1, <3>1, <3>2 DEF RisingTail
    <3>3. CASE j = e
      <4>1. i > 1
        BY <1>6, <2>1
      <4> QED
        BY <1>6, <1>11, <3>1, <3>3, <4>1
    <3> QED
      BY <1>6, <3>2, <3>3
  <2> QED
    BY <2>1 DEF RisingTail
<1>13. Chained(line)'
  <2>1. ASSUME NEW j \in DOMAIN line', j > 1
        PROVE  \E i \in 1 .. j - 1 : Close(line'[i], line'[j])
    <3>1. CASE j \in DOMAIN line
      <4>1. PICK i \in 1 .. j - 1 : Close(line[i], line[j])
        BY <1>0, <2>1, <3>1 DEF Chained
      <4>2. i \in DOMAIN line
        BY <1>6, <3>1, <4>1
      <4> QED
        BY <1>6, <3>1, <4>1, <4>2
    <3>2. CASE j = e
      <4>1. PICK i \in DOMAIN line : Close(line[i], p)
        BY <1>0, <1>3 DEF Reached, p
      <4>2. i \in 1 .. j - 1
        BY <1>6, <3>2, <4>1 DEF e
      <4> QED
        BY <1>6, <3>2, <4>1, <4>2
    <3> QED
      BY <1>6, <3>1, <3>2
  <2> QED
    BY <1>1, <2>1 DEF Chained, Close
<1>14. RunsAway(line)'
  <2>1. ASSUME NEW j \in DOMAIN line', j > 2
        PROVE  ~ Less(world[line'[j]], world[line'[j - 1]])
    <3>1. j - 1 \in DOMAIN line /\ j - 1 > 1
      BY <1>6, <2>1 DEF e
    <3>2. CASE j \in DOMAIN line
      BY <1>0, <1>6, <2>1, <3>1, <3>2 DEF RunsAway
    <3>3. CASE j = e
      <4>1. line[j - 1] < p /\ line[j - 1] \in Places
        BY <1>0, <1>11, <3>1, LinesTypes
      <4>2. ~ Less(world[p], world[line[j - 1]])
        BY <1>0, <1>5, <4>1 DEF Sorted
      <4> QED
        BY <1>6, <3>1, <3>3, <4>2
    <3> QED
      BY <1>6, <3>2, <3>3
  <2> QED
    BY <1>1, <2>1 DEF RunsAway
<1>15. Front(line)' <= Near * Near
  BY <1>0, <1>1, <1>7 DEF Front
<1> QED
  BY <1>6, <1>9, <1>10, <1>12, <1>13, <1>14, <1>15 DEF GoodLine

LEMMA BindStep == ASSUME IInv, Bind PROVE IInv'
<1>1. /\ phase = "expand" /\ it <= Len(neighbors) /\ it' = it + 1
      /\ UNCHANGED <<phase, world, at, id, lines, near, measured>>
      /\ cluster[neighbors[it]] = Unbound
      /\ cluster' = [cluster EXCEPT ![neighbors[it]] = id]
      /\ line' = Append(line, neighbors[it])
  BY DEF Bind, Visit
<1>2. TypeOK /\ PartInv /\ Places' = Places
  BY <1>1 DEF IInv, Places
<1>3. /\ Turns' /\ iterations' \in 0 .. MaxPoints * MaxPoints /\ it \in Nat /\ it >= 1
      /\ it \in DOMAIN neighbors
  BY VisitCounted DEF Bind
<1>4. neighbors[it] \in Places
  <2>1. neighbors \in Seq(Places)
    BY <1>2 DEF TypeOK
  <2> QED
    BY <1>3, <2>1, LenProperties, ElementOfSeq
<1>5. /\ neighbors' \in Seq(Places) /\ Rising(neighbors')
      /\ Len(neighbors) \in Nat /\ Len(neighbors') \in Nat /\ Len(neighbors) <= Len(neighbors')
  BY BindLists
<1>6. /\ line' \in Seq(Places) /\ line' # << >>
      /\ Taken' /\ Reached' /\ RisingTail(line') /\ GoodLine(line)'
  BY BindLine
<1>7. it' \in 1 .. Len(neighbors') + 1
  BY <1>1, <1>3, <1>5
<1>8. TypeOK'
  <2>1. cluster' \in [Places -> Unbound .. MaxPoints]
    BY <1>1, <1>2, <1>4, BindsOne
  <2> QED
    BY <1>1, <1>2, <1>3, <1>5, <1>6, <1>7, <2>1 DEF TypeOK
<1>9. Shape'
  <2>1. it' <= Len(neighbors') + 1
    BY <1>5, <1>7
  <2> QED
    BY <1>1, <1>6, <2>1 DEF Shape, IInv
<1>10. Sorted' /\ LinesInv' /\ NearInv'
  BY <1>1, SortedKept, LinesKept, NearKept DEF IInv
<1>11. ListInv' /\ LineInv'
  BY <1>5, <1>6 DEF ListInv, LineInv, RisingTail
<1>12. PartInv'
  BY <1>1, <1>2, <1>4, PartGrows
<1> QED
  BY <1>3, <1>8, <1>9, <1>10, <1>11, <1>12 DEF IInv

----------------------------------------------------------------------------
(* Closing a line: what was said of the current line is said of a kept one.*)
LEMMA Closed ==
    ASSUME TypeOK, CloseLine
    PROVE  \/ lines' = lines
           \/ /\ lines' \in Seq(Seq(Places)) /\ Len(line) >= 3 /\ line # << >>
              /\ DOMAIN lines' = 1 .. Len(lines) + 1
              /\ \A k \in DOMAIN lines : k \in DOMAIN lines' /\ lines'[k] = lines[k]
              /\ lines'[Len(lines) + 1] = line
              /\ \A k \in DOMAIN lines' : k \in DOMAIN lines \/ k = Len(lines) + 1
<1>1. CASE Len(line) < 3
  BY <1>1 DEF CloseLine
<1>2. CASE ~ (Len(line) < 3)
  <2>1. lines' = Append(lines, line)
    BY <1>2 DEF CloseLine
  <2>2. lines \in Seq(Seq(Places)) /\ line \in Seq(Places)
    BY DEF TypeOK
  <2>3. /\ lines' \in Seq(Seq(Places)) /\ Len(lines') = Len(lines) + 1
        /\ \A k \in 1 .. Len(lines) : lines'[k] = lines[k]
        /\ lines'[Len(lines) + 1] = line
    BY <2>1, <2>2, AppendProperties
  <2>4. /\ Len(lines) \in Nat /\ DOMAIN lines = 1 .. Len(lines)
        /\ DOMAIN lines' = 1 .. Len(lines) + 1
    BY <2>2, <2>3, LenProperties
  <2>5. 1 .. Len(lines) + 1 = (1 .. Len(lines)) \cup {Len(lines) + 1}
    BY <2>4
  <2>6. Len(line) >= 3 /\ line # << >>
    <3>1. Len(line) \in Nat
      BY <2>2, LenProperties
    <3> QED
      BY <1>2, <3>1, EmptyLists
  <2> QED
    BY <2>3, <2>4, <2>5, <2>6
<1> QED
  BY <1>1, <1>2

LEMMA ClosedParts ==
    ASSUME IInv, CloseLine
    PROVE  LinesInv' /\ PartInv'
<1>1. TypeOK /\ LinesInv /\ PartInv /\ UNCHANGED <<world, cluster>> /\ line' = << >>
  BY DEF IInv, CloseLine
<1>2. line # << >> => GoodLine(line)
  BY DEF IInv, LineInv
<1>3. \A k \in DOMAIN lines' :
         \/ k \in DOMAIN lines /\ lines'[k] = lines[k]
         \/ k \notin DOMAIN lines /\ lines'[k] = line /\ line # << >>
            /\ \A m \in DOMAIN lines' : m = k \/ m \in DOMAIN lines
  BY <1>1, Closed, LinesTypes
<1>4. \A k \in DOMAIN lines' : GoodLine(lines'[k])
  BY <1>1, <1>2, <1>3 DEF LinesInv
<1>5. LinesInv'
  BY <1>1, <1>4 DEF LinesInv, GoodLine, Chained, RunsAway, Front, Close
<1>6. DOMAIN line' = {}
  BY <1>1
<1>7. ASSUME NEW k \in DOMAIN lines'
      PROVE  /\ Distinct(lines'[k]) /\ Bound(lines'[k])
             /\ \A m \in DOMAIN lines' : k # m => Apart(lines'[k], lines'[m])
  <2>1. \A m \in DOMAIN lines : Apart(lines[m], line) /\ Apart(line, lines[m])
    BY <1>1 DEF PartInv, Apart
  <2>2. \A m \in DOMAIN lines' : k # m => Apart(lines'[k], lines'[m])
    BY <1>1, <1>3, <2>1 DEF PartInv
  <2> QED
    BY <1>1, <1>3, <2>2 DEF PartInv
<1>8. PartInv'
  BY <1>1, <1>6, <1>7 DEF PartInv, Distinct, Bound, Apart
<1> QED
  BY <1>5, <1>8

LEMMA CloseLineStep == ASSUME IInv, CloseLine PROVE IInv'
<1>1. /\ phase = "expand" /\ it > Len(neighbors) /\ id' = id + 1 /\ at' = at + 1
      /\ phase' = "scan" /\ line' = << >> /\ neighbors' = << >>
      /\ UNCHANGED <<world, cluster, it, iterations, near, measured>>
  BY DEF CloseLine
<1>2. /\ TypeOK /\ measured = 0 /\ at <= Len(world) /\ id < at /\ it <= Len(neighbors) + 1
      /\ Rising(neighbors) /\ Places' = Places
  BY <1>1 DEF IInv, Shape, ListInv, Places
<1>3. /\ Len(world) \in Nat /\ MaxPoints \in Nat /\ Len(world) <= MaxPoints
      /\ at \in Nat /\ at >= 1 /\ id \in Nat /\ iterations \in Nat
      /\ at' \in 1 .. Len(world) + 1 /\ id' \in 0 .. MaxPoints /\ id' < at'
  <2>1. /\ Len(world) \in Nat /\ MaxPoints \in Nat /\ Len(world) <= MaxPoints
        /\ at \in 1 .. Len(world) + 1 /\ id \in 0 .. MaxPoints /\ iterations \in Nat
    BY <1>2, Numbers
  <2> QED
    BY <1>1, <1>2, <2>1
<1>4. neighbors \in Seq(1 .. Len(world)) /\ Len(neighbors) \in Nat
  BY <1>2, LenProperties DEF TypeOK, Places
<1>5. LinesInv' /\ PartInv'
  BY ClosedParts
<1>6. Sorted' /\ ListInv' /\ LineInv'
  <2>1. DOMAIN neighbors' = {}
    BY <1>1
  <2>2. ListInv' /\ LineInv'
    BY <1>1, <2>1 DEF ListInv, LineInv, Rising
  <2> QED
    BY <1>1, <2>2, SortedKept DEF IInv
<1>7. NearInv'
  <2>1. 1 .. measured = {}
    BY <1>2
  <2>2. near.da = Horizon * Horizon /\ near.b = Null
    BY <2>1 DEF IInv, NearInv
  <2>3. 1 .. measured' = {} /\ near'.da = Horizon * Horizon /\ near'.b = Null
    BY <1>1, <2>1, <2>2
  <2> QED
    BY <2>3 DEF NearInv
<1>8. Turns'
  <2>1. iterations <= Budget(at, Len(world), it - 1)
    BY <1>1 DEF IInv, Turns
  <2>2. it \in Nat
    BY <1>1, <1>2, <1>4 DEF TypeOK
  <2>3. Len(neighbors) <= Len(world)
    BY <1>2, <1>3, <1>4, RisingIsShort
  <2>4. it - 1 \in Int /\ it - 1 <= Len(world) /\ iterations \in Int
    BY <1>2, <1>3, <1>4, <2>2, <2>3
  <2>5. iterations <= Budget(at + 1, Len(world), 0)
    BY <1>3, <2>1, <2>4, TurnsOfNext, Zenon
  <2> QED
    BY <1>1, <2>5 DEF Turns
<1>9. TypeOK'
  <2>1. /\ lines' \in Seq(Seq(Places)) /\ Len(lines') \in Nat
        /\ \A k \in DOMAIN lines' : Len(lines'[k]) >= 3
    <3>1. /\ lines \in Seq(Seq(Places)) /\ Len(lines) \in Nat
          /\ \A k \in DOMAIN lines : Len(lines[k]) >= 3
      BY <1>2, LenProperties DEF TypeOK
    <3>2. lines' \in Seq(Seq(Places)) /\ \A k \in DOMAIN lines' : Len(lines'[k]) >= 3
      BY <1>2, <3>1, Closed
    <3> QED
      BY <3>2, LenProperties
  <2>2. measured' \in 0 .. Len(lines')
    BY <1>1, <1>2, <2>1
  <2>3. line' \in Seq(Places) /\ neighbors' \in Seq(Places)
    BY <1>1, EmptyLists
  <2> QED
    BY <1>1, <1>2, <1>3, <2>1, <2>2, <2>3 DEF TypeOK
<1>10. Shape'
  BY <1>1, <1>2, <1>3 DEF Shape, IInv
<1> QED
  BY <1>5, <1>6, <1>7, <1>8, <1>9, <1>10 DEF IInv

----------------------------------------------------------------------------
(* get_near_point.                                                         *)

\* A line begins nearer to the robot than the distance the search starts from.
LEMMA LineFacts ==
    ASSUME IInv, NEW k \in DOMAIN lines
    PROVE  /\ Front(lines[k]) \in 0 .. Horizon * Horizon
           /\ Front(lines[k]) < Horizon * Horizon
           /\ Second(lines[k]) \in Grid
<1> DEFINE l == lines[k]
           most == Horizon * Horizon
           edge == Near * Near
<1>1. l \in Seq(Places) /\ Len(l) >= 3 /\ GoodLine(l)
  BY LinesTypes DEF IInv, LinesInv
<1> HIDE DEF l
<1>2. Len(l) \in Nat
  BY <1>1, LenProperties
<1>3. 1 \in 1 .. Len(l) /\ 2 \in 1 .. Len(l)
  BY <1>1, <1>2
<1>4. l[1] \in Places /\ l[2] \in Places
  BY <1>1, <1>3, ElementOfSeq
<1>5. world[l[2]] \in Grid
  BY <1>4, ElementOfSeq DEF IInv, TypeOK, Places
<1>6. Front(l) \in Nat
  <2>1. world[l[1]] \in Points
    BY <1>4, WorldFacts DEF IInv
  <2> QED
    BY <2>1, GridPoints, DistanceType DEF Front
<1>7. Front(l) <= edge
  BY <1>1 DEF GoodLine
<1>8. edge < most /\ edge \in Nat /\ most \in Nat
  BY NearInHorizon, ScannerAssumption, Squares
<1> HIDE DEF most, edge
<1>9. Front(l) \in 0 .. most /\ Front(l) < most
  BY <1>6, <1>7, <1>8
<1> QED
  BY <1>5, <1>9 DEF l, most, Second

LEMMA MeasureNear ==
    ASSUME IInv, Measure
    PROVE  NearInv'
<1> DEFINE m == measured + 1
           l == lines[m]
           most == Horizon * Horizon
<1>1. /\ measured < Len(lines) /\ near' = Nearer(l) /\ measured' = m
      /\ UNCHANGED <<world, lines>>
  BY DEF Measure, scan
<1>2. measured \in Nat /\ m \in 1 .. m /\ m \in DOMAIN lines /\ 1 .. m \subseteq DOMAIN lines
      /\ 1 .. m = (1 .. measured) \cup {m} /\ m \notin 1 .. measured
  <2>1. TypeOK /\ measured \in 0 .. Len(lines)
    BY DEF IInv, TypeOK
  <2>2. Len(lines) \in Nat /\ DOMAIN lines = 1 .. Len(lines)
    BY <2>1, LinesTypes
  <2>3. measured \in Nat
    BY <2>1, <2>2
  <2> QED
    BY <1>1, <2>2, <2>3
<1>3. \A k \in DOMAIN lines : Front(lines[k]) \in Int /\ Front(lines[k]) < most
  <2>1. \A k \in DOMAIN lines : Front(lines[k]) \in 0 .. most /\ Front(lines[k]) < most
    BY LineFacts
  <2> HIDE DEF most
  <2> QED
    BY <2>1
<1>4. near \in [a : Grid \cup {Null}, da : 0 .. most, b : Grid \cup {Null}, db : 0 .. most]
  BY DEF IInv, TypeOK
<1>5. /\ \A k \in 1 .. measured : near.da <= Front(lines[k])
      /\ near.da = most \/ \E k \in 1 .. measured : First(k)
      /\ \/ near.b = Null
         \/ \E k, n \in 1 .. measured :
               /\ k # n /\ First(k) /\ near.b = Second(lines[n])
               /\ Front(lines[k]) <= Front(lines[n])
  BY DEF IInv, NearInv
<1> HIDE DEF m, most
<1>6. near.da \in Int /\ near.db \in Int
  BY <1>4
\* What NearInv says next, in terms of the world and the lines of now.
<1> DEFINE Holds(r) ==
        /\ \A k \in 1 .. m : r.da <= Front(lines[k])
        /\ r.da = most \/ \E k \in 1 .. m : r.a = Second(lines[k]) /\ r.da = Front(lines[k])
        /\ \/ r.b = Null
           \/ \E k, n \in 1 .. m :
                 /\ k # n /\ r.a = Second(lines[k]) /\ r.da = Front(lines[k])
                 /\ r.b = Second(lines[n]) /\ Front(lines[k]) <= Front(lines[n])
<1>7. ASSUME Front(l) < near.da PROVE Holds(near')
  <2>1. /\ near'.a = Second(l) /\ near'.da = Front(l) /\ near'.b = near.b
    BY <1>1, <1>4, <1>7 DEF Nearer
  <2>2. \A k \in 1 .. measured : Front(l) <= Front(lines[k])
    BY <1>2, <1>3, <1>5, <1>6, <1>7
  <2>3. \A k \in 1 .. m : near'.da <= Front(lines[k])
    BY <1>2, <1>3, <2>1, <2>2
  <2>4. ASSUME near.b # Null
        PROVE  \E k, n \in 1 .. m :
                 /\ k # n /\ near'.a = Second(lines[k]) /\ near'.da = Front(lines[k])
                 /\ near'.b = Second(lines[n]) /\ Front(lines[k]) <= Front(lines[n])
    <3>1. PICK n \in 1 .. measured : near.b = Second(lines[n])
      BY <1>5, <2>4
    <3>2. n \in 1 .. m /\ m # n /\ Front(l) <= Front(lines[n])
      BY <1>2, <2>2, <3>1
    <3> QED
      BY <1>2, <2>1, <3>1, <3>2
  <2> QED
    BY <1>2, <2>1, <2>3, <2>4
<1>8. ASSUME ~ (Front(l) < near.da), Front(l) < near.db PROVE Holds(near')
  <2>1. /\ near'.a = near.a /\ near'.da = near.da /\ near'.b = Second(l)
    BY <1>1, <1>4, <1>8 DEF Nearer
  <2>2. near.da <= Front(l)
    BY <1>2, <1>3, <1>6, <1>8
  <2>3. near.da # most
    BY <1>2, <1>3, <1>8
  <2>4. PICK k \in 1 .. measured : near.a = Second(lines[k]) /\ near.da = Front(lines[k])
    BY <1>5, <2>3 DEF First
  <2>5. k \in 1 .. m /\ k # m
    BY <1>2, <2>4
  <2>6. \A j \in 1 .. m : near'.da <= Front(lines[j])
    BY <1>2, <1>5, <2>1, <2>2
  <2> QED
    BY <1>2, <2>1, <2>2, <2>4, <2>5, <2>6
<1>9. ASSUME ~ (Front(l) < near.da), ~ (Front(l) < near.db) PROVE Holds(near')
  <2>1. near' = near
    BY <1>1, <1>9 DEF Nearer
  <2>2. near.da <= Front(l)
    BY <1>2, <1>3, <1>6, <1>9
  <2>3. \A j \in 1 .. m : near.da <= Front(lines[j])
    BY <1>2, <1>5, <2>2
  <2>4. \A j \in 1 .. measured : j \in 1 .. m
    BY <1>2
  <2> QED
    BY <1>5, <2>1, <2>3, <2>4, Zenon DEF First
<1>10. Holds(near')
  BY <1>7, <1>8, <1>9
<1> QED
  BY <1>1, <1>10 DEF NearInv, First, Second, Front, most

LEMMA MeasureStep == ASSUME IInv, Measure PROVE IInv'
<1> DEFINE l == lines[measured + 1]
<1>1. /\ phase = "measure" /\ measured < Len(lines) /\ near' = Nearer(l)
      /\ measured' = measured + 1
      /\ UNCHANGED <<phase, world, cluster, at, id, line, neighbors, it, lines, iterations>>
  BY DEF Measure, scan
<1>2. Sorted' /\ ListInv' /\ LineInv' /\ LinesInv' /\ PartInv'
  BY <1>1, RestKept
<1>3. NearInv'
  BY MeasureNear
<1>4. /\ measured \in Nat /\ Len(lines) \in Nat /\ measured + 1 \in DOMAIN lines
      /\ measured' \in 0 .. Len(lines)
  <2>1. TypeOK /\ measured \in 0 .. Len(lines)
    BY DEF IInv, TypeOK
  <2>2. Len(lines) \in Nat /\ DOMAIN lines = 1 .. Len(lines)
    BY <2>1, LinesTypes
  <2> QED
    BY <1>1, <2>1, <2>2
<1>5. near' \in [a : Grid \cup {Null}, da : 0 .. Horizon * Horizon,
                 b : Grid \cup {Null}, db : 0 .. Horizon * Horizon]
  <2>1. Front(l) \in 0 .. Horizon * Horizon /\ Second(l) \in Grid
    BY <1>4, LineFacts
  <2>2. near \in [a : Grid \cup {Null}, da : 0 .. Horizon * Horizon,
                  b : Grid \cup {Null}, db : 0 .. Horizon * Horizon]
    BY DEF IInv, TypeOK
  <2> HIDE DEF l
  <2> QED
    BY <1>1, <2>1, <2>2 DEF Nearer
<1>6. TypeOK'
  BY <1>1, <1>4, <1>5 DEF IInv, TypeOK, Places
<1>7. Shape'
  BY <1>1 DEF IInv, Shape
<1>8. Turns'
  BY <1>1 DEF IInv, Turns
<1> QED
  BY <1>2, <1>3, <1>6, <1>7, <1>8 DEF IInv

----------------------------------------------------------------------------
LEMMA StutterStep == IInv /\ UNCHANGED vars => IInv'
<1> SUFFICES ASSUME IInv, UNCHANGED vars PROVE IInv'
  OBVIOUS
<1>1. UNCHANGED <<phase, world, cluster, at, id, line, neighbors, it, lines, iterations,
                  near, measured>>
  BY DEF vars, scan
<1>2. Sorted' /\ ListInv' /\ LineInv' /\ LinesInv' /\ PartInv' /\ NearInv'
  BY <1>1, RestKept, NearKept DEF IInv
<1>3. TypeOK' /\ Shape' /\ Turns'
  BY <1>1 DEF IInv, TypeOK, Shape, Turns, Places
<1> QED
  BY <1>2, <1>3 DEF IInv

LEMMA NextInv == IInv /\ [Next]_vars => IInv'
<1> SUFFICES ASSUME IInv, [Next]_vars PROVE IInv'
  OBVIOUS
<1>1. ASSUME NEW p \in Grid, Detect(p) PROVE IInv'
  BY <1>1, DetectStep
<1>2. CASE Agglomerated
  BY <1>2, AgglomeratedStep
<1>3. CASE Skip
  BY <1>3, SkipStep
<1>4. CASE Seed
  BY <1>4, SeedStep
<1>5. CASE CloseLine
  BY <1>5, CloseLineStep
<1>6. CASE Finish
  BY <1>6, FinishStep
<1>7. CASE Revisit
  BY <1>7, RevisitStep
<1>8. CASE Bind
  BY <1>8, BindStep
<1>9. CASE Measure
  BY <1>9, MeasureStep
<1>10. CASE Return
  BY <1>10, ReturnStep
<1>11. CASE UNCHANGED vars
  BY <1>11, StutterStep
<1> QED
  BY <1>1, <1>2, <1>3, <1>4, <1>5, <1>6, <1>7, <1>8, <1>9, <1>10, <1>11 DEF Next

LEMMA Invariant == Spec => []IInv
BY InitInv, NextInv, PTL DEF Spec

(* THEOREM: the scanner's state keeps its types: its list is never left by *)
(* its iterator, a kept line has three points at least, and _iterations    *)
(* _count stays below the square of the number of points.                  *)
THEOREM TypeCorrect == Spec => []TypeOK
<1>1. IInv => TypeOK
  BY DEF IInv
<1> QED
  BY <1>1, Invariant, PTL

(* THEOREM: expand appends to the list it iterates over, and no point gets *)
(* into that list twice.                                                   *)
THEOREM NoPointListedTwiceHolds == Spec => []NoPointListedTwice
<1>1. ASSUME IInv PROVE NoPointListedTwice
  <2> SUFFICES ASSUME NEW i \in DOMAIN neighbors, NEW j \in DOMAIN neighbors,
                      neighbors[i] = neighbors[j], i # j
               PROVE  FALSE
    BY DEF NoPointListedTwice
  <2>1. Len(world) \in Nat /\ neighbors \in Seq(1 .. Len(world)) /\ Rising(neighbors)
    BY <1>1, WorldFacts DEF IInv, TypeOK, ListInv, Places
  <2>2. i \in Nat /\ j \in Nat /\ neighbors[i] \in Nat /\ neighbors[j] \in Nat
    BY <2>1, Lists
  <2>3. i < j \/ j < i
    BY <2>2
  <2> QED
    BY <2>1, <2>2, <2>3 DEF Rising
<1> QED
  BY <1>1, Invariant, PTL

(* What holds of the lines kept and of the current one holds of AllLines.  *)
LEMMA AllLinesAre ==
    ASSUME TypeOK
    PROVE  \A k \in DOMAIN AllLines :
               \/ k \in DOMAIN lines /\ AllLines[k] = lines[k]
               \/ k = Len(lines) + 1 /\ AllLines[k] = line
<1>1. lines \in Seq(Seq(Places)) /\ line \in Seq(Places)
  BY DEF TypeOK
<1>2. /\ AllLines \in Seq(Seq(Places)) /\ Len(AllLines) = Len(lines) + 1
      /\ \A k \in 1 .. Len(lines) : AllLines[k] = lines[k]
      /\ AllLines[Len(lines) + 1] = line
  BY <1>1, AppendProperties DEF AllLines
<1>3. /\ Len(lines) \in Nat /\ DOMAIN lines = 1 .. Len(lines)
      /\ DOMAIN AllLines = 1 .. Len(lines) + 1
  BY <1>1, <1>2, LenProperties
<1>4. \A k \in 1 .. Len(lines) + 1 : k \in 1 .. Len(lines) \/ k = Len(lines) + 1
  BY <1>3
<1> QED
  BY <1>2, <1>3, <1>4, Zenon

(* THEOREM: the lines are disjoint: a point bound to one is bound to no    *)
(* other, and is in its line once.                                         *)
THEOREM LinesDisjointHolds == Spec => []LinesDisjoint
<1>1. ASSUME IInv PROVE LinesDisjoint
  <2>1. TypeOK /\ PartInv
    BY <1>1 DEF IInv
  <2> SUFFICES ASSUME NEW k \in DOMAIN AllLines, NEW m \in DOMAIN AllLines,
                      NEW i \in DOMAIN AllLines[k], NEW j \in DOMAIN AllLines[m],
                      AllLines[k][i] = AllLines[m][j]
               PROVE  k = m /\ i = j
    BY DEF LinesDisjoint
  <2>2. \/ k \in DOMAIN lines /\ AllLines[k] = lines[k]
        \/ k = Len(lines) + 1 /\ AllLines[k] = line
    BY <2>1, AllLinesAre
  <2>3. \/ m \in DOMAIN lines /\ AllLines[m] = lines[m]
        \/ m = Len(lines) + 1 /\ AllLines[m] = line
    BY <2>1, AllLinesAre
  <2>4. CASE k \in DOMAIN lines /\ AllLines[k] = lines[k]
    BY <2>1, <2>3, <2>4 DEF PartInv, Distinct, Apart
  <2>5. CASE k = Len(lines) + 1 /\ AllLines[k] = line
    BY <2>1, <2>3, <2>5 DEF PartInv, Distinct, Apart
  <2> QED
    BY <2>2, <2>4, <2>5
<1> QED
  BY <1>1, Invariant, PTL

LEMMA AllLinesGood ==
    ASSUME IInv, NEW k \in DOMAIN AllLines
    PROVE  Chained(AllLines[k]) /\ RunsAway(AllLines[k])
<1>1. \/ k \in DOMAIN lines /\ AllLines[k] = lines[k]
      \/ AllLines[k] = line
  BY AllLinesAre DEF IInv
<1>2. CASE k \in DOMAIN lines /\ AllLines[k] = lines[k]
  BY <1>2 DEF IInv, LinesInv, GoodLine
<1>3. CASE AllLines[k] = line /\ line # << >>
  BY <1>3 DEF IInv, LineInv, GoodLine
<1>4. CASE AllLines[k] = line /\ line = << >>
  <2>1. DOMAIN AllLines[k] = {}
    BY <1>4
  <2> QED
    BY <2>1 DEF Chained, RunsAway
<1> QED
  BY <1>1, <1>2, <1>3, <1>4

(* THEOREM: a line holds together, each point within _epsilon of one that  *)
(* was bound to it before.                                                 *)
THEOREM LinesChainedHolds == Spec => []LinesChained
<1>1. IInv => LinesChained
  BY AllLinesGood DEF LinesChained
<1> QED
  BY <1>1, Invariant, PTL

(* THEOREM: a line runs away from the robot after its first point.         *)
THEOREM LinesRunAwayHolds == Spec => []LinesRunAway
<1>1. IInv => LinesRunAway
  BY AllLinesGood DEF LinesRunAway
<1> QED
  BY <1>1, Invariant, PTL

(* THEOREM: get_near_point finds the line whose front is the nearest,      *)
(* because every line begins within Near, nearer than the Horizon its      *)
(* search starts from.                                                     *)
THEOREM NearPointIsNearestHolds == Spec => []NearPointIsNearest
<1>1. ASSUME IInv PROVE NearPointIsNearest
  <2> SUFFICES ASSUME phase = "done", lines # << >>
               PROVE  \E k \in DOMAIN lines :
                         /\ near.a = Second(lines[k])
                         /\ \A m \in DOMAIN lines : Front(lines[k]) <= Front(lines[m])
    BY DEF NearPointIsNearest
  <2>1. TypeOK /\ NearInv /\ measured = Len(lines)
    BY <1>1 DEF IInv, Shape
  <2>2. DOMAIN lines = 1 .. measured /\ 1 \in DOMAIN lines
    BY <2>1, LinesTypes, EmptySeq DEF TypeOK
  <2>3. near.da <= Front(lines[1])
    BY <2>1, <2>2 DEF NearInv
  <2>4. near.da # Horizon * Horizon
    <3> DEFINE most == Horizon * Horizon
               front == Front(lines[1])
    <3>1. front \in 0 .. most /\ front < most
      BY <1>1, <2>2, LineFacts
    <3> HIDE DEF most, front
    <3>2. front \in Int /\ front < most /\ ~ (most <= front)
      <4>1. front \in 0 .. most /\ front < most
        BY <3>1 DEF front
      <4>2. front \in Int /\ most \in Int
        BY <4>1, NearInHorizon DEF most
      <4> QED
        BY <4>1, <4>2
    <3>3. near.da # most
      BY <2>3, <3>2, Zenon DEF front
    <3> QED
      BY <3>3 DEF most
  <2> QED
    BY <2>1, <2>2, <2>4 DEF NearInv, First
<1> QED
  BY <1>1, Invariant, PTL

(* THEOREM: the second point of get_near_point, where there is one, is of  *)
(* another line than the first, beginning no nearer.                       *)
THEOREM SecondIsAnotherHolds == Spec => []SecondIsAnother
<1>1. ASSUME IInv PROVE SecondIsAnother
  <2>1. phase = "done" => DOMAIN lines = 1 .. measured
    BY <1>1, LinesTypes DEF IInv, Shape
  <2> QED
    BY <1>1, <2>1 DEF IInv, NearInv, First, SecondIsAnother
<1> QED
  BY <1>1, Invariant, PTL

----------------------------------------------------------------------------
(* No line is cut short. The list holds every unbound neighbor of the      *)
(* seed; a neighbor of a later point that is not in it was erased, so it   *)
(* does not lie beyond the last of the list.                               *)
Listed(i) == \E n \in DOMAIN neighbors : neighbors[n] = i

Visited ==
    \A n \in DOMAIN neighbors :
        \/ \E j \in DOMAIN line : line[j] = neighbors[n]
        \/ n >= it /\ cluster[neighbors[n]] = Unbound

Surrounded == \A i \in Places : cluster[i] = Unbound /\ Close(line[1], i) => Listed(i)

Erased ==
    \A i \in Places, j \in DOMAIN line : cluster[i] = Unbound /\ Close(line[j], i) =>
        Listed(i) \/ \E n \in DOMAIN neighbors : ~ Less(world[neighbors[n]], world[i])

(* No point that may begin a line is left behind.                          *)
NearBound ==
    \A i \in Places : i < at /\ Distance2(Null, world[i]) <= Near * Near => cluster[i] # Unbound

GoInv ==
    /\ phase = "expand" => Visited /\ Surrounded /\ Erased /\ cluster[at] # Unbound
    /\ LinesGoOn /\ NearBound

LEMMA GoInit == Init => GoInv
<1> SUFFICES ASSUME Init PROVE GoInv
  OBVIOUS
<1>1. DOMAIN lines = {} /\ Places = {} /\ phase = "agglomerate"
  BY EmptyLists DEF Init, Places
<1> QED
  BY <1>1 DEF GoInv, LinesGoOn, NearBound

LEMMA DetectGo == ASSUME IInv, NEW p \in Grid, Detect(p) PROVE GoInv'
<1>1. phase' = "agglomerate" /\ at' = 1 /\ lines' = << >>
  BY DEF IInv, Shape, Detect
<1>2. DOMAIN lines' = {}
  BY <1>1
<1>3. \A i \in Places' : ~ (i < at')
  BY <1>1 DEF Places
<1> QED
  BY <1>1, <1>2, <1>3 DEF GoInv, LinesGoOn, NearBound

\* Steps that do not bind a point, and those that do.
LEMMA LinesGoOnKept ==
    ASSUME LinesGoOn, UNCHANGED <<world, lines>>,
           \A i \in Places : cluster[i] # Unbound => cluster'[i] # Unbound
    PROVE  LinesGoOn'
BY DEF LinesGoOn, Close, Places

LEMMA NearBoundKept ==
    ASSUME NearBound, UNCHANGED <<world, at>>,
           \A i \in Places : cluster[i] # Unbound => cluster'[i] # Unbound
    PROVE  NearBound'
BY DEF NearBound, Places

LEMMA GoKept ==
    ASSUME GoInv, UNCHANGED <<world, cluster, at, line, neighbors, it, lines>>,
           phase' = "expand" => phase = "expand"
    PROVE  GoInv'
<1>1. LinesGoOn' /\ NearBound'
  BY LinesGoOnKept, NearBoundKept DEF GoInv
<1>2. Visited /\ Surrounded /\ Erased => Visited' /\ Surrounded' /\ Erased'
  BY DEF Visited, Surrounded, Erased, Listed, Places, Close
<1> QED
  BY <1>1, <1>2 DEF GoInv

LEMMA SkipGo == ASSUME IInv, GoInv, Skip PROVE GoInv'
<1>1. /\ phase = "scan" /\ ~ StartsLine(at) /\ at' = at + 1
      /\ UNCHANGED <<phase, world, cluster, lines>>
  BY DEF Skip
<1>2. LinesGoOn'
  BY <1>1, LinesGoOnKept DEF GoInv
<1>3. at \in Nat /\ \A i \in Places : i \in Nat
  <2>1. at \in 1 .. Len(world) + 1
    BY Numbers DEF IInv
  <2> QED
    BY <2>1, WorldFacts DEF IInv
<1>4. \A i \in Places : i < at + 1 => i < at \/ i = at
  BY <1>3
<1>5. NearBound'
  BY <1>1, <1>4 DEF GoInv, NearBound, StartsLine, Places
<1> QED
  BY <1>1, <1>2, <1>5 DEF GoInv

LEMMA SeedGo == ASSUME IInv, GoInv, Seed PROVE GoInv'
<1> DEFINE S == NeighborsOf(at, cluster)
<1>1. /\ at <= Len(world) /\ neighbors' = Ascending(S) /\ it' = 1
      /\ cluster' = [cluster EXCEPT ![at] = id] /\ line' = <<at>>
      /\ UNCHANGED <<world, at, lines>>
  BY DEF Seed
<1>2. TypeOK /\ at \in Places
  <2>1. Len(world) \in Nat /\ at \in 1 .. Len(world) + 1
    BY Numbers DEF IInv
  <2> QED
    BY <1>1, <2>1 DEF IInv, Places
<1>3. /\ S \in SUBSET Places
      /\ \A j \in Places : j \in S <=> cluster[j] = Unbound /\ Close(at, j)
  BY DEF NeighborsOf
<1>4. /\ Len(neighbors') \in Nat /\ DOMAIN neighbors' = 1 .. Len(neighbors')
      /\ \A n \in DOMAIN neighbors' : neighbors'[n] \in S
      /\ \A j \in S : \E n \in DOMAIN neighbors' : neighbors'[n] = j
  BY <1>1, <1>2, <1>3, NeighborsList
<1>5. /\ cluster'[at] # Unbound
      /\ \A i \in Places : cluster[i] # Unbound => cluster'[i] # Unbound
      /\ \A i \in Places : i # at => cluster'[i] = cluster[i]
  <2>1. cluster \in [Places -> Unbound .. MaxPoints]
    BY <1>2 DEF TypeOK
  <2> QED
    BY <1>1, <1>2, <2>1, BindsOne
<1>6. LinesGoOn' /\ NearBound'
  BY <1>1, <1>5, LinesGoOnKept, NearBoundKept DEF GoInv
<1>7. DOMAIN line' = {1} /\ line'[1] = at
  BY <1>1
<1>8. Visited'
  <2>1. \A n \in DOMAIN neighbors' : n >= it'
    BY <1>1, <1>4
  <2>2. \A n \in DOMAIN neighbors' : neighbors'[n] = at \/ cluster'[neighbors'[n]] = Unbound
    BY <1>3, <1>4, <1>5
  <2> QED
    BY <1>7, <2>1, <2>2 DEF Visited
<1>9. \A i \in Places : cluster'[i] = Unbound /\ Close(at, i) =>
            \E n \in DOMAIN neighbors' : neighbors'[n] = i
  BY <1>3, <1>4, <1>5
<1>10. Surrounded' /\ Erased'
  BY <1>1, <1>7, <1>9 DEF Surrounded, Erased, Listed, Places, Close
<1> QED
  BY <1>1, <1>5, <1>6, <1>8, <1>10 DEF GoInv

LEMMA RevisitGo == ASSUME IInv, GoInv, Revisit PROVE GoInv'
<1>1. /\ phase = "expand" /\ it' = it + 1 /\ cluster[neighbors[it]] # Unbound
      /\ UNCHANGED <<phase, world, cluster, at, line, neighbors, lines>>
  BY DEF Revisit, Visit
<1>2. /\ neighbors \in Seq(Places) /\ it \in Nat
      /\ \A n \in DOMAIN neighbors : n \in Nat
  <2>1. neighbors \in Seq(Places)
    BY DEF IInv, TypeOK
  <2>2. it \in Nat
    BY VisitCounted DEF Revisit
  <2> QED
    BY <2>1, <2>2, LenProperties
<1>3. \A n \in DOMAIN neighbors : n >= it /\ n # it => n >= it + 1
  BY <1>2
<1>4. Visited'
  BY <1>1, <1>3 DEF GoInv, Visited
<1>5. Surrounded' /\ Erased'
  BY <1>1 DEF GoInv, Surrounded, Erased, Listed, Places, Close
<1>6. LinesGoOn' /\ NearBound'
  BY <1>1, LinesGoOnKept, NearBoundKept DEF GoInv
<1> QED
  BY <1>1, <1>4, <1>5, <1>6 DEF GoInv

LEMMA BindGo == ASSUME IInv, GoInv, Bind PROVE GoInv'
<1> DEFINE p == neighbors[it]
           e == Len(line) + 1
<1>1. /\ phase = "expand" /\ it' = it + 1 /\ cluster[p] = Unbound
      /\ cluster' = [cluster EXCEPT ![p] = id] /\ line' = Append(line, p)
      /\ UNCHANGED <<phase, world, at, lines>>
  BY DEF Bind, Visit
<1>2. /\ TypeOK /\ Rising(neighbors) /\ Visited /\ Surrounded /\ Erased
      /\ cluster[at] # Unbound /\ line # << >>
  BY <1>1 DEF IInv, ListInv, GoInv, Shape
<1>3. /\ neighbors \in Seq(Places) /\ Len(neighbors) \in Nat
      /\ DOMAIN neighbors = 1 .. Len(neighbors)
      /\ \A n \in DOMAIN neighbors : neighbors[n] \in Places /\ neighbors[n] \in Nat
  <2>1. neighbors \in Seq(1 .. Len(world)) /\ Len(world) \in Nat
    BY <1>2, WorldFacts DEF TypeOK, Places
  <2> QED
    BY <2>1, Lists DEF Places
<1>4. it \in Nat /\ it \in DOMAIN neighbors /\ Len(neighbors) \in DOMAIN neighbors /\ at \in Places
  <2>1. it \in Nat /\ it \in DOMAIN neighbors /\ at \in Places
    BY VisitCounted DEF Bind
  <2> QED
    BY <1>3, <2>1
<1>5. p \in Places
  BY <1>3, <1>4
<1>6. /\ \A i \in DOMAIN line : i \in DOMAIN line' /\ line'[i] = line[i]
      /\ line'[e] = p /\ e \in DOMAIN line'
      /\ \A i \in DOMAIN line' : i \in DOMAIN line \/ i = e
      /\ 1 \in DOMAIN line
  <2>1. Len(world) \in Nat /\ line \in Seq(1 .. Len(world)) /\ p \in 1 .. Len(world)
    BY <1>2, <1>5, WorldFacts DEF TypeOK, Places
  <2>2. DOMAIN line = 1 .. Len(line) /\ Len(line) \in Nat \ {0}
    BY <1>2, <2>1, LenProperties, EmptySeq
  <2> QED
    BY <1>1, <2>1, <2>2, Appended
<1>7. /\ cluster'[p] # Unbound
      /\ \A i \in Places : cluster[i] # Unbound => cluster'[i] # Unbound
      /\ \A i \in Places : i # p => cluster'[i] = cluster[i]
  <2>1. cluster \in [Places -> Unbound .. MaxPoints]
    BY <1>2 DEF TypeOK
  <2> QED
    BY <1>1, <1>2, <1>5, <2>1, BindsOne
<1>8. /\ \A n \in DOMAIN neighbors : n \in DOMAIN neighbors' /\ neighbors'[n] = neighbors[n]
      /\ \A n \in DOMAIN neighbors' :
            \/ n \in DOMAIN neighbors
            \/ n > Len(neighbors) /\ cluster'[neighbors'[n]] = Unbound
      /\ \A i \in Places : cluster'[i] = Unbound /\ Close(p, i) =>
            \/ \E n \in DOMAIN neighbors' : neighbors'[n] = i
            \/ ~ Less(world[neighbors[Len(neighbors)]], world[i])
      /\ Len(neighbors') \in Nat /\ DOMAIN neighbors' = 1 .. Len(neighbors')
  BY BindLists, LenProperties
<1>9. LinesGoOn' /\ NearBound' /\ cluster'[at] # Unbound
  BY <1>1, <1>2, <1>4, <1>7, LinesGoOnKept, NearBoundKept DEF GoInv
<1> HIDE DEF p, e
<1>10. ASSUME NEW n \in DOMAIN neighbors'
       PROVE  \/ \E j \in DOMAIN line' : line'[j] = neighbors'[n]
              \/ n >= it + 1 /\ cluster'[neighbors'[n]] = Unbound
  <2>1. CASE n \in DOMAIN neighbors /\ \E j \in DOMAIN line : line[j] = neighbors[n]
    BY <1>6, <1>8, <2>1
  <2>2. CASE n = it
    BY <1>4, <1>6, <1>8, <2>2 DEF p
  <2>3. CASE n \in DOMAIN neighbors /\ n # it /\ n >= it /\ cluster[neighbors[n]] = Unbound
    <3>1. n >= it + 1 /\ it < n
      BY <1>3, <1>4, <2>3
    <3>2. neighbors[it] < neighbors[n]
      BY <1>2, <1>4, <2>3, <3>1 DEF Rising
    <3>3. neighbors[n] # p
      BY <1>3, <1>4, <2>3, <3>2 DEF p
    <3> QED
      BY <1>3, <1>7, <1>8, <2>3, <3>1, <3>3
  <2>4. CASE n \notin DOMAIN neighbors
    <3>1. n > Len(neighbors) /\ cluster'[neighbors'[n]] = Unbound
      BY <1>8, <2>4
    <3>2. n >= it + 1
      BY <1>3, <1>4, <1>8, <3>1
    <3> QED
      BY <3>1, <3>2
  <2> QED
    BY <1>2, <2>1, <2>2, <2>3, <2>4 DEF Visited
<1>11. Visited'
  BY <1>1, <1>10 DEF Visited
<1>12. \A i \in Places : Listed(i) => \E n \in DOMAIN neighbors' : neighbors'[n] = i
  BY <1>8 DEF Listed
<1>13. \A i \in Places : cluster'[i] = Unbound => cluster[i] = Unbound
  BY <1>7
<1>14. \A i \in Places : cluster'[i] = Unbound /\ Close(line'[1], i) =>
             \E n \in DOMAIN neighbors' : neighbors'[n] = i
  BY <1>2, <1>6, <1>12, <1>13 DEF Surrounded
<1>15. ASSUME NEW i \in Places, NEW j \in DOMAIN line', cluster'[i] = Unbound,
              Close(line'[j], i)
       PROVE  \/ \E n \in DOMAIN neighbors' : neighbors'[n] = i
              \/ \E n \in DOMAIN neighbors' : ~ Less(world[neighbors'[n]], world[i])
  <2>1. CASE j \in DOMAIN line
    <3>1. Listed(i) \/ \E n \in DOMAIN neighbors : ~ Less(world[neighbors[n]], world[i])
      BY <1>2, <1>6, <1>13, <1>15, <2>1 DEF Erased
    <3> QED
      BY <1>8, <1>12, <3>1
  <2>2. CASE j = e
    <3>1. Close(p, i)
      BY <1>6, <1>15, <2>2
    <3> QED
      BY <1>4, <1>8, <1>15, <3>1
  <2> QED
    BY <1>6, <2>1, <2>2
<1>16. Surrounded' /\ Erased'
  BY <1>1, <1>14, <1>15 DEF Surrounded, Erased, Listed, Places, Close
<1> QED
  BY <1>1, <1>9, <1>11, <1>16 DEF GoInv

\* When expand returns it has visited the whole list, so all of it is bound.
LEMMA CloseLineGo == ASSUME IInv, GoInv, CloseLine PROVE GoInv'
<1>1. /\ phase = "expand" /\ it > Len(neighbors) /\ at' = at + 1 /\ phase' = "scan"
      /\ UNCHANGED <<world, cluster>>
  BY DEF CloseLine
<1>2. /\ TypeOK /\ Visited /\ Surrounded /\ Erased /\ cluster[at] # Unbound
      /\ LinesGoOn /\ NearBound /\ Bound(line)
  BY <1>1 DEF IInv, GoInv, PartInv
<1>3. \A n \in DOMAIN neighbors : \E j \in DOMAIN line : line[j] = neighbors[n]
  <2>1. neighbors \in Seq(Places) /\ it \in Nat
    BY <1>1, <1>2, LenProperties DEF TypeOK
  <2>2. Len(neighbors) \in Nat /\ DOMAIN neighbors = 1 .. Len(neighbors)
    BY <2>1, LenProperties
  <2>3. \A n \in DOMAIN neighbors : ~ (n >= it)
    BY <1>1, <2>1, <2>2
  <2> QED
    BY <1>2, <2>3 DEF Visited
<1>4. ASSUME NEW i \in Places, cluster[i] = Unbound
      PROVE  /\ ~ Close(line[1], i)
             /\ (\E j \in DOMAIN line : Close(line[j], i)) =>
                    \E j \in DOMAIN line : ~ Less(world[line[j]], world[i])
  <2>1. ~ Listed(i)
    BY <1>2, <1>3, <1>4 DEF Listed, Bound
  <2>2. ~ Close(line[1], i)
    BY <1>2, <1>4, <2>1 DEF Surrounded
  <2>3. ASSUME NEW j \in DOMAIN line, Close(line[j], i)
        PROVE  \E k \in DOMAIN line : ~ Less(world[line[k]], world[i])
    <3>1. PICK n \in DOMAIN neighbors : ~ Less(world[neighbors[n]], world[i])
      BY <1>2, <1>4, <2>1, <2>3 DEF Erased
    <3> QED
      BY <1>3, <3>1
  <2> QED
    BY <2>2, <2>3
<1>5. \A k \in DOMAIN lines' :
         \/ k \in DOMAIN lines /\ lines'[k] = lines[k]
         \/ lines'[k] = line
  BY <1>2, Closed
<1>6. LinesGoOn'
  <2>1. ASSUME NEW k \in DOMAIN lines', NEW i \in Places, cluster[i] = Unbound
        PROVE  /\ ~ Close(lines'[k][1], i)
               /\ (\E j \in DOMAIN lines'[k] : Close(lines'[k][j], i)) =>
                      \E j \in DOMAIN lines'[k] : ~ Less(world[lines'[k][j]], world[i])
    <3>1. CASE k \in DOMAIN lines /\ lines'[k] = lines[k]
      BY <1>2, <2>1, <3>1 DEF LinesGoOn
    <3>2. CASE lines'[k] = line
      BY <1>4, <2>1, <3>2
    <3> QED
      BY <1>5, <3>1, <3>2
  <2> QED
    BY <1>1, <2>1 DEF LinesGoOn, Places, Close
<1>7. NearBound'
  <2>1. at \in Nat /\ \A i \in Places : i \in Nat
    <3>1. at \in 1 .. Len(world) + 1
      BY <1>2, Numbers
    <3> QED
      BY <1>2, <3>1, WorldFacts
  <2>2. \A i \in Places : i < at + 1 => i < at \/ i = at
    BY <2>1
  <2> QED
    BY <1>1, <1>2, <2>2 DEF NearBound, Places
<1> QED
  BY <1>1, <1>6, <1>7 DEF GoInv

LEMMA GoNext == IInv /\ GoInv /\ [Next]_vars => GoInv'
<1> SUFFICES ASSUME IInv, GoInv, [Next]_vars PROVE GoInv'
  OBVIOUS
<1>1. ASSUME NEW p \in Grid, Detect(p) PROVE GoInv'
  BY <1>1, DetectGo
<1>2. CASE Skip
  BY <1>2, SkipGo
<1>3. CASE Seed
  BY <1>3, SeedGo
<1>4. CASE CloseLine
  BY <1>4, CloseLineGo
<1>5. CASE Revisit
  BY <1>5, RevisitGo
<1>6. CASE Bind
  BY <1>6, BindGo
<1>7. CASE Agglomerated \/ Finish \/ Measure \/ Return \/ UNCHANGED vars
  <2>1. /\ UNCHANGED <<world, cluster, at, line, neighbors, it, lines>>
        /\ phase' = "expand" => phase = "expand"
    BY <1>7 DEF Agglomerated, Finish, Measure, Return, vars, scan
  <2> QED
    BY <2>1, GoKept
<1> QED
  BY <1>1, <1>2, <1>3, <1>4, <1>5, <1>6, <1>7 DEF Next

LEMMA GoInvariant == Spec => []GoInv
<1>1. Init => GoInv
  BY GoInit
<1>2. IInv /\ IInv' /\ GoInv /\ [Next]_vars => GoInv'
  BY GoNext
<1> QED
  BY <1>1, <1>2, Invariant, PTL DEF Spec

(* THEOREM: no line is cut short: what it leaves unbound is no neighbor of *)
(* its first point and does not lie beyond all its points.                 *)
THEOREM LinesGoOnHolds == Spec => []LinesGoOn
<1>1. GoInv => LinesGoOn
  BY DEF GoInv
<1> QED
  BY <1>1, GoInvariant, PTL

----------------------------------------------------------------------------
(* The measuring begins when the whole world has been passed, with not     *)
(* more lines than points.                                                 *)
CountInv ==
    /\ Len(lines) < at
    /\ phase \in {"measure", "done"} => at > Len(world)

LEMMA CountInit == Init => CountInv
<1> SUFFICES ASSUME Init PROVE CountInv
  OBVIOUS
<1>1. Len(lines) = 0 /\ at = 1 /\ phase = "agglomerate"
  BY EmptyLists DEF Init
<1> QED
  BY <1>1 DEF CountInv

LEMMA CountNext == IInv /\ CountInv /\ [Next]_vars => CountInv'
<1> SUFFICES ASSUME IInv, CountInv, [Next]_vars PROVE CountInv'
  OBVIOUS
<1>1. Len(lines) \in Nat /\ at \in Nat /\ TypeOK
  <2>1. TypeOK
    BY DEF IInv
  <2>2. at \in 1 .. Len(world) + 1 /\ Len(world) \in Nat
    BY <2>1, Numbers
  <2> QED
    BY <2>1, <2>2, LinesTypes
<1>2. ASSUME NEW p \in Grid, Detect(p) PROVE CountInv'
  BY <1>2 DEF CountInv, Detect
<1>3. CASE Skip
  BY <1>1, <1>3 DEF CountInv, Skip
<1>4. CASE CloseLine
  <2>1. Len(lines') <= Len(lines) + 1
    <3>1. lines \in Seq(Seq(Places)) /\ line \in Seq(Places)
      BY <1>1 DEF TypeOK
    <3>2. Len(Append(lines, line)) = Len(lines) + 1
      BY <3>1, AppendProperties
    <3> QED
      BY <1>1, <1>4, <3>2 DEF CloseLine
  <2>2. Len(lines') \in Nat
    <3>1. IInv'
      BY <1>4, CloseLineStep
    <3> QED
      BY <3>1, LenProperties DEF IInv, TypeOK
  <2>3. Len(lines') < at'
    BY <1>1, <1>4, <2>1, <2>2 DEF CountInv, CloseLine
  <2> QED
    BY <1>4, <2>3 DEF CountInv, CloseLine
<1>5. CASE Finish
  BY <1>5 DEF CountInv, Finish, scan
<1>6. CASE Agglomerated \/ Seed \/ Revisit \/ Bind
  BY <1>6 DEF CountInv, Agglomerated, Seed, Revisit, Bind, Visit, scan
<1>7. CASE Measure \/ Return \/ UNCHANGED vars
  BY <1>7 DEF CountInv, Measure, Return, vars, scan
<1> QED
  BY <1>2, <1>3, <1>4, <1>5, <1>6, <1>7 DEF Next

LEMMA CountInvariant == Spec => []CountInv
<1>1. Init => CountInv
  BY CountInit
<1>2. IInv /\ CountInv /\ [Next]_vars => CountInv'
  BY CountNext
<1> QED
  BY <1>1, <1>2, Invariant, PTL DEF Spec

(* Every point a line may begin with is in a cluster.                      *)
NoNearPointMissed ==
    phase \in {"measure", "done"} =>
        \A i \in Places : Distance2(Null, world[i]) <= Near * Near => cluster[i] # Unbound

(* THEOREM: scan_sub_lines passes over no point near the robot: when the   *)
(* lines are measured each of these has been bound to a cluster.           *)
THEOREM NoNearPointMissedHolds == Spec => []NoNearPointMissed
<1>1. ASSUME IInv, GoInv, CountInv PROVE NoNearPointMissed
  <2>1. Len(world) \in Nat /\ at \in Nat
    <3>1. at \in 1 .. Len(world) + 1 /\ Len(world) \in Nat
      BY <1>1, Numbers DEF IInv
    <3> QED
      BY <3>1
  <2>2. ASSUME phase \in {"measure", "done"}, NEW i \in Places PROVE i < at
    BY <1>1, <2>1, <2>2 DEF CountInv, Places
  <2> QED
    BY <1>1, <2>2 DEF GoInv, NearBound, NoNearPointMissed
<1> QED
  BY <1>1, Invariant, GoInvariant, CountInvariant, PTL

----------------------------------------------------------------------------
(* An update ends. For each point there is at most one round of expand,    *)
(* and a round has no more turns than there are points.                    *)
Rounds(k, n) == k * (n + 2)

StepsLeft ==
    LET n == Len(world)
    IN  IF phase = "scan" THEN Rounds(n + 1 - at, n) + n + 2
        ELSE IF phase = "expand" THEN Rounds(n - at, n) + (n + 1 - it) + n + 3
        ELSE IF phase = "measure" THEN Len(lines) - measured + 1
        ELSE 0

EachStepCounts == StepsLeft \in Nat /\ StepsLeft' \in Nat /\ StepsLeft' < StepsLeft

LEMMA OneRound ==
    ASSUME NEW k \in Nat, NEW n \in Nat
    PROVE  /\ Rounds(k, n) \in Nat /\ Rounds(k + 1, n) \in Nat
           /\ Rounds(k + 1, n) = Rounds(k, n) + n + 2
BY DEF Rounds

LEMMA StepCounts ==
    ASSUME IInv, IInv', CountInv, Next, phase # "agglomerate"
    PROVE  EachStepCounts
<1> DEFINE n == Len(world)
<1>1. n \in Nat /\ at \in 1 .. n + 1 /\ Len(lines) \in Nat /\ measured \in 0 .. Len(lines)
  BY Numbers, LinesTypes DEF IInv, TypeOK
<1>2. at \in Nat /\ at >= 1 /\ at <= n + 1 /\ measured \in Nat /\ measured <= Len(lines)
  BY <1>1
<1>3. phase = "expand" => /\ at <= n /\ it \in Nat /\ it >= 1 /\ it <= n + 1
                          /\ Len(neighbors) \in Nat /\ Len(neighbors) <= n
  <2> SUFFICES ASSUME phase = "expand" PROVE /\ at <= n /\ it \in Nat /\ it >= 1 /\ it <= n + 1
                          /\ Len(neighbors) \in Nat /\ Len(neighbors) <= n
    OBVIOUS
  <2>1. neighbors \in Seq(1 .. n) /\ Rising(neighbors) /\ it \in 1 .. Len(neighbors) + 1 /\ at <= n
    BY DEF IInv, TypeOK, Shape, ListInv, Places
  <2>2. Len(neighbors) \in Nat /\ Len(neighbors) <= n
    BY <1>1, <2>1, RisingIsShort, LenProperties
  <2> QED
    BY <1>1, <2>1, <2>2
<1>4. \A p \in Grid : ~ Detect(p)
  BY DEF Detect
<1> HIDE DEF n
<1>5. CASE Skip
  <2>1. /\ phase = "scan" /\ phase' = "scan" /\ at <= n /\ at' = at + 1 /\ UNCHANGED world
    BY <1>5 DEF Skip, n
  <2>2. n - at \in Nat /\ n + 1 - at = (n - at) + 1 /\ n + 1 - (at + 1) = n - at
    BY <1>1, <1>2, <2>1
  <2>3. /\ StepsLeft = Rounds((n - at) + 1, n) + n + 2
        /\ StepsLeft' = Rounds(n - at, n) + n + 2
    BY <2>1, <2>2 DEF StepsLeft, n
  <2>4. /\ Rounds(n - at, n) \in Nat
        /\ Rounds((n - at) + 1, n) = Rounds(n - at, n) + n + 2
    BY <1>1, <2>2, OneRound
  <2> QED
    BY <1>1, <2>2, <2>3, <2>4 DEF EachStepCounts
<1>6. CASE Seed
  <2>1. /\ phase = "scan" /\ phase' = "expand" /\ at <= n /\ it' = 1 /\ UNCHANGED <<world, at>>
    BY <1>6 DEF Seed, n
  <2>2. n - at \in Nat /\ n + 1 - at = (n - at) + 1 /\ n + 1 - 1 = n
    BY <1>1, <1>2, <2>1
  <2>3. /\ StepsLeft = Rounds((n - at) + 1, n) + n + 2
        /\ StepsLeft' = Rounds(n - at, n) + n + n + 3
    BY <2>1, <2>2 DEF StepsLeft, n
  <2>4. /\ Rounds(n - at, n) \in Nat
        /\ Rounds((n - at) + 1, n) = Rounds(n - at, n) + n + 2
    BY <1>1, <2>2, OneRound
  <2> QED
    BY <1>1, <2>2, <2>3, <2>4 DEF EachStepCounts
<1>7. CASE Revisit \/ Bind
  <2>1. /\ phase = "expand" /\ phase' = "expand" /\ it <= Len(neighbors) /\ it' = it + 1
        /\ UNCHANGED <<world, at>>
    BY <1>7 DEF Revisit, Bind, Visit
  <2>2. n - at \in Nat /\ it <= n
    BY <1>1, <1>2, <1>3, <2>1
  <2>3. /\ StepsLeft = Rounds(n - at, n) + (n + 1 - it) + n + 3
        /\ StepsLeft' = Rounds(n - at, n) + (n + 1 - (it + 1)) + n + 3
    BY <2>1 DEF StepsLeft, n
  <2>4. Rounds(n - at, n) \in Nat
    BY <1>1, <2>2, OneRound
  <2>5. n + 1 - it \in Nat /\ n + 1 - (it + 1) \in Nat /\ n + 1 - (it + 1) < n + 1 - it
    BY <1>1, <1>3, <2>1, <2>2
  <2> QED
    BY <1>1, <2>3, <2>4, <2>5 DEF EachStepCounts
<1>8. CASE CloseLine
  <2>1. /\ phase = "expand" /\ phase' = "scan" /\ at' = at + 1 /\ UNCHANGED world
    BY <1>8 DEF CloseLine
  <2>2. n - at \in Nat /\ n + 1 - (at + 1) = n - at
    BY <1>1, <1>2, <1>3, <2>1
  <2>3. /\ StepsLeft = Rounds(n - at, n) + (n + 1 - it) + n + 3
        /\ StepsLeft' = Rounds(n - at, n) + n + 2
    BY <2>1, <2>2 DEF StepsLeft, n
  <2>4. Rounds(n - at, n) \in Nat
    BY <1>1, <2>2, OneRound
  <2>5. n + 1 - it \in Nat
    BY <1>1, <1>3, <2>1
  <2> QED
    BY <1>1, <2>3, <2>4, <2>5 DEF EachStepCounts
<1>9. CASE Finish
  <2>1. /\ phase = "scan" /\ phase' = "measure" /\ at > n /\ measured = 0
        /\ UNCHANGED <<world, at, lines, measured>>
    BY <1>9 DEF Finish, IInv, Shape, n, scan
  <2>2. n + 1 - at = 0 /\ Len(lines) <= n /\ Len(lines) - 0 + 1 = Len(lines) + 1
    BY <1>1, <1>2, <2>1 DEF CountInv
  <2>3. StepsLeft = Rounds(0, n) + n + 2 /\ StepsLeft' = Len(lines) - 0 + 1
    BY <2>1, <2>2 DEF StepsLeft, n
  <2>4. Rounds(0, n) \in Nat
    BY <1>1, OneRound
  <2> QED
    BY <1>1, <2>2, <2>3, <2>4 DEF EachStepCounts
<1>10. CASE Measure \/ Return
  <2>1. /\ phase = "measure"
        /\ \/ phase' = "measure" /\ measured' = measured + 1 /\ measured < Len(lines)
              /\ UNCHANGED lines
           \/ phase' = "done"
    BY <1>10 DEF Measure, Return, scan
  <2>2. StepsLeft = Len(lines) - measured + 1
    BY <2>1 DEF StepsLeft
  <2>3. CASE phase' = "measure" /\ measured' = measured + 1 /\ measured < Len(lines)
             /\ UNCHANGED lines
    <3>1. StepsLeft' = Len(lines) - (measured + 1) + 1
      BY <2>3 DEF StepsLeft
    <3> QED
      BY <1>1, <1>2, <2>2, <2>3, <3>1 DEF EachStepCounts
  <2>4. CASE phase' = "done"
    <3>1. StepsLeft' = 0
      BY <2>4 DEF StepsLeft
    <3> QED
      BY <1>1, <1>2, <2>2, <3>1 DEF EachStepCounts
  <2> QED
    BY <2>1, <2>3, <2>4
<1>11. ~ Agglomerated
  BY DEF Agglomerated
<1> QED
  BY <1>4, <1>5, <1>6, <1>7, <1>8, <1>9, <1>10, <1>11 DEF Next

(* THEOREM: an update ends, although expand appends to the list it         *)
(* iterates over: from scan_sub_lines on, each step makes a natural number *)
(* smaller.                                                                *)
THEOREM UpdateEnds == Spec => [][phase # "agglomerate" => EachStepCounts]_vars
<1>1. IInv /\ IInv' /\ CountInv /\ [Next]_vars
          => [phase # "agglomerate" => EachStepCounts]_vars
  BY StepCounts
<1> QED
  BY <1>1, Invariant, CountInvariant, PTL DEF Spec
====================================================================================
