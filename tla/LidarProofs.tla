-------------------------------- MODULE LidarProofs --------------------------------
(* Theorems about the lidar's update, for every number of rays, every limit *)
(* of the range and every capture.                                          *)
EXTENDS Lidar, FiniteSetTheorems, TLAPS

(* One more value: what it adds to the hits and to the two sides.          *)
LEMMA HitsGrow ==
    ASSUME NEW c \in [Indices -> Nat], NEW n \in Indices
    PROVE  /\ ~ InRange(c[n]) => Hits(c, n + 1) = Hits(c, n)
           /\ InRange(c[n]) => Hits(c, n + 1) = Hits(c, n) \cup {n}
<1>1. n \in Nat /\ 0 .. (n + 1) - 1 = (0 .. n - 1) \cup {n}
  BY LidarAssumption DEF Indices
<1> QED
  BY <1>1 DEF Hits

LEMMA SidesGrow ==
    ASSUME NEW c \in [Indices -> Nat], NEW n \in Indices, InRange(c[n])
    PROVE  /\ ToTheRight(c, n + 1) = IF Angle(n) < Front
                                     THEN ToTheRight(c, n) \cup {Angle(n)}
                                     ELSE ToTheRight(c, n)
           /\ ToTheLeft(c, n + 1) = IF Angle(n) > Front
                                    THEN ToTheLeft(c, n) \cup {Angle(n)}
                                    ELSE ToTheLeft(c, n)
<1>1. Hits(c, n + 1) = Hits(c, n) \cup {n}
  BY HitsGrow
<1> QED
  BY <1>1 DEF ToTheRight, ToTheLeft

(* Angles grow with the index; all seen so far are to the right of the next. *)
LEMMA SidesBehind ==
    ASSUME NEW c, NEW n \in Indices
    PROVE  /\ \A a \in ToTheRight(c, n) : a \in Int /\ a < Front /\ a < Angle(n)
           /\ \A a \in ToTheLeft(c, n) : a \in Int /\ a > Front /\ a < Angle(n)
BY LidarAssumption DEF ToTheRight, ToTheLeft, Hits, Angle, Indices

LEMMA HitsCounted ==
    ASSUME NEW c, NEW n \in 0 .. Rays
    PROVE  IsFiniteSet(Hits(c, n)) /\ Cardinality(Hits(c, n)) \in 0 .. n
<1>1. n \in Nat
  BY LidarAssumption
<1>2. IsFiniteSet(0 .. n - 1) /\ Cardinality(0 .. n - 1) = n
  BY <1>1, FS_Interval
<1>3. Hits(c, n) \in SUBSET (0 .. n - 1)
  BY DEF Hits
<1>4. IsFiniteSet(Hits(c, n)) /\ Cardinality(Hits(c, n)) <= n
  BY <1>2, <1>3, FS_Subset
<1> QED
  BY <1>1, <1>4, FS_CardinalityType

----------------------------------------------------------------------------
(* The loop invariant: what has been found in the first n values of c.     *)
Found(c, n) ==
    /\ detections = Cardinality(Hits(c, n))
    /\ IsRightmost(rightmost, c, n)
    /\ IsLeftmost(leftmost, c, n)

Registers ==
    /\ captured \in 0 .. MaxCaptures
    /\ capture \subseteq Captures /\ Cardinality(capture) <= 1
    /\ scanning \subseteq Captures /\ Cardinality(scanning) <= 1
    /\ buffer \in [Indices -> Nat] /\ at \in 0 .. Rays
    /\ distances \in [Indices -> Nat] /\ source \in Captures \cup {Nothing}
    /\ rightmost \in Int /\ leftmost \in Int

ScanInv ==
    /\ Registers
    /\ IsFiltered(distances, source, Rays)
    /\ scanning = {} => Found(source, Rays)
    /\ scanning # {} =>
          \E c \in Captures :
              /\ scanning = {c}
              /\ IsFiltered(buffer, c, at)
              /\ \A i \in Indices : i >= at => buffer[i] = c[i]
              /\ Found(c, at)

(* Nothing has been found in no values, nor in values that are all zero.   *)
LEMMA FoundNothing ==
    ASSUME NEW c, NEW n \in Nat, Hits(c, n) = {},
           detections = 0, rightmost = Front, leftmost = Front
    PROVE  Found(c, n)
BY FS_EmptySet DEF Found, IsRightmost, IsLeftmost, ToTheRight, ToTheLeft

LEMMA FoundNothingNext ==
    ASSUME NEW c, NEW n \in Nat, Hits(c, n) = {},
           detections' = 0, rightmost' = Front, leftmost' = Front
    PROVE  Found(c, n)'
BY FS_EmptySet DEF Found, IsRightmost, IsLeftmost, ToTheRight, ToTheLeft, Hits, Angle, InRange

LEMMA ScanInitially == LidarInit => ScanInv
<1> SUFFICES ASSUME LidarInit PROVE ScanInv
  OBVIOUS
<1>1. Nothing \in [Indices -> Nat] /\ Cardinality({}) <= 1
  BY FS_EmptySet DEF Nothing
<1>2. Registers
  BY <1>1, LidarAssumption DEF LidarInit, Registers
<1>3. \A i \in 0 .. Rays - 1 : Nothing[i] = 0
  BY DEF Nothing, Indices
<1>4. Hits(Nothing, Rays) = {} /\ IsFiltered(Nothing, Nothing, Rays)
  BY <1>3, LidarAssumption DEF Hits, InRange, IsFiltered
<1>5. Found(Nothing, Rays)
  BY <1>4, FoundNothing, LidarAssumption, Zenon DEF LidarInit
<1> QED
  BY <1>2, <1>4, <1>5 DEF LidarInit, ScanInv

(* A value in the range extends what has been found.                       *)
LEMMA RightmostStep ==
    ASSUME NEW c \in [Indices -> Nat], NEW n \in Indices, InRange(c[n]),
           NEW r \in Int, IsRightmost(r, c, n)
    PROVE  IsRightmost(IF Angle(n) < Front /\ r = Front THEN Angle(n) ELSE r, c, n + 1)
<1> DEFINE R == ToTheRight(c, n)
<1>0. Angle(n) \in Int /\ Front \in Int
  BY LidarAssumption DEF Angle, Indices
<1>1. \A a \in R : a \in Int /\ a < Front /\ a < Angle(n)
  BY SidesBehind
<1>2. CASE ~ (Angle(n) < Front)
  <2>1. ToTheRight(c, n + 1) = R
    BY <1>2, SidesGrow
  <2> QED
    BY <1>2, <2>1 DEF IsRightmost
<1>3. CASE Angle(n) < Front
  <2>1. ToTheRight(c, n + 1) = R \cup {Angle(n)}
    BY <1>3, SidesGrow
  <2>2. CASE r = Front
    <3>1. R = {}
      BY <1>0, <1>1, <2>2 DEF IsRightmost
    <3> QED
      BY <1>0, <1>3, <2>1, <2>2, <3>1 DEF IsRightmost
  <2>3. CASE r # Front
    <3>1. r \in R /\ \A b \in R : r <= b
      BY <2>3 DEF IsRightmost
    <3>2. r <= Angle(n)
      BY <1>0, <1>1, <3>1
    <3> QED
      BY <2>1, <2>3, <3>1, <3>2 DEF IsRightmost
  <2> QED
    BY <2>2, <2>3
<1> QED
  BY <1>2, <1>3

LEMMA LeftmostStep ==
    ASSUME NEW c \in [Indices -> Nat], NEW n \in Indices, InRange(c[n]),
           NEW l \in Int, IsLeftmost(l, c, n)
    PROVE  IsLeftmost(IF Angle(n) > Front THEN Angle(n) ELSE l, c, n + 1)
<1> DEFINE L == ToTheLeft(c, n)
<1>0. Angle(n) \in Int /\ Front \in Int
  BY LidarAssumption DEF Angle, Indices
<1>1. \A a \in L : a \in Int /\ a > Front /\ a < Angle(n)
  BY SidesBehind
<1>2. CASE ~ (Angle(n) > Front)
  <2>1. ToTheLeft(c, n + 1) = L
    BY <1>2, SidesGrow
  <2> QED
    BY <1>2, <2>1 DEF IsLeftmost
<1>3. CASE Angle(n) > Front
  <2>1. ToTheLeft(c, n + 1) = L \cup {Angle(n)}
    BY <1>3, SidesGrow
  <2>2. \A b \in L \cup {Angle(n)} : b <= Angle(n)
    BY <1>0, <1>1
  <2> QED
    BY <1>3, <2>1, <2>2 DEF IsLeftmost
<1> QED
  BY <1>2, <1>3

LEMMA CountStep ==
    ASSUME NEW c \in [Indices -> Nat], Registers, at \in Indices, Found(c, at),
           Count, InRange(c[at])
    PROVE  Found(c, at)'
<1>0. at' = at + 1
  BY DEF Count, Scan
<1>1. detections' = Cardinality(Hits(c, at + 1))
  <2>0. IsFiniteSet(Hits(c, at))
    BY HitsCounted DEF Registers
  <2>1. at \notin Hits(c, at)
    BY LidarAssumption DEF Hits, Indices
  <2>2. Hits(c, at + 1) = Hits(c, at) \cup {at}
    BY HitsGrow
  <2>3. Cardinality(Hits(c, at + 1)) = Cardinality(Hits(c, at)) + 1
    BY <2>0, <2>1, <2>2, FS_AddElement
  <2> QED
    BY <2>3 DEF Found, Count
<1>2. IsRightmost(rightmost', c, at + 1)
  BY RightmostStep DEF Found, Count, Registers
<1>3. IsLeftmost(leftmost', c, at + 1)
  BY LeftmostStep DEF Found, Count, Registers
<1> QED
  BY <1>0, <1>1, <1>2, <1>3
     DEF Found, IsRightmost, IsLeftmost, ToTheRight, ToTheLeft, Hits, Angle, InRange

(* One out of the range changes nothing.                                   *)
LEMMA DiscardStep ==
    ASSUME NEW c \in [Indices -> Nat], at \in Indices, Found(c, at),
           Discard, ~ InRange(c[at])
    PROVE  Found(c, at)'
<1>1. at' = at + 1 /\ UNCHANGED extremes
  BY DEF Discard, Scan
<1>2. Hits(c, at + 1) = Hits(c, at)
  BY HitsGrow
<1>3. /\ detections = Cardinality(Hits(c, at + 1))
      /\ IsRightmost(rightmost, c, at + 1) /\ IsLeftmost(leftmost, c, at + 1)
  BY <1>2 DEF Found, IsRightmost, IsLeftmost, ToTheRight, ToTheLeft
<1> QED
  BY <1>1, <1>3
     DEF extremes, Found, IsRightmost, IsLeftmost, ToTheRight, ToTheLeft, Hits, Angle, InRange

(* The filtering, one value further.                                       *)
LEMMA FilterStep ==
    ASSUME NEW c \in [Indices -> Nat], buffer \in [Indices -> Nat], at \in Indices,
           IsFiltered(buffer, c, at), \A i \in Indices : i >= at => buffer[i] = c[i],
           Discard \/ Count
    PROVE  /\ buffer[at] = c[at]
           /\ at' \in 0 .. Rays
           /\ buffer' \in [Indices -> Nat]
           /\ IsFiltered(buffer', c, at')
           /\ \A i \in Indices : i >= at' => buffer'[i] = c[i]
<1>1. at \in Nat /\ at' = at + 1 /\ at' \in 0 .. Rays /\ buffer[at] = c[at]
  BY LidarAssumption DEF Discard, Count, Scan, Indices
<1>2. buffer' = [buffer EXCEPT ![at] = IF InRange(c[at]) THEN c[at] ELSE 0]
  <2>1. CASE Discard
    BY <1>1, <2>1 DEF Discard
  <2>2. CASE Count
    BY <1>1, <2>2 DEF Count
  <2> QED
    BY <2>1, <2>2
<1>3. \A i \in Indices : buffer'[i] = IF i = at THEN (IF InRange(c[at]) THEN c[at] ELSE 0)
                                       ELSE buffer[i]
  BY <1>2
<1>4. buffer' \in [Indices -> Nat]
  BY <1>2
<1>5. IsFiltered(buffer', c, at')
  <2> SUFFICES ASSUME NEW i \in 0 .. at
               PROVE  buffer'[i] = IF InRange(c[i]) THEN c[i] ELSE 0
    BY <1>1 DEF IsFiltered
  <2>1. i \in Indices
    BY <1>1, LidarAssumption DEF Indices
  <2>2. CASE i = at
    BY <1>3, <2>1, <2>2
  <2>3. CASE i # at
    BY <1>1, <1>3, <2>1, <2>3 DEF IsFiltered
  <2> QED
    BY <2>2, <2>3
<1>6. \A i \in Indices : i >= at' => buffer'[i] = c[i]
  BY <1>1, <1>3, LidarAssumption DEF Indices
<1> QED
  BY <1>1, <1>4, <1>5, <1>6

----------------------------------------------------------------------------
(* The invariant is kept by every step.                                    *)
LEMMA OneOnly == \A x : Cardinality({x}) <= 1
<1>1. \A x : Cardinality({x}) = 1
  BY FS_Singleton
<1> QED
  BY <1>1

LEMMA RegistersStep ==
    ASSUME ScanInv, LidarNext
    PROVE  Registers'
<1> USE DEF Registers, ScanInv
<1>1. CASE CaptureArrives
  <2>1. captured' \in 0 .. MaxCaptures
    BY <1>1, LidarAssumption DEF CaptureArrives
  <2>2. capture' \subseteq Captures /\ Cardinality(capture') <= 1
    <3>1. PICK c \in Captures : capture' = {c}
      BY <1>1 DEF CaptureArrives
    <3> QED
      BY <3>1, OneOnly
  <2> QED
    BY <1>1, <2>1, <2>2 DEF CaptureArrives, scan, extremes
<1>2. CASE NoCapture
  BY <1>2 DEF NoCapture, lidarVars, scan, extremes
<1>3. CASE BeginScan
  <2>1. PICK c \in capture : scanning' = {c} /\ buffer' = c
    BY <1>3 DEF BeginScan
  <2>2. scanning' \subseteq Captures /\ Cardinality(scanning') <= 1
    BY <2>1, OneOnly
  <2>3. buffer' \in [Indices -> Nat]
    BY <2>1, LidarAssumption
  <2> QED
    BY <1>3, <2>2, <2>3, LidarAssumption DEF BeginScan
<1>4. CASE Discard \/ Count
  <2>1. at \in Indices
    BY <1>4, LidarAssumption DEF Discard, Count, Scan, Indices
  <2>2. PICK c \in Captures : /\ scanning = {c}
                              /\ IsFiltered(buffer, c, at)
                              /\ \A i \in Indices : i >= at => buffer[i] = c[i]
    BY <1>4 DEF Discard, Count, Scan
  <2>3. at' \in 0 .. Rays /\ buffer' \in [Indices -> Nat]
    BY <1>4, <2>1, <2>2, FilterStep, LidarAssumption
  <2>4. rightmost' \in Int /\ leftmost' \in Int
    BY <1>4, <2>1, LidarAssumption DEF Discard, Count, extremes, Angle, Indices
  <2>5. UNCHANGED <<captured, capture, scanning, distances, source>>
    BY <1>4 DEF Discard, Count
  <2> QED
    BY <2>3, <2>4, <2>5
<1>5. CASE EndScan
  <2>1. source' \in Captures /\ scanning' = {} /\ Cardinality({}) <= 1
    BY <1>5, FS_EmptySet DEF EndScan
  <2> QED
    BY <1>5, <2>1 DEF EndScan, extremes
<1> QED
  BY <1>1, <1>2, <1>3, <1>4, <1>5 DEF LidarNext

LEMMA ScanStep ==
    ASSUME ScanInv, [LidarNext]_lidarVars
    PROVE  ScanInv'
<1>1. CASE LidarNext /\ UNCHANGED <<scan, distances, extremes, source>>
  BY <1>1, RegistersStep
     DEF ScanInv, scan, extremes, Found, IsFiltered, IsRightmost, IsLeftmost,
         ToTheRight, ToTheLeft, Hits, Angle, InRange
<1>2. CASE UNCHANGED lidarVars
  BY <1>2 DEF lidarVars, Registers,
         ScanInv, scan, extremes, Found, IsFiltered, IsRightmost, IsLeftmost,
         ToTheRight, ToTheLeft, Hits, Angle, InRange
<1>3. CASE BeginScan
  <2>1. PICK c \in capture : scanning' = {c} /\ buffer' = c
    BY <1>3 DEF BeginScan
  <2>2. c \in Captures /\ at' = 0
    BY <1>3 DEF BeginScan, ScanInv, Registers
  <2>3. Hits(c, 0) = {} /\ IsFiltered(c, c, 0)
    BY DEF Hits, IsFiltered
  <2>4. Found(c, 0)'
    BY <1>3, <2>3, FoundNothingNext DEF BeginScan
  <2>5. Found(c, at)'
    BY <2>2, <2>4 DEF Found, IsRightmost, IsLeftmost, ToTheRight, ToTheLeft, Hits, Angle, InRange
  <2>6. IsFiltered(buffer', c, at') /\ \A i \in Indices : i >= at' => buffer'[i] = c[i]
    BY <2>1, <2>2, <2>3
  <2>7. IsFiltered(distances', source', Rays)
    BY <1>3 DEF BeginScan, ScanInv, IsFiltered
  <2>8. Registers'
    BY <1>3, RegistersStep DEF LidarNext
  <2> QED
    BY <2>1, <2>2, <2>5, <2>6, <2>7, <2>8 DEF ScanInv, IsFiltered
<1>4. CASE Discard \/ Count
  <2>1. at \in Indices
    BY <1>4, LidarAssumption DEF Discard, Count, Scan, Indices, ScanInv, Registers
  <2>2. PICK c \in Captures : /\ scanning = {c}
                              /\ IsFiltered(buffer, c, at)
                              /\ \A i \in Indices : i >= at => buffer[i] = c[i]
                              /\ Found(c, at)
    BY <1>4 DEF Discard, Count, Scan, ScanInv
  <2>3. c \in [Indices -> Nat] /\ buffer \in [Indices -> Nat]
    BY LidarAssumption DEF ScanInv, Registers
  <2>4. /\ buffer[at] = c[at]
        /\ IsFiltered(buffer', c, at')
        /\ \A i \in Indices : i >= at' => buffer'[i] = c[i]
    BY <1>4, <2>1, <2>2, <2>3, FilterStep
  <2>5. Found(c, at)'
    <3>1. CASE Discard
      BY <2>1, <2>2, <2>3, <2>4, <3>1, DiscardStep DEF Discard
    <3>2. CASE Count
      BY <2>1, <2>2, <2>3, <2>4, <3>2, CountStep DEF Count, ScanInv
    <3> QED
      BY <1>4, <3>1, <3>2
  <2>6. UNCHANGED <<scanning, distances, source>>
    BY <1>4 DEF Discard, Count
  <2>7. IsFiltered(distances', source', Rays)
    BY <2>6 DEF ScanInv, IsFiltered
  <2>8. Registers'
    BY <1>4, RegistersStep DEF LidarNext
  <2> QED
    BY <2>2, <2>4, <2>5, <2>6, <2>7, <2>8 DEF ScanInv, IsFiltered
<1>5. CASE EndScan
  <2>1. PICK c \in Captures : /\ scanning = {c}
                              /\ IsFiltered(buffer, c, at)
                              /\ Found(c, at)
    BY <1>5 DEF EndScan, ScanInv
  <2>2. /\ at = Rays /\ distances' = buffer /\ source' = c /\ scanning' = {}
        /\ UNCHANGED extremes
    BY <1>5, <2>1 DEF EndScan
  <2>3. IsFiltered(distances', source', Rays)
    BY <2>1, <2>2
  <2>4. Found(source, Rays)'
    BY <2>1, <2>2 DEF extremes, Found, IsRightmost, IsLeftmost, ToTheRight, ToTheLeft, Hits, Angle, InRange
  <2>5. Registers'
    BY <1>5, RegistersStep DEF LidarNext
  <2> QED
    BY <2>2, <2>3, <2>4, <2>5 DEF ScanInv, IsFiltered
<1> QED
  BY <1>1, <1>2, <1>3, <1>4, <1>5 DEF LidarNext, CaptureArrives, NoCapture, lidarVars

LEMMA ScanInvariant == LidarSpec => []ScanInv
BY ScanInitially, ScanStep, PTL DEF LidarSpec

(* A scan counts no more detections than there are rays.                   *)
LEMMA ScanBounds ==
    ASSUME ScanInv
    PROVE  LidarTypeOK
<1>1. detections \in 0 .. Rays
  <2>1. CASE scanning = {}
    <3>1. Rays \in 0 .. Rays /\ detections = Cardinality(Hits(source, Rays))
      BY <2>1, LidarAssumption DEF ScanInv, Found
    <3> QED
      BY <3>1, HitsCounted
  <2>2. CASE scanning # {}
    <3>1. PICK c \in Captures : detections = Cardinality(Hits(c, at))
      BY <2>2 DEF ScanInv, Found
    <3>2. at \in 0 .. Rays
      BY DEF ScanInv, Registers
    <3>3. Cardinality(Hits(c, at)) \in 0 .. at
      BY <3>2, HitsCounted
    <3> QED
      BY <3>1, <3>2, <3>3, LidarAssumption
  <2> QED
    BY <2>1, <2>2
<1> QED
  BY <1>1 DEF ScanInv, Registers, LidarTypeOK

(* The detections of the distances are the hits of the capture they were   *)
(* made of: a value in the range is not zero.                              *)
LEMMA DetectionsAreHits ==
    ASSUME ScanInv
    PROVE  DetectBetween(0, Rays - 1) = Cardinality(Hits(source, Rays))
<1>1. ASSUME NEW i \in 0 .. Rays - 1
      PROVE  distances[i] > 0 <=> InRange(source[i])
  <2>1. distances[i] = IF InRange(source[i]) THEN source[i] ELSE 0
    BY DEF ScanInv, IsFiltered
  <2>2. source \in [Indices -> Nat]
    BY LidarAssumption DEF ScanInv, Registers, Nothing
  <2>3. source[i] \in Nat
    BY <2>2 DEF Indices
  <2> QED
    BY <2>1, <2>3, LidarAssumption DEF InRange
<1>2. { i \in 0 .. Rays - 1 : distances[i] > 0 } = Hits(source, Rays)
  BY <1>1 DEF Hits
<1> QED
  BY <1>2 DEF DetectBetween

(* THEOREM: the lidar's registers keep their types.                        *)
THEOREM LidarTypeCorrect == LidarSpec => []LidarTypeOK
BY ScanInvariant, ScanBounds, PTL

(* THEOREM: whatever the captures and whenever they come, the distances are *)
(* one whole capture, and after an update the number of detections and the  *)
(* outermost angles are those of these distances.                           *)
THEOREM LidarAgreesHolds == LidarSpec => []LidarAgrees
<1>1. ScanInv => LidarAgrees
  BY DetectionsAreHits DEF ScanInv, Found, LidarAgrees
<1> QED
  BY <1>1, ScanInvariant, PTL
====================================================================================
