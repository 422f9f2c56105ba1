------------------------------- MODULE SensorsProofs -------------------------------
(* Theorems about the camera's conversions, for pictures of any size, and   *)
(* about the two units in one update thread.                                *)
EXTENDS Sensors, LidarProofs

(* THEOREM: with the other unit in the same thread each does what its own   *)
(* module says, so what is proved of that module holds here.                *)
THEOREM SensorsAreBoth == SensorsSpec => Spec /\ LidarSpec
<1>1. SensorsInit => Init /\ LidarInit
  BY DEF SensorsInit
<1>2. [SensorsNext]_sensorsVars => [Next]_vars
  BY DEF SensorsNext, CameraUpdate, LidarUpdate, PacketArrives, sensorsVars, Next
<1>3. [SensorsNext]_sensorsVars => [LidarNext]_lidarVars
  BY DEF SensorsNext, CameraUpdate, LidarUpdate, PacketArrives, sensorsVars, LidarNext
<1> QED
  BY <1>1, <1>2, <1>3, PTL DEF SensorsSpec, Spec, LidarSpec

----------------------------------------------------------------------------
(* The rows of a picture: a pixel's place and what the sensor has for it.  *)
LEMMA PixelInPicture ==
    ASSUME NEW x \in 0 .. Xres - 1, NEW y \in 0 .. Yres - 1
    PROVE  /\ x + y * Xres \in 0 .. Resolution - 1
           /\ y * Xres * 2 = 2 * (y * Xres)
           /\ (y * Xres) + Xres <= Resolution
<1>1. Xres \in Nat \ {0} /\ Yres \in Nat \ {0} /\ x \in Nat /\ y \in Nat
  BY CameraAssumption
<1>2. (Yres - 1 - y) * Xres >= 0
  BY <1>1
<1>3. (Yres - 1 - y) * Xres = Yres * Xres - Xres - y * Xres
  BY <1>1
<1>4. Yres * Xres = Resolution /\ y * Xres \in Nat /\ Resolution \in Nat
  BY <1>1 DEF Resolution
<1>5. y * Xres + Xres <= Resolution
  BY <1>1, <1>2, <1>3, <1>4
<1>6. y * Xres * 2 = 2 * (y * Xres)
  BY <1>4
<1> QED
  BY <1>1, <1>4, <1>5, <1>6

LEMMA ResolutionType == Resolution \in Nat \ {0}
BY CameraAssumption DEF Resolution

(* Every place of a picture belongs to one pixel.                          *)
LEMMA PlaceOfPixel ==
    ASSUME NEW k \in 0 .. Resolution - 1
    PROVE  \E x \in 0 .. Xres - 1, y \in 0 .. Yres - 1 : k = x + y * Xres
<1>1. Xres \in Nat \ {0} /\ Yres \in Nat \ {0} /\ k \in Nat /\ Resolution \in Nat
  BY CameraAssumption, ResolutionType
<1> DEFINE x == k % Xres
           y == k \div Xres
<1>2. x \in 0 .. Xres - 1 /\ y \in Nat /\ k = Xres * y + x
  BY <1>1
<1>3. Xres * y = y * Xres /\ y * Xres \in Nat
  BY <1>1, <1>2
<1>4. y < Yres
  <2> SUFFICES ASSUME y >= Yres PROVE FALSE
    BY <1>1, <1>2
  <2>1. (y - Yres) * Xres >= 0
    BY <1>1, <1>2
  <2>2. (y - Yres) * Xres = y * Xres - Resolution
    BY <1>1, <1>2 DEF Resolution
  <2> QED
    BY <1>1, <1>2, <1>3, <2>1, <2>2
<1>5. x \in 0 .. Xres - 1 /\ y \in 0 .. Yres - 1 /\ k = x + y * Xres
  BY <1>1, <1>2, <1>3, <1>4
<1> HIDE DEF x, y
<1> QED
  BY <1>5

----------------------------------------------------------------------------
(* The conversion of a raw image needs no more than the test asks for, for  *)
(* either eye; that of a colorized one always leaves its arrays.            *)
LEMMA BayerReach ==
    ASSUME NEW base \in {0, Resolution * 4},
           NEW x \in 0 .. Xres - 1, NEW y \in 0 .. Yres - 1,
           NEW c \in 0 .. 3
    PROVE  /\ (x + y * Xres) * 4 + c \in Offsets
           /\ base + (x + y * Xres * 2) * 2 \in Nat
           /\ base + (x + y * Xres * 2) * 2 + Xres * 2 + 1 < Resolution * 8
<1> DEFINE z == y * Xres
<1>1. /\ x + z \in 0 .. Resolution - 1 /\ y * Xres * 2 = 2 * z
      /\ z + Xres <= Resolution /\ z \in Nat
  BY PixelInPicture, CameraAssumption
<1>2. Resolution \in Nat /\ Xres \in Nat /\ x \in Nat
  BY ResolutionType, CameraAssumption
<1> HIDE DEF z
<1>3. (x + z) * 4 + c \in Offsets
  BY <1>1, <1>2 DEF Offsets
<1>4. base + (x + 2 * z) * 2 \in Nat /\ base + (x + 2 * z) * 2 + Xres * 2 + 1 < Resolution * 8
  BY <1>1, <1>2
<1> QED
  BY <1>1, <1>3, <1>4 DEF z

LEMMA BayerInBounds ==
    ASSUME NEW base \in {0, Resolution * 4}, NEW size \in Nat, size >= Resolution * 8
    PROVE  InBounds(Bayer(base), size)
<1> SUFFICES ASSUME NEW w \in Bayer(base)
             PROVE  w[1] \in Offsets /\ w[2] \subseteq 0 .. size - 1
  BY DEF InBounds
<1>1. PICK x \in 0 .. Xres - 1, y \in 0 .. Yres - 1 :
          w \in BayerPixel(base, x, y)
  BY DEF Bayer
<1> DEFINE di == (x + y * Xres) * 4
           si == base + (x + y * Xres * 2) * 2
<1>2. \A c \in 0 .. 3 : di + c \in Offsets
  BY BayerReach
<1>3. si \in Nat /\ si + Xres * 2 + 1 < Resolution * 8
  BY BayerReach
<1>4. di \in Int
  BY PixelInPicture, CameraAssumption
<1>5. \/ w = <<di, {si + 1}>> \/ w = <<di + 1, {si, si + Xres * 2 + 1}>>
      \/ w = <<di + 2, {si + Xres * 2}>> \/ w = <<di + 3, {}>>
  BY <1>1 DEF BayerPixel
<1> HIDE DEF di, si
<1>6. di \in Offsets /\ di + 1 \in Offsets /\ di + 2 \in Offsets /\ di + 3 \in Offsets
  BY <1>2, <1>4
<1>7. si \in 0 .. size - 1 /\ si + 1 \in 0 .. size - 1
      /\ si + Xres * 2 \in 0 .. size - 1 /\ si + Xres * 2 + 1 \in 0 .. size - 1
  BY <1>3, CameraAssumption, ResolutionType
<1> QED
  BY <1>5, <1>6, <1>7

LEMMA ColorizedLeaves ==
    ASSUME NEW base, NEW size
    PROVE  ~ InBounds(Colorized(base), size)
<1> DEFINE x == Resolution * 4 - 1
           w == <<x * 4, {base + x * 3}>>
<1>1. x \in 0 .. Resolution * 4 - 1 /\ x * 4 \notin Offsets
  BY ResolutionType DEF Offsets
<1>2. w \in Colorized(base)
  BY <1>1 DEF Colorized
<1>3. w[1] \notin Offsets
  BY <1>1
<1> QED
  BY <1>2, <1>3 DEF InBounds

(* A raw image writes every byte of a picture.                             *)
LEMMA BayerCovers ==
    ASSUME NEW base, NEW i \in Offsets
    PROVE  \E w \in Bayer(base) : w[1] = i
<1>0. i \in Nat /\ Resolution \in Nat /\ i < 4 * Resolution
  BY ResolutionType DEF Offsets
<1>1. i \div 4 \in 0 .. Resolution - 1 /\ i % 4 \in 0 .. 3
      /\ i = 4 * (i \div 4) + (i % 4)
  BY <1>0
<1>2. PICK x \in 0 .. Xres - 1, y \in 0 .. Yres - 1 : i \div 4 = x + y * Xres
  BY <1>1, PlaceOfPixel
<1> DEFINE di == (x + y * Xres) * 4
           si == base + (x + y * Xres * 2) * 2
<1>3. BayerPixel(base, x, y) \subseteq Bayer(base)
  BY DEF Bayer
<1>4. BayerPixel(base, x, y) = { <<di, {si + 1}>>, <<di + 1, {si, si + Xres * 2 + 1}>>,
                                 <<di + 2, {si + Xres * 2}>>, <<di + 3, {}>> }
  BY DEF BayerPixel
<1>5. di = 4 * (i \div 4)
  BY <1>0, <1>1, <1>2
<1> HIDE DEF di, si
<1>6. i = di \/ i = di + 1 \/ i = di + 2 \/ i = di + 3
  BY <1>0, <1>1, <1>5
<1>7. \E w \in BayerPixel(base, x, y) : w[1] = i
  BY <1>6, <1>4
<1> QED
  BY <1>3, <1>7

----------------------------------------------------------------------------
(* What is being converted has passed the test of its size; a raw image     *)
(* that has is never the one that leaves its arrays.                        *)
Tested ==
    /\ held \subseteq Packets /\ packet \subseteq Packets /\ sent \in 0 .. MaxPackets
    /\ \A p \in held : p.size >= Needed(p)
    /\ \A p, q \in held : p = q

BoundsInv == Tested /\ RawStaysInBounds

LEMMA SizeType == \A p \in Packets : p.size \in Nat
BY ResolutionType DEF Packets, Sizes

LEMMA NeededType == \A p : Needed(p) \in Nat
BY ResolutionType DEF Needed

(* What Writes gives a raw image that has passed the test is in bounds.    *)
LEMMA RawFits ==
    ASSUME NEW p \in Packets, p.size >= Needed(p), p.type \in BayerTypes,
           NEW base \in {0, Resolution * 4}
    PROVE  InBounds(Writes(p, base), p.size)
<1>1. p.size \in Nat /\ p.size >= Resolution * 8
  BY SizeType DEF Needed
<1> QED
  BY <1>1, BayerInBounds DEF Writes

LEMMA BoundsStep ==
    ASSUME BoundsInv, [Next]_vars
    PROVE  BoundsInv'
<1> USE DEF BoundsInv, Tested, RawStaysInBounds
<1>1. CASE Arrive
  <2>1. PICK type \in ImageTypes, size \in Sizes, intact \in BOOLEAN :
            packet' = {[id |-> sent', type |-> type, size |-> size, intact |-> intact]}
    BY <1>1 DEF Arrive
  <2>2. sent' \in 1 .. MaxPackets
    BY <1>1, CameraAssumption DEF Arrive
  <2>3. packet' \subseteq Packets
    BY <2>1, <2>2 DEF Packets
  <2> QED
    BY <1>1, <2>2, <2>3 DEF Arrive, Needed
<1>2. CASE ConnectionChanges \/ NoPacket \/ BadSize
  BY <1>2 DEF ConnectionChanges, NoPacket, BadSize, Needed
<1>3. CASE UncompressFails
  BY <1>3 DEF UncompressFails, Needed
<1>4. CASE ConvertLeft
  <2>1. PICK p \in packet :
            /\ p.size >= Needed(p) /\ held' = {p}
            /\ process' = "undefined" => ~ InBounds(Writes(p, 0), p.size)
    BY <1>4 DEF ConvertLeft, Idle
  <2>2. process' = "undefined" => p.type \notin BayerTypes
    BY <2>1, RawFits
  <2> QED
    BY <1>4, <2>1, <2>2 DEF ConvertLeft, Needed
<1>5. CASE ConvertRight
  <2>1. PICK p \in held :
            /\ held' \subseteq held
            /\ process' = "undefined" => ~ InBounds(Writes(p, Resolution * 4), p.size)
    BY <1>5 DEF ConvertRight
  <2>2. process' = "undefined" => p.type \notin BayerTypes
    BY <2>1, RawFits
  <2> QED
    BY <1>5, <2>1, <2>2 DEF ConvertRight, Needed
<1>6. CASE UNCHANGED vars
  BY <1>6 DEF vars, Needed
<1> QED
  BY <1>1, <1>2, <1>3, <1>4, <1>5, <1>6 DEF Next

LEMMA BoundsInvariant == Spec => []BoundsInv
<1>1. Init => BoundsInv
  BY CameraAssumption DEF Init, BoundsInv, Tested, RawStaysInBounds
<1> QED
  BY <1>1, BoundsStep, PTL DEF Spec

(* THEOREM: for pictures of any size, no raw image that passes the test of  *)
(* its size makes a conversion leave its arrays.                            *)
THEOREM RawStaysInBoundsHolds == Spec => []RawStaysInBounds
<1>1. BoundsInv => RawStaysInBounds
  BY DEF BoundsInv
<1> QED
  BY <1>1, BoundsInvariant, PTL

----------------------------------------------------------------------------
(* A conversion that stays within its arrays is that of a raw image, and    *)
(* leaves no byte of the packets before.                                    *)
LEMMA WholePicture ==
    ASSUME NEW p, NEW base, NEW image, InBounds(Writes(p, base), p.size)
    PROVE  \A i \in Offsets : Converted(image, Writes(p, base), p)[i].from = p.id
<1>1. Writes(p, base) = Bayer(base)
  BY ColorizedLeaves DEF Writes
<1> SUFFICES ASSUME NEW i \in Offsets
             PROVE  Converted(image, Writes(p, base), p)[i].from = p.id
  OBVIOUS
<1>2. \E w \in Writes(p, base) : w[1] = i
  BY <1>1, BayerCovers
<1> QED
  BY <1>2 DEF Converted

PairInv ==
    \E a :
        /\ \A j \in Offsets : right[j].from = a
        /\ held = {} => \A i \in Offsets : left[i].from = a
        /\ process = "running" => \A p \in held, i \in Offsets : left[i].from = p.id

LEMMA PairStep ==
    ASSUME BoundsInv, PairInv, [Next]_vars
    PROVE  PairInv'
<1> USE DEF PairInv
<1>0. PICK a :
          /\ \A j \in Offsets : right[j].from = a
          /\ held = {} => \A i \in Offsets : left[i].from = a
          /\ process = "running" => \A p \in held, i \in Offsets : left[i].from = p.id
  OBVIOUS
<1>1. CASE Arrive \/ ConnectionChanges \/ NoPacket \/ BadSize
  BY <1>0, <1>1 DEF Arrive, ConnectionChanges, NoPacket, BadSize
<1>2. CASE UncompressFails
  BY <1>0, <1>2 DEF UncompressFails, Idle
<1>3. CASE ConvertLeft
  <2>1. PICK p \in packet :
            /\ held' = {p}
            /\ IF InBounds(Writes(p, 0), p.size)
               THEN left' = Converted(left, Writes(p, 0), p) /\ process' = process
               ELSE process' = "undefined" /\ left' = left
    BY <1>3 DEF ConvertLeft
  <2>2. process' = "running" => \A i \in Offsets : left'[i].from = p.id
    BY <2>1, WholePicture
  <2>3. right' = right
    BY <1>3 DEF ConvertLeft
  <2> QED
    BY <1>0, <2>1, <2>2, <2>3
<1>4. CASE ConvertRight
  <2>1. PICK p \in held :
            IF InBounds(Writes(p, Resolution * 4), p.size)
            THEN /\ right' = Converted(right, Writes(p, Resolution * 4), p)
                 /\ held' = {} /\ process' = process
            ELSE process' = "undefined" /\ right' = right /\ held' = held
    BY <1>4 DEF ConvertRight
  <2>2. process = "running" /\ left' = left
    BY <1>4 DEF ConvertRight
  <2>3. CASE InBounds(Writes(p, Resolution * 4), p.size)
    <3>1. \A j \in Offsets : right'[j].from = p.id
      BY <2>1, <2>3, WholePicture
    <3>2. \A i \in Offsets : left'[i].from = p.id
      BY <1>0, <2>2
    <3> QED
      BY <2>1, <2>3, <3>1, <3>2
  <2>4. CASE ~ InBounds(Writes(p, Resolution * 4), p.size)
    BY <1>0, <2>1, <2>2, <2>4
  <2> QED
    BY <2>3, <2>4
<1>5. CASE UNCHANGED vars
  BY <1>0, <1>5 DEF vars
<1> QED
  BY <1>1, <1>2, <1>3, <1>4, <1>5 DEF Next

(* THEOREM: for pictures of any size, between two updates the two eyes show *)
(* the same packet and nothing of another, whenever packets arrive.         *)
THEOREM PairFromOnePacketHolds == Spec => []PairFromOnePacket
<1>1. Init => PairInv
  BY DEF Init, PairInv, Unwritten
<1>2. BoundsInv /\ PairInv /\ [Next]_vars => PairInv'
  BY PairStep
<1>3. PairInv => PairFromOnePacket
  BY DEF PairInv, PairFromOnePacket
<1> QED
  BY <1>1, <1>2, <1>3, BoundsInvariant, PTL DEF Spec

----------------------------------------------------------------------------
(* A place belongs to one pixel only, so what is written there is what that *)
(* pixel writes.                                                            *)
LEMMA PixelOfPlace ==
    ASSUME NEW x \in 0 .. Xres - 1, NEW y \in 0 .. Yres - 1,
           NEW u \in 0 .. Xres - 1, NEW v \in 0 .. Yres - 1,
           x + y * Xres = u + v * Xres
    PROVE  x = u /\ y = v
<1>1. Xres \in Nat \ {0} /\ x \in Nat /\ y \in Nat /\ u \in Nat /\ v \in Nat
  BY CameraAssumption
<1>2. (y - v) * Xres = u - x /\ (v - y) * Xres = x - u
  BY <1>1
<1>3. ~ (y > v)
  <2> SUFFICES ASSUME y > v PROVE FALSE
    OBVIOUS
  <2>1. (y - v - 1) * Xres >= 0 /\ (y - v - 1) * Xres = (y - v) * Xres - Xres
    BY <1>1
  <2> QED
    BY <1>1, <1>2, <2>1
<1>4. ~ (v > y)
  <2> SUFFICES ASSUME v > y PROVE FALSE
    OBVIOUS
  <2>1. (v - y - 1) * Xres >= 0 /\ (v - y - 1) * Xres = (v - y) * Xres - Xres
    BY <1>1
  <2> QED
    BY <1>1, <1>2, <2>1
<1>5. y = v
  BY <1>1, <1>3, <1>4
<1> QED
  BY <1>1, <1>2, <1>5

LEMMA QuarterUnique ==
    ASSUME NEW a \in Nat, NEW b \in Nat, NEW c \in 0 .. 3, NEW d \in 0 .. 3,
           a * 4 + c = b * 4 + d
    PROVE  a = b /\ c = d
OBVIOUS

LEMMA WrittenOnce ==
    ASSUME NEW base, NEW x \in 0 .. Xres - 1, NEW y \in 0 .. Yres - 1,
           NEW si, si = base + (x + y * Xres * 2) * 2,
           NEW c \in 0 .. 3, NEW w \in Bayer(base), w[1] = (x + y * Xres) * 4 + c
    PROVE  /\ c = 0 => w[2] = {si + 1}
           /\ c = 1 => w[2] = {si, si + Xres * 2 + 1}
           /\ c = 2 => w[2] = {si + Xres * 2}
<1>1. PICK u \in 0 .. Xres - 1, v \in 0 .. Yres - 1 : w \in BayerPixel(base, u, v)
  BY DEF Bayer
<1> DEFINE di == (u + v * Xres) * 4
           sj == base + (u + v * Xres * 2) * 2
<1>2. \/ w = <<di, {sj + 1}>> \/ w = <<di + 1, {sj, sj + Xres * 2 + 1}>>
      \/ w = <<di + 2, {sj + Xres * 2}>> \/ w = <<di + 3, {}>>
  BY <1>1 DEF BayerPixel
<1>3. u + v * Xres \in Nat /\ x + y * Xres \in Nat
  BY PixelInPicture
<1> HIDE DEF sj
<1>4. PICK d \in 0 .. 3 : /\ w[1] = di + d
                          /\ d = 0 => w[2] = {sj + 1}
                          /\ d = 1 => w[2] = {sj, sj + Xres * 2 + 1}
                          /\ d = 2 => w[2] = {sj + Xres * 2}
  <2> HIDE DEF di
  <2>1. CASE w = <<di, {sj + 1}>>
    <3>1. w[1] = di + 0
      BY <1>3, <2>1 DEF di
    <3> QED
      BY <2>1, <3>1
  <2>2. CASE w = <<di + 1, {sj, sj + Xres * 2 + 1}>>
    BY <2>2
  <2>3. CASE w = <<di + 2, {sj + Xres * 2}>>
    BY <2>3
  <2>4. CASE w = <<di + 3, {}>>
    BY <2>4
  <2> QED
    BY <1>2, <2>1, <2>2, <2>3, <2>4
<1>5. (x + y * Xres) * 4 + c = (u + v * Xres) * 4 + d
  BY <1>4
<1>6. d = c /\ u + v * Xres = x + y * Xres
  <2> DEFINE a == x + y * Xres
             b == u + v * Xres
  <2>1. a \in Nat /\ b \in Nat /\ a * 4 + c = b * 4 + d
    BY <1>3, <1>5
  <2> HIDE DEF a, b
  <2>2. a = b /\ c = d
    BY <2>1, QuarterUnique
  <2> QED
    BY <2>2 DEF a, b
<1>7. u = x /\ v = y
  BY <1>6, PixelOfPlace
<1>8. sj = si
  BY <1>7 DEF sj
<1> QED
  BY <1>4, <1>6, <1>8

(* The bytes of the sensor's two rows and two columns, colour by colour.   *)
LEMMA SensorCells ==
    ASSUME NEW eye \in {0, 1}, NEW x \in 0 .. Xres - 1, NEW y \in 0 .. Yres - 1,
           NEW si, si = eye * Resolution * 4 + (x + y * Xres * 2) * 2
    PROVE  /\ SensorBytes(eye, x, y, "R") = {si + 1}
           /\ SensorBytes(eye, x, y, "G") = {si, si + Xres * 2 + 1}
           /\ SensorBytes(eye, x, y, "B") = {si + Xres * 2}
<1> DEFINE cells == {2 * y, 2 * y + 1} \X {2 * x, 2 * x + 1}
           byte(c) == eye * Resolution * 4 + c[1] * 2 * Xres + c[2]
<1>1. x \in Nat /\ y \in Nat /\ Xres \in Nat /\ eye * Resolution * 4 \in Nat
  BY CameraAssumption, ResolutionType
<1>2. (2 * x) % 2 = 0 /\ (2 * x + 1) % 2 = 1 /\ (2 * y) % 2 = 0 /\ (2 * y + 1) % 2 = 1
  BY <1>1
<1>3. /\ { c \in cells : Colour(c[1], c[2]) = "R" } = { <<2 * y, 2 * x + 1>> }
      /\ { c \in cells : Colour(c[1], c[2]) = "G" } = { <<2 * y, 2 * x>>, <<2 * y + 1, 2 * x + 1>> }
      /\ { c \in cells : Colour(c[1], c[2]) = "B" } = { <<2 * y + 1, 2 * x>> }
  BY <1>2 DEF Colour
<1>4. (2 * y) * 2 * Xres = y * Xres * 2 * 2 /\ (2 * y + 1) * 2 * Xres = y * Xres * 2 * 2 + 2 * Xres
      /\ y * Xres * 2 \in Nat
  BY <1>1
<1>5. /\ byte(<<2 * y, 2 * x + 1>>) = si + 1
      /\ byte(<<2 * y, 2 * x>>) = si
      /\ byte(<<2 * y + 1, 2 * x + 1>>) = si + Xres * 2 + 1
      /\ byte(<<2 * y + 1, 2 * x>>) = si + Xres * 2
  BY <1>1, <1>4
<1>6. \A colour : SensorBytes(eye, x, y, colour)
                      = { byte(c) : c \in { d \in cells : Colour(d[1], d[2]) = colour } }
  BY DEF SensorBytes
<1> HIDE DEF byte, cells
<1> QED
  BY <1>3, <1>5, <1>6

(* A conversion gives every pixel its cell of the sensor.                  *)
LEMMA ConvertedIsMosaic ==
    ASSUME NEW eye \in {0, 1}, NEW p, NEW image,
           InBounds(Writes(p, eye * Resolution * 4), p.size)
    PROVE  IsMosaicOf(Converted(image, Writes(p, eye * Resolution * 4), p), eye)
<1> DEFINE base == eye * Resolution * 4
           new  == Converted(image, Writes(p, base), p)
<1>1. Writes(p, base) = Bayer(base)
  BY ColorizedLeaves DEF Writes
<1>2. base \in {0, Resolution * 4}
  BY ResolutionType
<1> SUFFICES ASSUME NEW x \in 0 .. Xres - 1, NEW y \in 0 .. Yres - 1
             PROVE  /\ new[(x + y * Xres) * 4 + 0].mean = SensorBytes(eye, x, y, "R")
                    /\ new[(x + y * Xres) * 4 + 1].mean = SensorBytes(eye, x, y, "G")
                    /\ new[(x + y * Xres) * 4 + 2].mean = SensorBytes(eye, x, y, "B")
  BY DEF IsMosaicOf
<1> DEFINE si == base + (x + y * Xres * 2) * 2
           place(c) == (x + y * Xres) * 4 + c
<1>3. ASSUME NEW c \in 0 .. 3
      PROVE  /\ c = 0 => new[place(c)].mean = {si + 1}
             /\ c = 1 => new[place(c)].mean = {si, si + Xres * 2 + 1}
             /\ c = 2 => new[place(c)].mean = {si + Xres * 2}
  <2>1. place(c) \in Offsets
    BY <1>2, BayerReach
  <2>2. \E w \in Bayer(base) : w[1] = place(c)
    BY <2>1, BayerCovers
  <2> DEFINE w == CHOOSE w \in Bayer(base) : w[1] = place(c)
  <2>3. w \in Bayer(base) /\ w[1] = place(c)
    BY <2>2
  <2>4. new[place(c)].mean = w[2]
    BY <1>1, <2>1, <2>2 DEF Converted
  <2> HIDE DEF w
  <2> QED
    BY <2>3, <2>4, WrittenOnce
<1>4. /\ SensorBytes(eye, x, y, "R") = {si + 1}
      /\ SensorBytes(eye, x, y, "G") = {si, si + Xres * 2 + 1}
      /\ SensorBytes(eye, x, y, "B") = {si + Xres * 2}
  BY SensorCells
<1> HIDE DEF new, si, place
<1>5. /\ new[place(0)].mean = {si + 1}
      /\ new[place(1)].mean = {si, si + Xres * 2 + 1}
      /\ new[place(2)].mean = {si + Xres * 2}
  BY <1>3
<1>6. /\ new[place(0)].mean = SensorBytes(eye, x, y, "R")
      /\ new[place(1)].mean = SensorBytes(eye, x, y, "G")
      /\ new[place(2)].mean = SensorBytes(eye, x, y, "B")
  BY <1>4, <1>5
<1> QED
  BY <1>6 DEF place

LEMMA MosaicStep ==
    ASSUME PixelsAreCells, [Next]_vars
    PROVE  PixelsAreCells'
<1> USE DEF PixelsAreCells
<1>0. 0 = 0 * Resolution * 4 /\ Resolution * 4 = 1 * Resolution * 4
  BY ResolutionType
<1>1. CASE ConvertLeft
  <2>1. \/ left' = left
        \/ \E p \in packet : /\ InBounds(Writes(p, 0), p.size)
                             /\ left' = Converted(left, Writes(p, 0), p)
    BY <1>1 DEF ConvertLeft
  <2>2. IsMosaicOf(left', 0)
    BY <1>0, <2>1, ConvertedIsMosaic
  <2> QED
    BY <1>1, <2>2 DEF ConvertLeft, IsMosaicOf
<1>2. CASE ConvertRight
  <2>1. \/ right' = right
        \/ \E p \in held : /\ InBounds(Writes(p, Resolution * 4), p.size)
                           /\ right' = Converted(right, Writes(p, Resolution * 4), p)
    BY <1>2 DEF ConvertRight
  <2>2. IsMosaicOf(right', 1)
    BY <1>0, <2>1, ConvertedIsMosaic
  <2> QED
    BY <1>2, <2>2 DEF ConvertRight, IsMosaicOf
<1>3. CASE UNCHANGED <<left, right>>
  BY <1>3 DEF IsMosaicOf
<1> QED
  BY <1>1, <1>2, <1>3 DEF Next, Arrive, ConnectionChanges, NoPacket, BadSize,
     UncompressFails, vars

(* THEOREM: for pictures of any size, every pixel of both eyes has the red, *)
(* the green and the blue of its own place on the sensor.                   *)
THEOREM PixelsAreCellsHolds == Spec => []PixelsAreCells
<1>1. Init => PixelsAreCells
  <2> SUFFICES ASSUME Init, NEW x \in 0 .. Xres - 1, NEW y \in 0 .. Yres - 1
               PROVE  /\ left[(x + y * Xres) * 4 + 0].from = 0
                      /\ right[(x + y * Xres) * 4 + 0].from = 0
    BY DEF PixelsAreCells, IsMosaicOf
  <2>1. (x + y * Xres) * 4 + 0 \in Offsets
    BY BayerReach
  <2> QED
    BY <2>1 DEF Init, Unwritten
<1> QED
  BY <1>1, MosaicStep, PTL DEF Spec

----------------------------------------------------------------------------
(* The types need to know that only what was compressed can be broken, and  *)
(* that no packet is from the future.                                       *)
TypeInv ==
    /\ TypeOK
    /\ \A p \in packet : ~ p.intact => p.type \in ZlibTypes
    /\ \A p \in packet \cup held : p.id <= sent

PictureOf(image, n) ==
    /\ DOMAIN image = Offsets
    /\ \A i \in Offsets :
          image[i].from \in 0 .. n /\ image[i].mean \subseteq 0 .. Resolution * 8 - 1

LEMMA ConvertedPicture ==
    ASSUME NEW p \in Packets, NEW n \in Nat, p.id <= n, NEW image, NEW writes,
           PictureOf(image, n), InBounds(writes, p.size)
    PROVE  PictureOf(Converted(image, writes, p), n)
<1> DEFINE new == Converted(image, writes, p)
<1>1. p.id \in 0 .. n /\ p.size \in Nat /\ p.size <= Resolution * 8
  BY ResolutionType, CameraAssumption DEF Packets, Sizes
<1>2. DOMAIN new = Offsets
  BY DEF Converted
<1>3. ASSUME NEW i \in Offsets
      PROVE  new[i].from \in 0 .. n /\ new[i].mean \subseteq 0 .. Resolution * 8 - 1
  <2>1. CASE \E w \in writes : w[1] = i
    <3> DEFINE w == CHOOSE w \in writes : w[1] = i
    <3>1. w \in writes /\ new[i] = [from |-> p.id, mean |-> w[2]]
      BY <2>1 DEF Converted
    <3> HIDE DEF w, new
    <3>2. w[2] \subseteq 0 .. p.size - 1
      BY <3>1 DEF InBounds
    <3>3. 0 .. p.size - 1 \subseteq 0 .. Resolution * 8 - 1
      BY <1>1, ResolutionType
    <3>4. new[i].from = p.id /\ new[i].mean = w[2]
      BY <3>1
    <3> QED
      BY <1>1, <3>2, <3>3, <3>4
  <2>2. CASE ~ \E w \in writes : w[1] = i
    BY <2>2 DEF Converted, PictureOf
  <2> QED
    BY <2>1, <2>2
<1> HIDE DEF new
<1>4. PictureOf(new, n)
  BY <1>2, <1>3 DEF PictureOf
<1> QED
  BY <1>4 DEF new

LEMMA CameraTypeStep ==
    ASSUME TypeInv, [Next]_vars
    PROVE  TypeInv'
<1>0. /\ sent \in 0 .. MaxPackets /\ sent \in Nat
      /\ packet \subseteq Packets /\ held \subseteq { p \in Packets : p.intact }
      /\ PictureOf(left, sent) /\ PictureOf(right, sent)
      /\ connected \in BOOLEAN /\ hasImage \in BOOLEAN
      /\ process \in {"running", "terminated", "undefined"}
      /\ \A p \in packet : ~ p.intact => p.type \in ZlibTypes
      /\ \A p \in packet \cup held : p.id <= sent
  BY CameraAssumption DEF TypeInv, TypeOK, PictureOf
<1> SUFFICES /\ sent' \in 0 .. MaxPackets
             /\ packet' \subseteq Packets /\ held' \subseteq { p \in Packets : p.intact }
             /\ PictureOf(left', sent') /\ PictureOf(right', sent')
             /\ connected' \in BOOLEAN /\ hasImage' \in BOOLEAN
             /\ process' \in {"running", "terminated", "undefined"}
             /\ \A p \in packet' : ~ p.intact => p.type \in ZlibTypes
             /\ \A p \in packet' \cup held' : p.id <= sent'
  BY DEF TypeInv, TypeOK, PictureOf
<1>1. CASE Arrive
  <2>1. PICK type \in ImageTypes, size \in Sizes, intact \in BOOLEAN :
            /\ ~ intact => type \in ZlibTypes
            /\ packet' = {[id |-> sent', type |-> type, size |-> size, intact |-> intact]}
    BY <1>1 DEF Arrive
  <2>2. sent' = sent + 1 /\ sent' \in 1 .. MaxPackets /\ 0 .. sent \subseteq 0 .. sent'
    BY <1>0, <1>1, CameraAssumption DEF Arrive
  <2>3. \A p \in packet' : /\ p \in Packets /\ p.id <= sent'
                           /\ ~ p.intact => p.type \in ZlibTypes
    BY <2>1, <2>2 DEF Packets
  <2>4. PictureOf(left', sent') /\ PictureOf(right', sent')
    BY <1>0, <1>1, <2>2 DEF Arrive, PictureOf
  <2>5. \A p \in held' : p.id <= sent'
    <3>1. \A p \in held : p \in Packets /\ p.id \in Nat /\ p.id <= sent
      BY <1>0 DEF Packets
    <3> QED
      BY <1>0, <1>1, <2>2, <3>1 DEF Arrive
  <2> QED
    BY <1>0, <1>1, <2>2, <2>3, <2>4, <2>5 DEF Arrive
<1>2. CASE ConnectionChanges
  BY <1>0, <1>2 DEF ConnectionChanges
<1>3. CASE NoPacket
  BY <1>0, <1>3, Zenon DEF NoPacket
<1>4. CASE UncompressFails \/ BadSize
  BY <1>0, <1>4 DEF UncompressFails, BadSize
<1>5. CASE ConvertLeft
  <2>1. PICK p \in packet :
            /\ Unpacks(p) /\ held' = {p}
            /\ IF InBounds(Writes(p, 0), p.size)
               THEN left' = Converted(left, Writes(p, 0), p) /\ process' = process
               ELSE process' = "undefined" /\ left' = left
    BY <1>5 DEF ConvertLeft
  <2>2. UNCHANGED <<sent, packet, connected, right>> /\ hasImage' = TRUE
    BY <1>5 DEF ConvertLeft
  <2>3. p \in Packets /\ p.intact /\ p.id <= sent
    <3>1. p.intact \in BOOLEAN
      BY <1>0 DEF Packets
    <3> QED
      BY <1>0, <2>1, <3>1 DEF Unpacks
  <2>4. PictureOf(left', sent)
    BY <1>0, <2>1, <2>3, ConvertedPicture
  <2>5. process' \in {"running", "terminated", "undefined"}
    BY <1>0, <2>1
  <2> QED
    BY <1>0, <2>1, <2>2, <2>3, <2>4, <2>5
<1>6. CASE ConvertRight
  <2>1. PICK p \in held :
            IF InBounds(Writes(p, Resolution * 4), p.size)
            THEN /\ right' = Converted(right, Writes(p, Resolution * 4), p)
                 /\ held' = {} /\ process' = process
            ELSE process' = "undefined" /\ right' = right /\ held' = held
    BY <1>6 DEF ConvertRight
  <2>2. UNCHANGED <<sent, packet, connected, left, hasImage>>
    BY <1>6 DEF ConvertRight
  <2>3. p \in Packets /\ p.id <= sent
    BY <1>0
  <2>4. PictureOf(right', sent)
    BY <1>0, <2>1, <2>3, ConvertedPicture
  <2>5. held' \subseteq held /\ process' \in {"running", "terminated", "undefined"}
    BY <1>0, <2>1
  <2> QED
    BY <1>0, <2>2, <2>4, <2>5
<1>7. CASE UNCHANGED vars
  BY <1>0, <1>7 DEF vars
<1> QED
  BY <1>1, <1>2, <1>3, <1>4, <1>5, <1>6, <1>7 DEF Next

(* In the update thread, only the unit it updates is in its middle: the     *)
(* right eye is converted whenever the left one was, because only a raw     *)
(* image gets that far.                                                     *)
UnitInv ==
    /\ unit \in {"camera", "lidar"}
    /\ held # {} => unit = "camera"
    /\ scanning # {} => unit = "lidar"
    /\ process = "running" => \A p \in held : p.type \in BayerTypes

LEMMA ConvertLeftIsRaw ==
    ASSUME ConvertLeft
    PROVE  process' = "running" => \A p \in held' : p.type \in BayerTypes
<1>1. PICK p \in packet :
          /\ held' = {p}
          /\ process' = "running" => InBounds(Writes(p, 0), p.size)
  BY DEF ConvertLeft, Idle
<1>2. p.type \notin BayerTypes => ~ InBounds(Writes(p, 0), p.size)
  BY ColorizedLeaves DEF Writes
<1> QED
  BY <1>1, <1>2

LEMMA ConvertRightEnds ==
    ASSUME BoundsInv, UnitInv, ConvertRight
    PROVE  held' = {}
<1>1. PICK p \in held :
          InBounds(Writes(p, Resolution * 4), p.size) => held' = {}
  BY DEF ConvertRight
<1>2. p.type \in BayerTypes /\ p \in Packets /\ p.size >= Needed(p)
  BY DEF ConvertRight, UnitInv, BoundsInv, Tested
<1> QED
  BY <1>1, <1>2, RawFits

LEMMA UnitStep ==
    ASSUME UnitInv, BoundsInv, [SensorsNext]_sensorsVars
    PROVE  UnitInv'
<1> USE DEF UnitInv
<1>1. CASE CameraUpdate
  <2>1. scanning' = scanning
    BY <1>1 DEF CameraUpdate, lidarVars, scan
  <2>2. CASE ConvertLeft /\ Turn("camera", "camera")
    BY <2>1, <2>2, ConvertLeftIsRaw DEF Turn
  <2>3. CASE (NoPacket \/ UncompressFails \/ BadSize) /\ Turn("camera", "lidar")
    BY <2>1, <2>3 DEF NoPacket, UncompressFails, BadSize, Idle, Turn
  <2>4. CASE ConvertRight /\ Turn("camera", "lidar")
    BY <2>1, <2>4, ConvertRightEnds DEF Turn
  <2> QED
    BY <1>1, <2>2, <2>3, <2>4 DEF CameraUpdate
<1>2. CASE LidarUpdate
  <2>1. held' = held /\ process' = process
    BY <1>2 DEF LidarUpdate, vars
  <2>2. CASE (BeginScan \/ Discard \/ Count) /\ Turn("lidar", "lidar")
    BY <2>1, <2>2 DEF Turn
  <2>3. CASE (NoCapture \/ EndScan) /\ Turn("lidar", "camera")
    BY <2>1, <2>3 DEF NoCapture, EndScan, Turn, lidarVars, scan
  <2> QED
    BY <1>2, <2>2, <2>3 DEF LidarUpdate
<1>3. CASE PacketArrives
  BY <1>3 DEF PacketArrives, Arrive, ConnectionChanges, CaptureArrives, vars, lidarVars, scan
<1>4. CASE UNCHANGED sensorsVars
  BY <1>4 DEF sensorsVars, vars, lidarVars, scan
<1> QED
  BY <1>1, <1>2, <1>3, <1>4 DEF SensorsNext

(* THEOREM: for pictures and captures of any size both units keep their     *)
(* types, and only the unit the update thread is at is in the middle of its *)
(* work.                                                                    *)
THEOREM SensorsTypeCorrect == SensorsSpec => []SensorsTypeOK
<1>1. Init => TypeInv
  <2> SUFFICES ASSUME Init PROVE TypeInv
    OBVIOUS
  <2>1. sent = 0 /\ sent \in 0 .. MaxPackets /\ packet = {} /\ held = {}
    BY CameraAssumption DEF Init
  <2>2. \A i \in Offsets : left[i] = Unwritten /\ right[i] = Unwritten
    BY DEF Init
  <2>3. DOMAIN left = Offsets /\ DOMAIN right = Offsets
    BY DEF Init
  <2>4. connected \in BOOLEAN /\ hasImage \in BOOLEAN /\ process = "running"
    BY DEF Init
  <2>5. \A i \in Offsets : /\ left[i].from = 0 /\ left[i].mean = {}
                          /\ right[i].from = 0 /\ right[i].mean = {}
    BY <2>2 DEF Unwritten
  <2> QED
    BY <2>1, <2>3, <2>4, <2>5 DEF TypeInv, TypeOK
<1>2. SensorsInit => UnitInv
  BY DEF SensorsInit, Init, LidarInit, UnitInv
<1>3. TypeInv /\ UnitInv /\ LidarTypeOK => SensorsTypeOK
  BY DEF TypeInv, UnitInv, SensorsTypeOK
<1>4. Spec => []TypeInv
  BY <1>1, CameraTypeStep, PTL DEF Spec
<1>5. SensorsSpec => []UnitInv
  BY <1>2, UnitStep, SensorsAreBoth, BoundsInvariant, PTL DEF SensorsSpec
<1> QED
  BY <1>3, <1>4, <1>5, SensorsAreBoth, LidarTypeCorrect, PTL
====================================================================================
