----------------------------------- MODULE Camera -----------------------------------
(***************************************************************************)
(* Oz::Camera: the stereo packet of _last_packets is unpacked and each     *)
(* half converted into the RGBA buffer of an eye, while the reader thread  *)
(* may store the next packet. A byte of a picture is known by where it     *)
(* comes from: the packet, and the offsets of the data it is the mean of.  *)
(***************************************************************************)
EXTENDS Naturals

CONSTANTS
    Xres, Yres,   \* CAMERA_CAPTURE_WIDTH, CAMERA_CAPTURE_HEIGHT
    MaxPackets    \* bound: stereo packets the robot sends

ASSUME CameraAssumption ==
    Xres \in Nat \ {0} /\ Yres \in Nat \ {0} /\ MaxPackets \in Nat

Resolution == Xres * Yres
Offsets    == 0 .. Resolution * 4 - 1     \* of a buffer

ZlibTypes  == {"RAW_IMAGES_ZLIB", "UNRECTIFIED_COLORIZED_IMAGES_ZLIB",
               "RECTIFIED_COLORIZED_IMAGES_ZLIB"}
BayerTypes == {"RAW_IMAGES", "RAW_IMAGES_ZLIB"}
ImageTypes == ZlibTypes \cup BayerTypes \cup {"COLORIZED"}

\* The sizes that matter to a conversion: what the tests ask for, and a byte
\* less. For compressed data it is the size after decompression.
Sizes == {Resolution * 3 * 2 - 1, Resolution * 3 * 2, Resolution * 8 - 1, Resolution * 8}

Packets == [id : 1 .. MaxPackets, type : ImageTypes, size : Sizes, intact : BOOLEAN]

VARIABLES
    sent,        \* how many packets the robot has sent
    packet,      \* the stereo packet in _last_packets: a set of one, or {}
    connected,   \* is_camera_connected()
    held,        \* the packet update() is converting: a set of one, or {}
    left, right, \* _left_buffer, _right_buffer
    hasImage,    \* _has_image
    process      \* running; terminated by an exception; undefined once an access
                 \* has left its array

vars == <<sent, packet, connected, held, left, right, hasImage, process>>

\* Nothing has been written there: new leaves the bytes as they are.
Unwritten == [from |-> 0, mean |-> {}]
Init ==
    /\ sent = 0 /\ packet = {} /\ connected = FALSE /\ held = {}
    /\ left = [i \in Offsets |-> Unwritten] /\ right = left
    /\ hasImage = FALSE /\ process = "running"

----------------------------------------------------------------------------
(* The gateway, as the camera sees it.                                     *)

Arrive ==
    /\ process = "running" /\ sent < MaxPackets
    /\ sent' = sent + 1
    /\ \E type \in ImageTypes, size \in Sizes, intact \in BOOLEAN :
          /\ ~ intact => type \in ZlibTypes
          /\ packet' = {[id |-> sent', type |-> type, size |-> size, intact |-> intact]}
    /\ UNCHANGED <<connected, held, left, right, hasImage, process>>

ConnectionChanges ==
    /\ process = "running"
    /\ connected' = ~ connected
    /\ UNCHANGED <<sent, packet, held, left, right, hasImage, process>>

----------------------------------------------------------------------------
(* The conversions: which byte of the buffer is written with the mean of   *)
(* which bytes of the data, from base on. The alpha channel is the mean of *)
(* none.                                                                   *)

\* A mutant: the rows of the data are taken to be as long as the buffer's.
BayerPixelDense(base, x, y) ==
    LET di == (x + y * Xres) * 4
        si == base + (x + y * Xres) * 2
    IN  { <<di, {si + 1}>>, <<di + 1, {si, si + Xres * 2 + 1}>>,
          <<di + 2, {si + Xres * 2}>>, <<di + 3, {}>> }

BayerPixel(base, x, y) ==
    LET di == (x + y * Xres) * 4
        si == base + (x + y * Xres * 2) * 2
    IN  { <<di, {si + 1}>>, <<di + 1, {si, si + Xres * 2 + 1}>>,
          <<di + 2, {si + Xres * 2}>>, <<di + 3, {}>> }

Bayer(base) ==
    UNION { BayerPixel(base, x, y) : x \in 0 .. Xres - 1, y \in 0 .. Yres - 1 }

Colorized(base) ==
    UNION { { <<x * 4, {base + x * 3}>>, <<x * 4 + 1, {base + x * 3 + 1}>>,
              <<x * 4 + 2, {base + x * 3 + 2}>>, <<x * 4 + 3, {}>> }
          : x \in 0 .. Resolution * 4 - 1 }

Writes(p, base) == IF p.type \in BayerTypes THEN Bayer(base) ELSE Colorized(base)

InBounds(writes, size) ==
    \A w \in writes : w[1] \in Offsets /\ w[2] \subseteq 0 .. size - 1

Converted(image, writes, p) ==
    [i \in Offsets |->
        IF \E w \in writes : w[1] = i
        THEN [from |-> p.id, mean |-> (CHOOSE w \in writes : w[1] = i)[2]]
        ELSE image[i]]

----------------------------------------------------------------------------
(* Camera::update and _update_buffers.                                     *)

\* A mutant: one picture of the two is enough.
NeededOfOne(p) == IF p.type \in BayerTypes THEN Resolution * 4 ELSE Resolution * 3

Needed(p) == IF p.type \in BayerTypes THEN Resolution * 8 ELSE Resolution * 3 * 2

\* A mutant: the status of uncompress() is not looked at.
UnpacksAlways(p) == TRUE

\* zlib_uncompress returns, or nothing was compressed.
Unpacks(p) == p.type \in ZlibTypes => p.intact

Idle == process = "running" /\ held = {}

NoPacket ==
    /\ Idle /\ packet = {}
    /\ hasImage' = (hasImage /\ connected)
    /\ UNCHANGED <<sent, packet, connected, held, left, right, process>>

\* zlib_uncompress throws a std::runtime_error, which nothing in the update
\* thread catches.
UncompressFails ==
    /\ Idle
    /\ \E p \in packet : ~ Unpacks(p)
    /\ hasImage' = TRUE /\ process' = "terminated"
    /\ UNCHANGED <<sent, packet, connected, held, left, right>>

BadSize ==
    /\ Idle
    /\ \E p \in packet : Unpacks(p) /\ p.size < Needed(p)
    /\ hasImage' = TRUE
    /\ UNCHANGED <<sent, packet, connected, held, left, right, process>>

\* The update thread holds the packet from here on, whatever arrives. An
\* access beyond an array is undefined: nothing is known of the process then.
ConvertLeft ==
    /\ Idle
    /\ \E p \in packet :
          /\ Unpacks(p) /\ p.size >= Needed(p)
          /\ held' = {p}
          /\ IF InBounds(Writes(p, 0), p.size)
             THEN left' = Converted(left, Writes(p, 0), p) /\ process' = process
             ELSE process' = "undefined" /\ left' = left
    /\ hasImage' = TRUE
    /\ UNCHANGED <<sent, packet, connected, right>>

\* A mutant: the right picture is taken from the packet that is the last by
\* now.
ConvertRightLatest ==
    /\ process = "running" /\ held # {}
    /\ \E p \in packet :
          IF InBounds(Writes(p, Resolution * 4), p.size)
          THEN right' = Converted(right, Writes(p, Resolution * 4), p) /\ process' = process
          ELSE process' = "undefined" /\ right' = right
    /\ held' = {}
    /\ UNCHANGED <<sent, packet, connected, left, hasImage>>

ConvertRight ==
    /\ process = "running"
    /\ \E p \in held :
          IF InBounds(Writes(p, Resolution * 4), p.size)
          THEN /\ right' = Converted(right, Writes(p, Resolution * 4), p)
               /\ held' = {} /\ process' = process
          ELSE process' = "undefined" /\ right' = right /\ held' = held
    /\ UNCHANGED <<sent, packet, connected, left, hasImage>>

Next ==
    \/ Arrive \/ ConnectionChanges
    \/ NoPacket \/ UncompressFails \/ BadSize \/ ConvertLeft \/ ConvertRight

Spec == Init /\ [][Next]_vars

----------------------------------------------------------------------------
(* Properties.                                                             *)

\* The registers keep their types; what is being converted has been unpacked,
\* and a picture is made of bytes of the data.
TypeOK ==
    /\ sent \in 0 .. MaxPackets
    /\ packet \subseteq Packets /\ connected \in BOOLEAN /\ hasImage \in BOOLEAN
    /\ held \subseteq { p \in Packets : p.intact }
    /\ DOMAIN left = Offsets /\ DOMAIN right = Offsets
    /\ \A i \in Offsets :
          /\ left[i].from \in 0 .. sent /\ left[i].mean \subseteq 0 .. Resolution * 8 - 1
          /\ right[i].from \in 0 .. sent /\ right[i].mean \subseteq 0 .. Resolution * 8 - 1
    /\ process \in {"running", "terminated", "undefined"}

\* The comment on the disposition of the colours (Camera.cpp:76-81) as a
\* definition: the sensor of an eye has two rows and two columns for every
\* pixel, even rows G,R,G,R and odd rows B,G,B,G.
Colour(row, column) ==
    IF row % 2 = 0 THEN IF column % 2 = 0 THEN "G" ELSE "R"
                   ELSE IF column % 2 = 0 THEN "B" ELSE "G"

SensorBytes(eye, x, y, colour) ==
    { eye * Resolution * 4 + place[1] * 2 * Xres + place[2] :
        place \in { c \in {2 * y, 2 * y + 1} \X {2 * x, 2 * x + 1} :
                        Colour(c[1], c[2]) = colour } }

IsMosaicOf(image, eye) ==
    \A x \in 0 .. Xres - 1, y \in 0 .. Yres - 1 :
        LET channel(c) == image[(x + y * Xres) * 4 + c]
        IN  channel(0).from # 0 =>
                /\ channel(0).mean = SensorBytes(eye, x, y, "R")
                /\ channel(1).mean = SensorBytes(eye, x, y, "G")
                /\ channel(2).mean = SensorBytes(eye, x, y, "B")

\* bayer_grbg32_to_rgba24 gives every pixel of both eyes the red, the green
\* and the blue the sensor has at its place.
PixelsAreCells == IsMosaicOf(left, 0) /\ IsMosaicOf(right, 1)

\* Between two updates both pictures are whole and of one packet, although
\* the reader may replace the packet in the middle of an update.
PairFromOnePacket ==
    held = {} => \A i, j \in Offsets : left[i].from = right[j].from

\* No raw image, of whatever size, makes the conversion read or write beyond
\* its arrays: the test of data_size is what the conversion needs.
RawStaysInBounds ==
    process = "undefined" => \A p \in held : p.type \notin BayerTypes

\* What the test "Bad colorized image size!" (Camera.cpp:95-98) is there for:
\* what passes it is converted without leaving an array. The code violates it.
ConversionInBounds == process # "undefined"
=====================================================================================
