---------------------------------- MODULE Sensors ----------------------------------
(***************************************************************************)
(* The units that see, in a cycle of the update thread: the camera, then   *)
(* the lidar, while the reader thread stores packets for both.             *)
(***************************************************************************)
EXTENDS Camera, Lidar

VARIABLE unit    \* the unit Oz::update is updating

sensorsVars == <<vars, lidarVars, unit>>

SensorsInit == Init /\ LidarInit /\ unit = "camera"

Turn(from, to) == unit = from /\ unit' = to

\* The camera returns at once, throws, or converts both eyes.
CameraUpdate ==
    /\ \/ ConvertLeft /\ Turn("camera", "camera")
       \/ (NoPacket \/ UncompressFails \/ BadSize \/ ConvertRight)
             /\ Turn("camera", "lidar")
    /\ UNCHANGED lidarVars

LidarUpdate ==
    /\ process = "running"
    /\ \/ (BeginScan \/ Discard \/ Count) /\ Turn("lidar", "lidar")
       \/ (NoCapture \/ EndScan) /\ Turn("lidar", "camera")
    /\ UNCHANGED vars

\* The reader thread.
PacketArrives ==
    /\ \/ (Arrive \/ ConnectionChanges) /\ UNCHANGED lidarVars
       \/ process = "running" /\ CaptureArrives /\ UNCHANGED vars
    /\ UNCHANGED unit

SensorsNext == CameraUpdate \/ LidarUpdate \/ PacketArrives

SensorsSpec == SensorsInit /\ [][SensorsNext]_sensorsVars

\* Both units keep their types; only the unit being updated is in the middle
\* of its work.
SensorsTypeOK ==
    /\ TypeOK /\ LidarTypeOK
    /\ held # {} => unit = "camera"
    /\ scanning # {} => unit = "lidar"
====================================================================================
