-------------------------------- MODULE MCTelemetry --------------------------------
(* Telemetry for TLC: the odometer's packets on the command stream and the  *)
(* images on the camera stream.                                             *)
EXTENDS Telemetry

MCStreamOf == [t \in Types |-> IF t = "odo" THEN "command" ELSE "camera"]
====================================================================================
