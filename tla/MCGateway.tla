--------------------------------- MODULE MCGateway ---------------------------------
(* Gateway for TLC. MaxPackets bounds the packets queued over a behaviour;  *)
(* nothing else in Gateway is unbounded.                                    *)
EXTENDS GatewayInv
====================================================================================
