-------------------------------- MODULE MCPlayground --------------------------------
(* Playground for TLC. The bounds of the zoom are nearer to its start than  *)
(* the code's, so that both are reached in few turns of the wheel.          *)
EXTENDS Playground
=====================================================================================
