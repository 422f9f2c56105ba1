---------------------------------- MODULE MCDrive ----------------------------------
(* Drive for TLC. MaxTicks bounds the distance: 20 ticks are enough for a   *)
(* complete turn of 17 ticks after up to three ticks of driving, and for    *)
(* the beginning of a second turn. Four packets hold two commands, so one   *)
(* can be late or lost behind another.                                      *)
EXTENDS Drive
====================================================================================
