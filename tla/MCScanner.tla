--------------------------------- MODULE MCScanner ---------------------------------
(* Scanner for TLC, in units of 250 of the code's: the reach is 500 and a   *)
(* line begins within 1000. The grid has one column to the left of the      *)
(* robot and, out of its reach, three to the right and a point behind; what *)
(* is far ahead is too far to begin a line. Six points make two lines of    *)
(* three.                                                                   *)
EXTENDS Scanner

MCGrid == ({-2, 1, 2, 3} \X (1 .. 4)) \cup {<<2, -1>>}
====================================================================================
