---------------------------------- MODULE MCCamera ----------------------------------
(* Camera for TLC: pictures of three by two pixels, so that a pixel has      *)
(* neighbours in its row and its column, and width is not taken for height.  *)
EXTENDS Camera
=====================================================================================
