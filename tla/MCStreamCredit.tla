--------------------------- MODULE MCStreamCredit ---------------------------
(***************************************************************************)
(* StreamCredit for TLC: a window of two frames is the smallest in which a *)
(* grant can be capped by the ceiling while a drained frame is still owed  *)
(* a credit.                                                               *)
(***************************************************************************)
EXTENDS StreamCredit
=============================================================================
