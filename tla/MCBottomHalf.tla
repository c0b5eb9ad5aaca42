---------------------------- MODULE MCBottomHalf ----------------------------
(***************************************************************************)
(* Two devices, one of which schedules idle bottom halves, and two block   *)
(* requests, for TLC.                                                      *)
(***************************************************************************)
EXTENDS BottomHalf

CONSTANTS d1, r1, r2, r3
=============================================================================
