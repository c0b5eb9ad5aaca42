----------------------------- MODULE MCPosixAio -----------------------------
(***************************************************************************)
(* Instances of PosixAio for TLC.                                          *)
(***************************************************************************)
EXTENDS PosixAio

CONSTANTS a1, a2, t1, t2

\* Two workers with two requests, and one with three, so that a block is used
\* again while another request is outstanding; with and without ioctls.
MCSetups ==
  [max_threads : {2}, submits : {2}, ioctls : BOOLEAN]
  \cup [max_threads : {1}, submits : {3}, ioctls : BOOLEAN]
=============================================================================
