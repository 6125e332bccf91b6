------------------------------ MODULE MCFollow ------------------------------
(* Follow for TLC.                                                          *)
EXTENDS Follow, TLC

(* The last near and the first far distances on both sides of the limits.   *)
MCDistances == {AVG_DIST_UM, AVG_DIST_UM + 1, MAX_DIST_UM, MAX_DIST_UM + 1}
=============================================================================
