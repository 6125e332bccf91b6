---------------------------- MODULE MCSensorOpen ----------------------------
(* SensorOpen for TLC.                                                      *)
EXTENDS SensorOpen, TLC
=============================================================================
