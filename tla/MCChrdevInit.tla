---------------------------- MODULE MCChrdevInit ----------------------------
(* ChrdevInit for TLC, with one driver of each shape, two of which want the *)
(* same class.  Modcontrol, Mydevzero and Mydevnull differ from Hello in    *)
(* nothing but the name of the class.                                       *)
EXTENDS ChrdevInit, TLC

MCDrivers == {Motor, Sensor, Hello, Exercise3}
=============================================================================
