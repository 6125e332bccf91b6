----------------------------- MODULE MCDevZero -----------------------------
(* DevZero for TLC: reads of no chunk up to three, with every rest, and     *)
(* memory behind the last one that must not be written.                     *)
EXTENDS DevZero, TLC

MCCounts == 0 .. 8
MCMemory == 0 .. 9
=============================================================================
