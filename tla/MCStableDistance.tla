-------------------------- MODULE MCStableDistance --------------------------
(* StableDistance for TLC.                                                  *)
EXTENDS StableDistance, TLC
=============================================================================
