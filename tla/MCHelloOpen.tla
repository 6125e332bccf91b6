---------------------------- MODULE MCHelloOpen ----------------------------
(* HelloOpen for TLC: five openers are enough for two of them to refuse     *)
(* each other while a third closes and a fourth is admitted.                *)
EXTENDS HelloOpen, TLC
=============================================================================
