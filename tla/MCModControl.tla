---------------------------- MODULE MCModControl ----------------------------
(* ModControl for TLC.                                                      *)
EXTENDS ModControl, TLC

(* One and two bytes, distinct so that an exchange shows.                   *)
MCInputs == {<<1>>, <<2, 3>>}
=============================================================================
