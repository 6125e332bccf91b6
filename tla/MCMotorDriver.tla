--------------------------- MODULE MCMotorDriver ---------------------------
(* MotorDriver for TLC.                                                     *)
EXTENDS MotorDriver, TLC

(* The ints 1, 0 and -1, the text "1" of a shell's echo -n, and nothing.    *)
MCPayloads ==
  {<<1, 0, 0, 0>>, <<0, 0, 0, 0>>, <<255, 255, 255, 255>>, <<49>>, <<>>}
=============================================================================
