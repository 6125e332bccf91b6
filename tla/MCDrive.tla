------------------------------ MODULE MCDrive ------------------------------
(* Drive for TLC.                                                           *)
EXTENDS Drive, TLC

CONSTANTS d1, d2

MCFiles == Programs \X {"left", "right"}

(* What the program writes: the ints 1, 0 and -1, and nothing.              *)
MCPayloads == {<<1, 0, 0, 0>>, <<0, 0, 0, 0>>, <<255, 255, 255, 255>>, <<>>}

(* The copies of the program are alike.                                     *)
MCSymmetry == Permutations(Programs)
=============================================================================
