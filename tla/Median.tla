------------------------------- MODULE Median -------------------------------
(* The median of three, as raspi/follow/follow.c computes it.              *)
EXTENDS Integers

(* The macros of sys/param.h, external code.                               *)
MIN(a, b) == IF a < b THEN a ELSE b
MAX(a, b) == IF a > b THEN a ELSE b

(* A bug the code does not have: the smaller of two extremes.              *)
median3Low(a, b, c) == MIN(MIN(a, b), MAX(MAX(a, b), c))

median3(a, b, c) == MAX(MIN(a, b), MIN(MAX(a, b), c))
=============================================================================
