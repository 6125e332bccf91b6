------------------------------ MODULE DevZero ------------------------------
(***************************************************************************)
(* driver_read of treiber/mydevzero/mydevzero.c: zeroes are copied to the  *)
(* user in chunks of BUFSIZE.  A chunk that faults does not end the loop,  *)
(* and the bytes that were not copied are subtracted from the result.      *)
(*                                                                         *)
(* A read is given by its count and by the bytes behind the user's pointer *)
(* that are mapped.  Reads share nothing, so that one is enough.           *)
(***************************************************************************)
EXTENDS Integers, FiniteSets

CONSTANTS
  BUFSIZE,   \* of the array of zeroes
  Counts,    \* what a program asks for
  Memory     \* the places behind its pointer

ASSUME DevZeroAssumption ==
  BUFSIZE \in Nat \ {0} /\ Counts \subseteq Nat /\ Memory \subseteq Nat

VARIABLES
  count, mapped,            \* of the read
  buf_offset, not_copied,   \* locals of driver_read
  zeroed,                   \* the bytes that have been written
  result                    \* what the read returned, -1 before it does

zeroVars == <<count, mapped, buf_offset, not_copied, zeroed, result>>

AnyRead ==
  count \in Counts /\ mapped \in SUBSET Memory

ZeroInit ==
  /\ AnyRead
  /\ buf_offset = 0 /\ not_copied = 0 /\ zeroed = {} /\ result = -1

(* A bug the code does not have: every chunk has the size of the buffer.   *)
ToCopyAll == BUFSIZE

ToCopy == IF BUFSIZE <= count - buf_offset THEN BUFSIZE ELSE count - buf_offset

(* copy_to_user copies up to the first byte that is not mapped.            *)
Reached == {b \in buf_offset .. buf_offset + ToCopy - 1 : buf_offset .. b \subseteq mapped}

(* The body of the loop, ...                                               *)
CopyChunk ==
  /\ result = -1 /\ buf_offset < count
  /\ zeroed' = zeroed \cup Reached
  /\ not_copied' = not_copied + (ToCopy - Cardinality(Reached))
  /\ buf_offset' = buf_offset + BUFSIZE
  /\ UNCHANGED <<count, mapped, result>>

(* ... and the return.                                                     *)
ReturnCount ==
  /\ result = -1 /\ buf_offset >= count
  /\ result' = count - not_copied
  /\ UNCHANGED <<count, mapped, buf_offset, not_copied, zeroed>>

ZeroNext == CopyChunk \/ ReturnCount

ZeroSpec == ZeroInit /\ [][ZeroNext]_zeroVars
-----------------------------------------------------------------------------
(* A program that is given n bytes finds n zeroes, none of them behind the *)
(* bytes it asked for, although the read goes on after a fault; and these  *)
(* are its first n bytes if nothing is mapped behind the first byte that   *)
(* is not.  (With a hole in its memory they need not be: the chunks behind *)
(* the hole count too.)                                                    *)
ZeroesWhatItReturns ==
  result # -1 =>
    /\ zeroed \subseteq 0 .. count - 1
    /\ result = Cardinality(zeroed)
    /\ (\A b \in mapped : 0 .. b \subseteq mapped) => zeroed = 0 .. result - 1
=============================================================================
