----------------------------- MODULE HelloOpen -----------------------------
(***************************************************************************)
(* The hello device of treiber/mod2/mod2.c: driver_open admits one file at *)
(* a time by counting the openers in driver_lock, which starts at -1.      *)
(* Opening increments it and is permitted when the result is 0; a refused  *)
(* open takes its increment back in a second step, so that between the two *)
(* the counter is too high and other openers see a device that looks busy. *)
(***************************************************************************)
EXTENDS Integers, FiniteSets

CONSTANTS Files,  \* struct file instances: one per open() in progress or done
          Free    \* no file

ASSUME HelloAssumption == IsFiniteSet(Files) /\ Free \notin Files

VARIABLES driver_lock,  \* the atomic_t of the module
          pc            \* where each file is: "idle", "deny" or "open"

vars == <<driver_lock, pc>>

Init ==
  /\ driver_lock = -1
  /\ pc = [f \in Files |-> "idle"]

Goto(f, place) == pc' = [pc EXCEPT ![f] = place]

(* atomic_inc_and_test: the open is permitted when the counter reaches 0.  *)
TryOpen(f) ==
  /\ pc[f] = "idle"
  /\ driver_lock' = driver_lock + 1
  /\ Goto(f, IF driver_lock + 1 = 0 THEN "open" ELSE "deny")

(* A bug the code does not have: a refused open keeps its increment.       *)
DenyKeepsCount(f) ==
  /\ pc[f] = "deny"
  /\ driver_lock' = driver_lock
  /\ Goto(f, "idle")

(* The else branch: take the increment back and return -EBUSY.             *)
Deny(f) ==
  /\ pc[f] = "deny"
  /\ driver_lock' = driver_lock - 1
  /\ Goto(f, "idle")

(* A bug the code does not have: the last close resets the counter, which  *)
(* forgets the openers that are being refused at that moment.              *)
CloseResets(f) ==
  /\ pc[f] = "open"
  /\ driver_lock' = -1
  /\ Goto(f, "idle")

(* driver_close.                                                           *)
Close(f) ==
  /\ pc[f] = "open"
  /\ driver_lock' = driver_lock - 1
  /\ Goto(f, "idle")

Next == \E f \in Files : TryOpen(f) \/ Deny(f) \/ Close(f)

Spec == Init /\ [][Next]_vars

-----------------------------------------------------------------------------

TypeOK ==
  /\ driver_lock \in -1 .. Cardinality(Files) - 1
  /\ pc \in [Files -> {"idle", "deny", "open"}]

(* The files whose increment is in the counter.                            *)
Counted == {f \in Files : pc[f] # "idle"}

(* The counter is exact in every interleaving of opens, refusals and       *)
(* closes: -1 plus one for each file that is open or being refused.  An    *)
(* idle device therefore never stays locked, however the calls raced.      *)
LockCount == driver_lock = Cardinality(Counted) - 1

(* The file that holds the device.                                         *)
Holder ==
  IF \E f \in Files : pc[f] = "open"
  THEN CHOOSE f \in Files : pc[f] = "open"
  ELSE Free

AtMostOneOpen == \A f, g \in Files : pc[f] = "open" /\ pc[g] = "open" => f = g

Exclusive == INSTANCE ExclusiveOpen WITH holder <- Holder

(* The hello device implements the exclusive device: nobody is admitted    *)
(* before the previous holder has closed its file.                         *)
ImplementsExclusiveOpen == Exclusive!Spec
=============================================================================
