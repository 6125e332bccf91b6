--------------------------- MODULE ExclusiveOpen ---------------------------
(***************************************************************************)
(* What a device file that admits one user at a time promises: at most one *)
(* open file holds it, it is handed over only after it was given up, and   *)
(* never taken from the one that holds it.  Both the hello device of       *)
(* treiber/mod2 and the ultrasonic sensor of raspi/treiber implement it    *)
(* with an atomic counter called driver_lock.                              *)
(***************************************************************************)
CONSTANTS Files,   \* the open files (struct file) that may want the device
          Free     \* no file

VARIABLE holder    \* the file that holds the device, or Free

Init == holder = Free

Acquire(f) == holder = Free /\ holder' = f

Release(f) == holder = f /\ holder' = Free

Next == \E f \in Files : Acquire(f) \/ Release(f)

Spec == Init /\ [][Next]_holder
=============================================================================
