----------------------------- MODULE ModControl -----------------------------
(***************************************************************************)
(* /dev/modcontrol (treiber/modcontrol/modcontrol.c): a buffer shared by   *)
(* all files, with an atomic count of the bytes in it.  Reads and writes   *)
(* take the count once, copy, and then change the count: three steps       *)
(* without a lock, between which other calls run.  A read of an empty      *)
(* buffer sleeps until a write wakes it.                                   *)
(*                                                                         *)
(* The buffer and the copies are exact for counts within the buffer.  The  *)
(* model is meant for one reader and one writer, for which the count is    *)
(* proved to stay within, and for calls that do not overlap.               *)
(***************************************************************************)
EXTENDS Integers, Sequences, FiniteSets

CONSTANTS
  BUFSIZE,
  Readers, Writers,  \* the processes that read and those that write
  Inputs,            \* the byte strings that are written
  Counts,            \* how many bytes a read asks for
  Faults,            \* {"copy"} if a copy to or from the user may fault
  None               \* no argument: outside a call

ASSUME ModControlAssumption ==
  /\ BUFSIZE \in Nat
  /\ Readers \cap Writers = {}
  /\ Counts \subseteq Nat
  /\ \A s \in Inputs : Len(s) \in Nat
  /\ Faults \subseteq {"copy"}

VARIABLES
  buffer_filled_size,  \* the atomic_t of the module
  buffer,
  pc,      \* where each process is in driver_read or driver_write
  local,   \* the call's copy of the count
  arg,     \* what a read asks for, what a write brings
  act,     \* act_copied
  user,    \* what a read has copied to its user
  got      \* what each reader's last read brought

vars == <<buffer_filled_size, buffer, pc, local, arg, act, user, got>>

Procs == Readers \cup Writers

(* buffer is static data and starts as zeros.                              *)
Init ==
  /\ buffer_filled_size = 0
  /\ buffer = [i \in 0 .. BUFSIZE - 1 |-> 0]
  /\ pc = [p \in Procs |-> "idle"]
  /\ local = [p \in Procs |-> 0]
  /\ arg = [p \in Procs |-> None]
  /\ act = [p \in Procs |-> 0]
  /\ user = [r \in Readers |-> <<>>]
  /\ got = [r \in Readers |-> <<>>]

Goto(p, place) == pc' = [pc EXCEPT ![p] = place]

(* min of two unsigned longs, of which the first is the larger one when it *)
(* has come out negative.                                                  *)
Least(a, b) == IF a \in 0 .. b THEN a ELSE b

(* act_copied: all that was to be copied, or less after a fault.           *)
Copied(to_copy) == IF "copy" \in Faults THEN 0 .. to_copy ELSE {to_copy}

READ_POSSIBLE == buffer_filled_size > 0

(* The variables of a call end with it.                                    *)
ForgetLocals(p) ==
  /\ local' = [local EXCEPT ![p] = 0]
  /\ arg' = [arg EXCEPT ![p] = None]
  /\ act' = [act EXCEPT ![p] = 0]
-----------------------------------------------------------------------------
(* driver_read                                                             *)

Read(r) ==
  /\ pc[r] = "idle"
  /\ \E count \in Counts : arg' = [arg EXCEPT ![r] = count]
  /\ Goto(r, "check")
  /\ UNCHANGED <<buffer_filled_size, buffer, local, act, user, got>>

(* wait_event_interruptible: the kernel makes the test and falling asleep  *)
(* one step with respect to wake-ups.                                      *)
CheckOrSleep(r) ==
  /\ pc[r] = "check"
  /\ Goto(r, IF READ_POSSIBLE THEN "read" ELSE "asleep")
  /\ UNCHANGED <<buffer_filled_size, buffer, local, arg, act, user, got>>

(* A signal ends the wait: -ERESTARTSYS.                                   *)
Signal(r) ==
  /\ pc[r] = "asleep"
  /\ Goto(r, "idle")
  /\ ForgetLocals(r)
  /\ UNCHANGED <<buffer_filled_size, buffer, user, got>>

(* The count is read again: it need not be positive any more.              *)
ReadSize(r) ==
  /\ pc[r] = "read"
  /\ local' = [local EXCEPT ![r] = buffer_filled_size]
  /\ Goto(r, "copy_out")
  /\ UNCHANGED <<buffer_filled_size, buffer, arg, act, user, got>>

(* n bytes from offset first on reach the user.                            *)
CopyToUser(r, first, n) ==
  /\ act' = [act EXCEPT ![r] = n]
  /\ user' = [user EXCEPT ![r] = [i \in 1 .. n |-> buffer[first + i - 1]]]
  /\ Goto(r, "sub")
  /\ UNCHANGED <<buffer_filled_size, buffer, local, arg, got>>

(* A bug the code does not have: the bytes at the bottom are copied.       *)
CopyOutBottom(r) ==
  /\ pc[r] = "copy_out"
  /\ \E n \in Copied(Least(local[r], arg[r])) : CopyToUser(r, 0, n)

(* The topmost to_copy bytes, of which a fault lets only the first through.*)
CopyOut(r) ==
  /\ pc[r] = "copy_out"
  /\ LET to_copy == Least(local[r], arg[r])
     IN  \E n \in Copied(to_copy) : CopyToUser(r, local[r] - to_copy, n)

(* The atomic_sub of n bytes, and the return.                              *)
Take(r, n) ==
  /\ pc[r] = "sub"
  /\ buffer_filled_size' = buffer_filled_size - n
  /\ got' = [got EXCEPT ![r] = user[r]]
  /\ user' = [user EXCEPT ![r] = <<>>]
  /\ Goto(r, "idle")
  /\ ForgetLocals(r)
  /\ UNCHANGED buffer

(* A bug the code does not have: what was asked for is subtracted.         *)
SubAsked(r) == Take(r, arg[r])

Sub(r) == Take(r, act[r])
-----------------------------------------------------------------------------
(* driver_write                                                            *)

Write(w) ==
  /\ pc[w] = "idle"
  /\ \E s \in Inputs : arg' = [arg EXCEPT ![w] = s]
  /\ local' = [local EXCEPT ![w] = buffer_filled_size]
  /\ Goto(w, "copy_in")
  /\ UNCHANGED <<buffer_filled_size, buffer, act, user, got>>

CopyIn(w) ==
  /\ pc[w] = "copy_in"
  /\ \E n \in Copied(Least(BUFSIZE - local[w], Len(arg[w]))) :
       /\ act' = [act EXCEPT ![w] = n]
       /\ buffer' = [i \in DOMAIN buffer |->
                       IF i \in local[w] .. local[w] + n - 1
                       THEN arg[w][i - local[w] + 1] ELSE buffer[i]]
  /\ Goto(w, "add")
  /\ UNCHANGED <<buffer_filled_size, local, arg, user, got>>

Add(w) ==
  /\ pc[w] = "add"
  /\ buffer_filled_size' = buffer_filled_size + act[w]
  /\ Goto(w, "wake")
  /\ UNCHANGED <<buffer, local, arg, act, user, got>>

(* The readers in some set are woken, and the write returns.               *)
WakeUp(w, sleepers) ==
  /\ pc[w] = "wake"
  /\ pc' = [p \in Procs |->
              IF p = w THEN "idle" ELSE IF p \in sleepers THEN "check" ELSE pc[p]]
  /\ ForgetLocals(w)
  /\ UNCHANGED <<buffer_filled_size, buffer, user, got>>

Asleep == {r \in Readers : pc[r] = "asleep"}

(* A bug the code does not have: readers are woken only by a write that    *)
(* saw the buffer empty.                                                   *)
WakeIfItWasEmpty(w) == WakeUp(w, IF local[w] = 0 THEN Asleep ELSE {})

(* wake_up_interruptible wakes every sleeping reader.                      *)
Wake(w) == WakeUp(w, Asleep)
-----------------------------------------------------------------------------
DriverRead(r) ==
  \/ Read(r) \/ CheckOrSleep(r) \/ Signal(r) \/ ReadSize(r) \/ CopyOut(r) \/ Sub(r)

DriverWrite(w) == Write(w) \/ CopyIn(w) \/ Add(w) \/ Wake(w)

Next == (\E r \in Readers : DriverRead(r)) \/ (\E w \in Writers : DriverWrite(w))

Spec == Init /\ [][Next]_vars

(* A call that has begun goes on; nobody is obliged to begin one.          *)
ReadGoesOn(r) == CheckOrSleep(r) \/ ReadSize(r) \/ CopyOut(r) \/ Sub(r)
WriteGoesOn(w) == CopyIn(w) \/ Add(w) \/ Wake(w)

FairSpec ==
  /\ Spec
  /\ \A r \in Readers : WF_vars(ReadGoesOn(r))
  /\ \A w \in Writers : WF_vars(WriteGoesOn(w))
-----------------------------------------------------------------------------
(* With one reader and one writer the count stays within the buffer, and   *)
(* so does every copy, although each call works with a count that may be   *)
(* old by the time it copies and when it changes the count.                *)
InBounds ==
  /\ buffer_filled_size \in 0 .. BUFSIZE
  /\ \A p \in Procs : pc[p] \in {"copy_out", "copy_in"} => local[p] \in 0 .. BUFSIZE

(* No wake-up is lost: a reader sleeps on a buffer with data only while    *)
(* the write that has put data there is about to wake it.                  *)
SleepersWillBeWoken ==
  \A r \in Readers : pc[r] = "asleep" /\ READ_POSSIBLE =>
    \E w \in Writers : pc[w] = "wake"

(* A read that waits returns once there is data.                           *)
WaitingReadReturns ==
  \A r \in Readers :
    pc[r] \in {"check", "asleep"} /\ READ_POSSIBLE ~> pc[r] = "idle"

(* Calls that do not overlap: a process begins to work on the buffer only  *)
(* when no other one does.  Waiting and being woken is free.               *)
InCall(p) == pc[p] \notin {"idle", "check", "asleep"}

SerialNext ==
  \E p \in Procs :
    /\ \A q \in Procs \ {p} : ~InCall(q)
    /\ IF p \in Readers THEN DriverRead(p) ELSE DriverWrite(p)

SerialSpec == Init /\ [][SerialNext]_vars

(* The bytes in the buffer, bottom first.                                  *)
Content == [i \in 1 .. buffer_filled_size |-> buffer[i - 1]]

Stack == INSTANCE ByteStack
  WITH Users <- Readers, Capacity <- BUFSIZE, content <- Content

(* When calls do not overlap the device is a stack of bytes: nothing is    *)
(* lost, nothing is read twice, and no read returns nothing.               *)
ImplementsByteStack == Stack!Spec
=============================================================================
