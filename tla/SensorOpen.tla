----------------------------- MODULE SensorOpen -----------------------------
(***************************************************************************)
(* Opening and closing /dev/sensor (raspi/treiber/sensor_treiber): the     *)
(* exclusive access counter driver_lock together with the claims of the    *)
(* two GPIO pins of the ultrasonic sensor.  Handlers of different files    *)
(* run concurrently; every access to the counter or to a claim is a step   *)
(* of its own, in the order of the code.                                   *)
(*                                                                         *)
(* Two orders matter.  driver_close gives the counter up before it frees   *)
(* the pins, and a driver_open that fails after it was permitted returns   *)
(* without giving the counter up, nor, when a request failed, a pin it has *)
(* already claimed.                                                        *)
(*                                                                         *)
(* Not modelled: the memory of struct instance_data, which is lost on the  *)
(* same paths as the counter and which nothing else can observe.           *)
(***************************************************************************)
EXTENDS Integers, FiniteSets, GpioLib

CONSTANTS Files,   \* struct file instances, each re-used after it was closed
          Faults   \* which calls may fail by themselves: see FaultKinds

FaultKinds == {"kmalloc", "direction"}

ASSUME SensorAssumption ==
  IsFiniteSet(Files) /\ Free \notin Files /\ Faults \subseteq FaultKinds

VARIABLES
  driver_lock,  \* the atomic_t of the module
  owner,        \* who claimed each pin
  pc,           \* where each file is in driver_open or driver_close
  err1,         \* driver_open's local: did the request of the echo pin fail?
  abandoned     \* history: the file whose failed open kept its increment of
                \* driver_lock since the module was loaded, or Free

vars == <<driver_lock, owner, pc, err1, abandoned>>

Pins == {"echo", "trig"}

(* Places after a permitted driver_open took the counter, up to the        *)
(* atomic_dec of driver_close.                                             *)
Permitted == {"kmalloc", "request_echo", "request_trig", "direction",
              "undo_trig", "undo_echo", "open"}

(* Places of driver_close after the atomic_dec.                            *)
Closing == {"close_echo", "close_trig"}

Places == {"idle", "deny"} \cup Permitted \cup Closing

Init ==
  /\ driver_lock = -1
  /\ owner = [p \in Pins |-> Free]
  /\ pc = [f \in Files |-> "idle"]
  /\ err1 = [f \in Files |-> FALSE]
  /\ abandoned = Free

-----------------------------------------------------------------------------
(* driver_open                                                             *)

Goto(f, place) == pc' = [pc EXCEPT ![f] = place]

(* return -EIO from the permitted branch: the increment of driver_lock     *)
(* stays, and the file is never released because its open failed.          *)
ReturnEIO(f) ==
  /\ Goto(f, "idle")
  /\ abandoned' = f

(* atomic_inc_and_test                                                     *)
TryOpen(f) ==
  /\ pc[f] = "idle"
  /\ driver_lock' = driver_lock + 1
  /\ Goto(f, IF driver_lock + 1 = 0 THEN "kmalloc" ELSE "deny")
  /\ UNCHANGED <<owner, err1, abandoned>>

(* A bug the code does not have: a refused open keeps its increment.       *)
DenyKeepsCount(f) ==
  /\ pc[f] = "deny"
  /\ Goto(f, "idle")
  /\ UNCHANGED <<driver_lock, owner, err1, abandoned>>

(* else branch: give the increment back, return -EBUSY                     *)
Deny(f) ==
  /\ pc[f] = "deny"
  /\ driver_lock' = driver_lock - 1
  /\ Goto(f, "idle")
  /\ UNCHANGED <<owner, err1, abandoned>>

Kmalloc(f) ==
  /\ pc[f] = "kmalloc"
  /\ \/ Goto(f, "request_echo") /\ UNCHANGED abandoned
     \/ "kmalloc" \in Faults /\ ReturnEIO(f)
  /\ UNCHANGED <<driver_lock, owner, err1>>

RequestEcho(f) ==
  /\ pc[f] = "request_echo"
  /\ owner' = GpioRequest(owner, "echo", f)
  /\ err1' = [err1 EXCEPT ![f] = Requested(owner, "echo")]
  /\ Goto(f, "request_trig")
  /\ UNCHANGED <<driver_lock, abandoned>>

(* A bug the code does not have: a failed request falls into the error     *)
(* path of the directions, which frees both pins whoever claimed them.     *)
RequestTrigUndoesBoth(f) ==
  /\ pc[f] = "request_trig"
  /\ owner' = GpioRequest(owner, "trig", f)
  /\ err1' = [err1 EXCEPT ![f] = FALSE]
  /\ Goto(f, IF err1[f] \/ Requested(owner, "trig") THEN "undo_trig" ELSE "direction")
  /\ UNCHANGED <<driver_lock, abandoned>>

(* A bug the code does not have: only the second request is checked.       *)
RequestTrigForgetsEcho(f) ==
  /\ pc[f] = "request_trig"
  /\ owner' = GpioRequest(owner, "trig", f)
  /\ err1' = [err1 EXCEPT ![f] = FALSE]
  /\ IF Requested(owner, "trig")
     THEN ReturnEIO(f)
     ELSE Goto(f, "direction") /\ UNCHANGED abandoned
  /\ UNCHANGED driver_lock

(* The second request is made even when the first failed; if either failed *)
(* the open returns, and a pin that it did get stays claimed.              *)
RequestTrig(f) ==
  /\ pc[f] = "request_trig"
  /\ owner' = GpioRequest(owner, "trig", f)
  /\ err1' = [err1 EXCEPT ![f] = FALSE]
  /\ IF err1[f] \/ Requested(owner, "trig")
     THEN ReturnEIO(f)
     ELSE Goto(f, "direction") /\ UNCHANGED abandoned
  /\ UNCHANGED driver_lock

(* gpio_direction_output(trig) and gpio_direction_input(echo)              *)
SetDirections(f) ==
  /\ pc[f] = "direction"
  /\ \/ Goto(f, "open")
     \/ "direction" \in Faults /\ Goto(f, "undo_trig")
  /\ UNCHANGED <<driver_lock, owner, err1, abandoned>>

UndoTrig(f) ==
  /\ pc[f] = "undo_trig"
  /\ owner' = GpioFree(owner, "trig")
  /\ Goto(f, "undo_echo")
  /\ UNCHANGED <<driver_lock, err1, abandoned>>

UndoEcho(f) ==
  /\ pc[f] = "undo_echo"
  /\ owner' = GpioFree(owner, "echo")
  /\ ReturnEIO(f)
  /\ UNCHANGED <<driver_lock, err1>>

-----------------------------------------------------------------------------
(* driver_close                                                            *)

(* A bug the code does not have: the counter is reset, not decremented.    *)
CloseResets(f) ==
  /\ pc[f] = "open"
  /\ driver_lock' = -1
  /\ Goto(f, "close_echo")
  /\ UNCHANGED <<owner, err1, abandoned>>

(* atomic_dec comes first: the device is unlocked with its pins claimed.   *)
CloseUnlock(f) ==
  /\ pc[f] = "open"
  /\ driver_lock' = driver_lock - 1
  /\ Goto(f, "close_echo")
  /\ UNCHANGED <<owner, err1, abandoned>>

CloseEcho(f) ==
  /\ pc[f] = "close_echo"
  /\ owner' = GpioFree(owner, "echo")
  /\ Goto(f, "close_trig")
  /\ UNCHANGED <<driver_lock, err1, abandoned>>

CloseTrig(f) ==
  /\ pc[f] = "close_trig"
  /\ owner' = GpioFree(owner, "trig")
  /\ Goto(f, "idle")
  /\ UNCHANGED <<driver_lock, err1, abandoned>>

-----------------------------------------------------------------------------

(* rmmod and insmod, possible when no file uses the module (.owner):       *)
(* driver_lock is static data and starts afresh, the claims of the pins    *)
(* belong to the kernel and stay as they are.                              *)
Reload ==
  /\ \A f \in Files : pc[f] = "idle"
  /\ driver_lock' = -1
  /\ abandoned' = Free
  /\ UNCHANGED <<owner, pc, err1>>

DriverOpen(f) ==
  \/ TryOpen(f) \/ Deny(f) \/ Kmalloc(f) \/ RequestEcho(f) \/ RequestTrig(f)
  \/ SetDirections(f) \/ UndoTrig(f) \/ UndoEcho(f)

DriverClose(f) == CloseUnlock(f) \/ CloseEcho(f) \/ CloseTrig(f)

Next == (\E f \in Files : DriverOpen(f) \/ DriverClose(f)) \/ Reload

Spec == Init /\ [][Next]_vars
-----------------------------------------------------------------------------

TypeOK ==
  /\ driver_lock \in -1 .. Cardinality(Files)
  /\ owner \in [Pins -> Files \cup {Free}]
  /\ pc \in [Files -> Places]
  /\ err1 \in [Files -> BOOLEAN]
  /\ abandoned \in Files \cup {Free}

(* The files whose increment is in the counter and will be taken back.     *)
Counted == {f \in Files : pc[f] \in Permitted \cup {"deny"}}

(* The counter is exact whatever interleaves: -1, plus one for each file   *)
(* that is permitted or being refused, plus at most one increment lost by  *)
(* a failed open (after which nobody is permitted until a reload).         *)
LockCount ==
  driver_lock =
    Cardinality(Counted) - 1 + (IF abandoned = Free THEN 0 ELSE 1)

(* An open sensor owns both its pins, although other files free pins after *)
(* the device was unlocked and on their error paths.                       *)
OpenOwnsPins ==
  \A f \in Files : pc[f] = "open" => \A p \in Pins : owner[p] = f

(* gpio_free does not check the claimant, so the order of the handlers has *)
(* to: a claim ends only by a step of the file that made it, in the part   *)
(* of driver_open or driver_close that frees it.  Nothing frees the claim  *)
(* left by a failed request.                                               *)
Releasing == {"undo_trig", "undo_echo", "close_echo", "close_trig"}

ClaimEndsByItsOwner ==
  [][\A p \in Pins :
       owner[p] # Free /\ owner'[p] # owner[p] =>
         pc[owner[p]] \in Releasing /\ pc'[owner[p]] # pc[owner[p]]]_vars

(* -EBUSY is decided only against a file that is permitted, one that is    *)
(* being refused itself, or an increment lost by a failed open: a file     *)
(* that has finished driver_close, or a refusal that has returned, never   *)
(* refuses anyone.                                                         *)
DenialJustified ==
  [][\A f \in Files :
       pc[f] = "idle" /\ pc'[f] = "deny" =>
         \/ abandoned # Free
         \/ \E g \in Files \ {f} : pc[g] \in Permitted \cup {"deny"}]_vars

(* The file that holds the device; a lost increment holds it for good.     *)
Holder ==
  IF \E f \in Files : pc[f] \in Permitted
  THEN CHOOSE f \in Files : pc[f] \in Permitted
  ELSE abandoned

Exclusive == INSTANCE ExclusiveOpen WITH holder <- Holder

(* The sensor implements the exclusive device: a file is permitted only    *)
(* after the previous one has closed, or after a reload.                   *)
ImplementsExclusiveOpen == Exclusive!Spec

(* What the log line of driver_close says of it: "driver_close called =>   *)
(* device unlocked".  Once every file is closed, the device is unlocked.   *)
UnlockedWhenIdle == (\A f \in Files : pc[f] = "idle") => driver_lock = -1
=============================================================================
