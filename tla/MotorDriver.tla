---------------------------- MODULE MotorDriver ----------------------------
(***************************************************************************)
(* /dev/motor-left and /dev/motor-right (raspi/treiber/rpi2_motor.c): two  *)
(* GPIO pins per motor, driven as gpio_1 = forwards and gpio_2 =           *)
(* backwards.  The driver has no lock of its own: what keeps two users off *)
(* one motor is that a claimed pin cannot be requested again.  Handlers of *)
(* different files run concurrently, one kernel call per step; a file has  *)
(* one write at a time (the programs of the repository have one thread and *)
(* share no file).                                                         *)
(*                                                                         *)
(* Besides the driver, root's set_gpios.sh claims the same four pins       *)
(* through sysfs and sets them to 0; it never gives them back.             *)
(*                                                                         *)
(* Not modelled: the memory of struct instance_data, which a failed open   *)
(* loses, and unloading the module, which changes none of this state.      *)
(***************************************************************************)
EXTENDS Integers, FiniteSets, Sequences, GpioLib

CONSTANTS
  Motors,     \* the motors, of "left" and "right", that programs open
  Files,      \* struct file instances, each re-used after it was closed
  Script,     \* the claimant set_gpios.sh, through sysfs
  Undriven,   \* the level of a pin that nobody drives
  Payloads,   \* the byte strings that programs write
  Faults      \* which calls may fail by themselves: see FaultKinds

FaultKinds == {"direction", "copy"}

ASSUME MotorAssumption ==
  /\ Motors \subseteq {"left", "right"}
  /\ Free \notin Files \cup {Script}
  /\ Script \notin Files
  /\ Undriven \notin {0, 1}
  /\ Payloads \subseteq Seq(0 .. 255)
  /\ Faults \subseteq FaultKinds

VARIABLES
  owner,  \* who claimed each pin
  level,  \* what each pin drives: 0, 1 or Undriven
  pc,     \* where each file is in a handler
  dev,    \* private_data: the motor the file is for, by its minor number
  err1,   \* driver_open's local: did the request of gpio_1 fail?
  value,  \* the sign of driver_write's local, kept until the next write;
          \* 0 when nothing was written since the file was opened
  line    \* the next command of set_gpios.sh

vars == <<owner, level, pc, dev, err1, value, line>>

Gpio1(d) == IF d = "left" THEN 24 ELSE 25   \* ML1, MR1
Gpio2(d) == IF d = "left" THEN 23 ELSE 8    \* ML2, MR2

Pins == {8, 23, 24, 25}

Levels == {0, 1, Undriven}

(* Places where a file owns both pins of its motor.                        *)
Owning == {"direction", "undo_1", "open", "set_1", "set_2", "close_1"}

(* Places where a file owns only gpio_2, because gpio_1 has been freed.    *)
HalfFreed == {"undo_2", "close_2"}

Places == {"idle", "request_1", "request_2"} \cup Owning \cup HalfFreed

Init ==
  /\ owner = [p \in Pins |-> Free]
  /\ level = [p \in Pins |-> Undriven]
  /\ pc = [f \in Files |-> "idle"]
  /\ dev = [f \in Files |-> "none"]
  /\ err1 = [f \in Files |-> FALSE]
  /\ value = [f \in Files |-> 0]
  /\ line = 1

-----------------------------------------------------------------------------
Goto(f, place) == pc' = [pc EXCEPT ![f] = place]

(* gpio_free; whether the pin keeps its level or stops being driven is up  *)
(* to the pin controller.                                                  *)
FreePin(p) ==
  /\ owner' = GpioFree(owner, p)
  /\ \E v \in {level[p], Undriven} : level' = [level EXCEPT ![p] = v]

(* The end of driver_close or of a failed driver_open.                     *)
Leave(f) ==
  /\ Goto(f, "idle")
  /\ dev' = [dev EXCEPT ![f] = "none"]

(* driver_open: the pins are chosen by the minor number.  (When kmalloc    *)
(* fails it returns -EIO before it has changed anything.)                  *)
OpenAs(f, d) ==
  /\ pc[f] = "idle"
  /\ dev' = [dev EXCEPT ![f] = d]
  /\ Goto(f, "request_1")
  /\ UNCHANGED <<owner, level, err1, value, line>>

Open(f) == \E d \in Motors : OpenAs(f, d)

Request1(f) ==
  /\ pc[f] = "request_1"
  /\ owner' = GpioRequest(owner, Gpio1(dev[f]), f)
  /\ err1' = [err1 EXCEPT ![f] = Requested(owner, Gpio1(dev[f]))]
  /\ Goto(f, "request_2")
  /\ UNCHANGED <<level, dev, value, line>>

(* A bug the code does not have: only the second request is checked.       *)
Request2ForgetsFirst(f) ==
  /\ pc[f] = "request_2"
  /\ owner' = GpioRequest(owner, Gpio2(dev[f]), f)
  /\ err1' = [err1 EXCEPT ![f] = FALSE]
  /\ IF Requested(owner, Gpio2(dev[f]))
     THEN Leave(f)
     ELSE Goto(f, "direction") /\ UNCHANGED dev
  /\ UNCHANGED <<level, value, line>>

(* A bug the code does not have: a failed request falls into the error     *)
(* path of the directions, which frees both pins whoever claimed them.     *)
Request2UndoesBoth(f) ==
  /\ pc[f] = "request_2"
  /\ owner' = GpioRequest(owner, Gpio2(dev[f]), f)
  /\ err1' = [err1 EXCEPT ![f] = FALSE]
  /\ Goto(f, IF err1[f] \/ Requested(owner, Gpio2(dev[f]))
             THEN "undo_1" ELSE "direction")
  /\ UNCHANGED <<level, dev, value, line>>

(* The second request is made even when the first failed; if either failed *)
(* the open returns -EIO, and a pin that it did get stays claimed.         *)
Request2(f) ==
  /\ pc[f] = "request_2"
  /\ owner' = GpioRequest(owner, Gpio2(dev[f]), f)
  /\ err1' = [err1 EXCEPT ![f] = FALSE]
  /\ IF err1[f] \/ Requested(owner, Gpio2(dev[f]))
     THEN Leave(f)
     ELSE Goto(f, "direction") /\ UNCHANGED dev
  /\ UNCHANGED <<level, value, line>>

(* Both pins become outputs at 0; a pin whose call fails is left alone.    *)
SetDirections(f) ==
  /\ pc[f] = "direction"
  /\ \E done \in SUBSET {Gpio1(dev[f]), Gpio2(dev[f])} :
       /\ "direction" \in Faults \/ done = {Gpio1(dev[f]), Gpio2(dev[f])}
       /\ level' = [p \in Pins |-> IF p \in done THEN 0 ELSE level[p]]
       /\ Goto(f, IF done = {Gpio1(dev[f]), Gpio2(dev[f])}
                  THEN "open" ELSE "undo_1")
  /\ UNCHANGED <<owner, dev, err1, value, line>>

UndoFirst(f) ==
  /\ pc[f] = "undo_1"
  /\ FreePin(Gpio1(dev[f]))
  /\ Goto(f, "undo_2")
  /\ UNCHANGED <<dev, err1, value, line>>

UndoSecond(f) ==
  /\ pc[f] = "undo_2"
  /\ FreePin(Gpio2(dev[f]))
  /\ Leave(f)
  /\ UNCHANGED <<err1, value, line>>

-----------------------------------------------------------------------------
(* driver_write                                                            *)

(* The sign of the little-endian int whose first n bytes come from the     *)
(* user and whose others are 0.                                            *)
SignOf(bytes, n) ==
  CASE n = 4 /\ bytes[4] >= 128       -> -1
    [] \A i \in 1 .. n : bytes[i] = 0 -> 0
    [] OTHER                          -> 1

(* How many of the bytes can be copied: at most four, fewer on a fault.    *)
Copyable(bytes) ==
  LET to_copy == IF Len(bytes) < 4 THEN Len(bytes) ELSE 4
  IN  IF "copy" \in Faults THEN 0 .. to_copy ELSE {to_copy}

WriteBytes(f, bytes, n) ==
  /\ pc[f] = "open"
  /\ value' = [value EXCEPT ![f] = SignOf(bytes, n)]
  /\ Goto(f, "set_1")
  /\ UNCHANGED <<owner, level, dev, err1, line>>

Write(f) == \E bytes \in Payloads : \E n \in Copyable(bytes) : WriteBytes(f, bytes, n)

SetFirst(f) ==
  /\ pc[f] = "set_1"
  /\ level' = [level EXCEPT ![Gpio1(dev[f])] = IF value[f] > 0 THEN 1 ELSE 0]
  /\ Goto(f, "set_2")
  /\ UNCHANGED <<owner, dev, err1, value, line>>

(* A bug the code does not have: gpio_2 is raised, but never lowered.      *)
SetSecondNeverLowers(f) ==
  /\ pc[f] = "set_2"
  /\ level' = IF value[f] < 0 THEN [level EXCEPT ![Gpio2(dev[f])] = 1] ELSE level
  /\ Goto(f, "open")
  /\ UNCHANGED <<owner, dev, err1, value, line>>

SetSecond(f) ==
  /\ pc[f] = "set_2"
  /\ level' = [level EXCEPT ![Gpio2(dev[f])] = IF value[f] < 0 THEN 1 ELSE 0]
  /\ Goto(f, "open")
  /\ UNCHANGED <<owner, dev, err1, value, line>>

-----------------------------------------------------------------------------
(* driver_close, on close() or when the process is killed.                 *)

(* The last reference is gone, so no write of the file is in progress.     *)
Close(f) ==
  /\ pc[f] = "open"
  /\ Goto(f, "close_1")
  /\ value' = [value EXCEPT ![f] = 0]
  /\ UNCHANGED <<owner, level, dev, err1, line>>

CloseFirst(f) ==
  /\ pc[f] = "close_1"
  /\ FreePin(Gpio1(dev[f]))
  /\ Goto(f, "close_2")
  /\ UNCHANGED <<dev, err1, value, line>>

(* A bug the code does not have: gpio_1 is freed twice.                    *)
CloseFirstAgain(f) ==
  /\ pc[f] = "close_2"
  /\ FreePin(Gpio1(dev[f]))
  /\ Leave(f)
  /\ UNCHANGED <<err1, value, line>>

CloseSecond(f) ==
  /\ pc[f] = "close_2"
  /\ FreePin(Gpio2(dev[f]))
  /\ Leave(f)
  /\ UNCHANGED <<err1, value, line>>

-----------------------------------------------------------------------------
(* set_gpios.sh.  Every command is a write to sysfs whose error the shell  *)
(* ignores; it may be run again.                                           *)
ScriptOrder == <<8, 23, 24, 25>>

ScriptLines == 12

ScriptPin == ScriptOrder[((line - 1) % 4) + 1]

NextLine == line' = IF line = ScriptLines THEN 1 ELSE line + 1

(* echo N > export                                                         *)
Export ==
  /\ line \in 1 .. 4
  /\ owner' = GpioRequest(owner, ScriptPin, Script)
  /\ NextLine
  /\ UNCHANGED <<level, pc, dev, err1, value>>

(* A bug the script does not have: it drives pins it has not exported.     *)
DriveLowUnchecked ==
  /\ line \in 5 .. ScriptLines
  /\ level' = [level EXCEPT ![ScriptPin] = 0]
  /\ NextLine
  /\ UNCHANGED <<owner, pc, dev, err1, value>>

(* echo out > gpioN/direction, later echo 0 > gpioN/value: the directory   *)
(* gpioN is there only when sysfs holds the claim.                         *)
DriveLow ==
  /\ line \in 5 .. ScriptLines
  /\ level' = IF owner[ScriptPin] = Script
              THEN [level EXCEPT ![ScriptPin] = 0] ELSE level
  /\ NextLine
  /\ UNCHANGED <<owner, pc, dev, err1, value>>

-----------------------------------------------------------------------------
DriverOpen(f) ==
  \/ Open(f) \/ Request1(f) \/ Request2(f)
  \/ SetDirections(f) \/ UndoFirst(f) \/ UndoSecond(f)

DriverWrite(f) == Write(f) \/ SetFirst(f) \/ SetSecond(f)

DriverClose(f) == Close(f) \/ CloseFirst(f) \/ CloseSecond(f)

Driver(f) == DriverOpen(f) \/ DriverWrite(f) \/ DriverClose(f)

SetGpios == Export \/ DriveLow

Next == (\E f \in Files : Driver(f)) \/ SetGpios

Spec == Init /\ [][Next]_vars
-----------------------------------------------------------------------------
TypeOK ==
  /\ owner \in [Pins -> Files \cup {Free, Script}]
  /\ level \in [Pins -> Levels]
  /\ pc \in [Files -> Places]
  /\ dev \in [Files -> Motors \cup {"none"}]
  /\ err1 \in [Files -> BOOLEAN]
  /\ value \in [Files -> {-1, 0, 1}]
  /\ line \in 1 .. ScriptLines

(* A file that has its motor open owns both pins of the motor, from the    *)
(* return of driver_open until driver_close, whatever other opens, closes  *)
(* and the script do to the claims meanwhile.                              *)
OpenOwnsPins ==
  \A f \in Files : pc[f] \in {"open", "set_1", "set_2"} =>
    owner[Gpio1(dev[f])] = f /\ owner[Gpio2(dev[f])] = f

(* A claim ends only by a gpio_free of the file that made it, although     *)
(* gpio_free does not check; the script never gives a claim back.          *)
ClaimEndsByItsOwner ==
  [][\A p \in Pins :
       owner[p] # Free /\ owner'[p] # owner[p] =>
         /\ owner[p] \in Files
         /\ pc[owner[p]] \in {"undo_1", "close_1"} \cup HalfFreed
         /\ pc'[owner[p]] # pc[owner[p]]]_vars

(* What a motor does is what its user said last: while a file is open and  *)
(* not inside driver_write, its two pins encode the sign of the last value *)
(* written, or stand still when nothing was written since the open.        *)
MotorObeysLastWrite ==
  \A f \in Files : pc[f] = "open" =>
    /\ level[Gpio1(dev[f])] = IF value[f] > 0 THEN 1 ELSE 0
    /\ level[Gpio2(dev[f])] = IF value[f] < 0 THEN 1 ELSE 0

(* Both inputs of a motor bridge are high only while a driver_write is     *)
(* between its two gpio_set_value calls turning backwards into forwards,   *)
(* never at rest, after a kill, or in a write that turns to backwards.     *)
BothHighOnlyWhenReversing ==
  \A d \in Motors : level[Gpio1(d)] = 1 /\ level[Gpio2(d)] = 1 =>
    \E f \in Files : pc[f] = "set_2" /\ dev[f] = d /\ value[f] > 0

(* The file that holds motor d: from its second successful request until   *)
(* it begins to free the pins.                                             *)
Holds(f, d) == pc[f] \in Owning /\ dev[f] = d

Holder(d) ==
  IF \E f \in Files : Holds(f, d) THEN CHOOSE f \in Files : Holds(f, d) ELSE Free

Left == INSTANCE ExclusiveOpen WITH holder <- Holder("left")
Right == INSTANCE ExclusiveOpen WITH holder <- Holder("right")

(* The left motor implements the exclusive device without any lock of its  *)
(* own: a second user is admitted only after the first began to free the   *)
(* pins.                                                                   *)
LeftIsExclusive == Left!Spec

(* So does the right motor.                                                *)
RightIsExclusive == Right!Spec
=============================================================================
