----------------------------- MODULE SensorRead -----------------------------
(***************************************************************************)
(* driver_read of /dev/sensor (raspi/treiber/sensor_treiber/               *)
(* sensor_treiber.c) and the ultrasonic sensor on its two pins: a pulse on *)
(* the trigger pin makes the sensor raise the echo pin after a while, and  *)
(* for as long as the sound was under way.  Time passes in ticks between   *)
(* any two steps, as the driver can be preempted anywhere; how much of it  *)
(* was lost to that is remembered in a history variable.                   *)
(*                                                                         *)
(* The device is open for one program at a time (SensorOpen), which has    *)
(* one thread, so that reads do not overlap.                               *)
(***************************************************************************)
EXTENDS Integers

CONSTANTS
  TIMEOUT,      \* WAIT_ECHO_TIMEOUT, in ticks
  Delays,       \* how long the sensor takes to raise the echo pin
  Widths,       \* for how long it can keep it up
  Faults,       \* {"silence"} if the sensor may not answer at all
  USEC,         \* microseconds per tick
  ULONG,        \* the number of values of an unsigned long
  MaxClock      \* bound of the model: longer times are not told apart

C_M_PER_SEC == 343

ASSUME SensorReadAssumption ==
  /\ TIMEOUT \in Nat
  /\ Delays \subseteq Nat \ {0}
  /\ Widths \subseteq 1 .. MaxClock
  /\ Faults \subseteq {"silence"}
  /\ USEC \in Nat
  /\ ULONG \in Nat \ {0}
  /\ MaxClock \in Nat /\ MaxClock > TIMEOUT

VARIABLES
  pc,        \* where driver_read is
  clock,     \* ticks since the last ktime_get that the code keeps
  sensor,    \* "quiet", "burst" (until the echo comes) or "echo" (pin high)
  left,      \* ticks until the sensor goes on
  delay,     \* of the sensor's last answer
  width,     \* of its echo, 0 when the sensor did not answer
  echo,      \* is that "own", of the current read's trigger, or "stale"?
  result,    \* how the last read ended
  distance,  \* distance_um of the last read that measured an echo
  lost       \* history: ticks of this read in which the driver slept
             \* although there was something to see

vars == <<pc, clock, sensor, left, delay, width, echo, result, distance, lost>>

Init ==
  /\ pc = "idle"
  /\ clock = 0
  /\ sensor = "quiet"
  /\ left = 0
  /\ delay = 0
  /\ width = 0
  /\ echo = "own"
  /\ result = "none"
  /\ distance = 0
  /\ lost = 0

(* A bug the code does not have: the product in a long with a sign.        *)
DistanceSigned(us) ==
  LET product == (C_M_PER_SEC * us) % ULONG
  IN  (IF 2 * product < ULONG THEN product ELSE product - ULONG) \div 2

(* distance_um in the arithmetic of unsigned longs.                        *)
Distance(us) == ((C_M_PER_SEC * us) % ULONG) \div 2

EchoPin == sensor = "echo"
-----------------------------------------------------------------------------
(* The sensor.                                                             *)

(* A pulse on the trigger pin: the sensor answers, unless it is busy.      *)
HearTrigger ==
  IF sensor = "quiet"
  THEN /\ \/ "silence" \in Faults /\ width' = 0 /\ UNCHANGED <<sensor, left, delay>>
          \/ /\ sensor' = "burst"
             /\ delay' \in Delays
             /\ left' = delay'
             /\ width' \in Widths
       /\ echo' = "own"
  ELSE echo' = "stale" /\ UNCHANGED <<sensor, left, delay, width>>

SensorGoesOn ==
  \/ left > 1 /\ left' = left - 1 /\ UNCHANGED sensor
  \/ left <= 1 /\ sensor = "burst" /\ left' = width /\ sensor' = "echo"
  \/ left <= 1 /\ sensor # "burst" /\ left' = 0 /\ sensor' = "quiet"

UpTo(bound, n) == IF n <= bound THEN n ELSE bound

(* Round its loops the driver is faster than a tick, so that nothing is    *)
(* lost while it would see what it saw before.                             *)
LoopingOrIdle ==
  \/ pc = "idle"
  \/ pc = "wait_echo" /\ ~EchoPin
  \/ pc = "wait_end" /\ EchoPin

Tick ==
  /\ clock' = UpTo(MaxClock, clock + 1)
  /\ lost' = IF LoopingOrIdle THEN lost ELSE UpTo(MaxClock, lost + 1)
  /\ SensorGoesOn
  /\ UNCHANGED <<pc, delay, width, echo, result, distance>>
-----------------------------------------------------------------------------
(* driver_read                                                             *)

Goto(place) == pc' = place

Keep == UNCHANGED <<sensor, left, delay, width, echo, lost>>

(* The trigger pin goes up, and down again after 11 us.                    *)
Trigger ==
  /\ pc = "idle"
  /\ HearTrigger
  /\ lost' = 0
  /\ Goto("trig_end")
  /\ UNCHANGED <<clock, result, distance>>

StampTrigger ==
  /\ pc = "trig_end"
  /\ clock' = 0
  /\ Goto("wait_echo")
  /\ Keep /\ UNCHANGED <<result, distance>>

PollForEcho ==
  /\ pc = "wait_echo"
  /\ Goto(IF EchoPin THEN "echo_start" ELSE "compare")
  /\ Keep /\ UNCHANGED <<clock, result, distance>>

(* The wait so far against some limit: -EIO, or another look at the pin.   *)
CompareWith(limit) ==
  /\ pc = "compare"
  /\ IF clock > limit
     THEN Goto("idle") /\ result' = "EIO"
     ELSE Goto("wait_echo") /\ UNCHANGED result
  /\ Keep /\ UNCHANGED <<clock, distance>>

(* A bug the code does not have: the wait is given up a tick too early.    *)
CompareEarly == CompareWith(TIMEOUT - 1)

(* A bug the code does not have: the wait is never given up.               *)
CompareNever == CompareWith(MaxClock)

CompareTimeout == CompareWith(TIMEOUT)

StampEchoStart ==
  /\ pc = "echo_start"
  /\ clock' = 0
  /\ Goto("wait_end")
  /\ Keep /\ UNCHANGED <<result, distance>>

(* A bug the code does not have: the first look at the pin ends the loop.  *)
PollOnce ==
  /\ pc = "wait_end"
  /\ Goto("echo_end")
  /\ Keep /\ UNCHANGED <<clock, result, distance>>

(* The loop for the end of the echo has no timeout.                        *)
PollForEnd ==
  /\ pc = "wait_end"
  /\ ~EchoPin
  /\ Goto("echo_end")
  /\ Keep /\ UNCHANGED <<clock, result, distance>>

(* echo_end, the conversion and the return.  The copy to the user and its  *)
(* length are left out: both callers ask for the whole distance.           *)
StampEchoEnd ==
  /\ pc = "echo_end"
  /\ distance' = Distance(clock * USEC)
  /\ result' = echo
  /\ Goto("idle")
  /\ Keep /\ UNCHANGED clock
-----------------------------------------------------------------------------
DriverRead ==
  \/ Trigger \/ StampTrigger \/ PollForEcho \/ CompareTimeout
  \/ StampEchoStart \/ PollForEnd \/ StampEchoEnd

Next == DriverRead \/ Tick

Spec == Init /\ [][Next]_vars
-----------------------------------------------------------------------------
TypeOK ==
  /\ pc \in {"idle", "trig_end", "wait_echo", "compare", "echo_start", "wait_end", "echo_end"}
  /\ clock \in 0 .. MaxClock
  /\ sensor \in {"quiet", "burst", "echo"}
  /\ left \in Nat
  /\ delay \in Delays \cup {0}
  /\ width \in Widths \cup {0}
  /\ echo \in {"own", "stale"}
  /\ result \in {"none", "EIO", "own", "stale"}
  /\ distance \in 0 .. (ULONG - 1) \div 2
  /\ lost \in 0 .. MaxClock

(* Half the way of the sound, in micrometers, for an echo of w ticks.      *)
Travelled(w) == (C_M_PER_SEC * (w * USEC)) \div 2

(* Is the product for w ticks in the range of an unsigned long?            *)
FitsULONG(w) == C_M_PER_SEC * (w * USEC) < ULONG

(* A preempted driver can start the echo late, and end it late, but never  *)
(* by more than it has lost: a read of its own echo is off by at most the  *)
(* ticks in which the driver slept, and reports exactly how far the sound  *)
(* travelled when it did not sleep at all and the echo is not too long.    *)
ErrorWithinLost ==
  [][StampEchoEnd /\ echo = "own" =>
       /\ clock - width \in -lost .. lost
       /\ lost = 0 /\ FitsULONG(width) => distance' = Travelled(width)]_vars

(* What that costs in micrometers, and when the product can wrap.  However *)
(* long the echo, the rover is never told more than the sound can have     *)
(* travelled with all that was lost added to it; and never less than with  *)
(* all of it taken away, unless what was measured is past the range of an  *)
(* unsigned long: an echo of seconds, or a driver asleep as long as that.  *)
ErrorInMicrometers ==
  [][StampEchoEnd /\ echo = "own" =>
       /\ distance' <= Travelled(width + lost)
       /\ FitsULONG(clock) => Travelled(width - lost) <= distance']_vars

(* -EIO has a reason.  If the sensor was free to answer and did, the read  *)
(* gives up only when the answer came too late by as much as the driver    *)
(* did not lose itself, or when the driver slept through the whole echo.   *)
GivesUpWithReason ==
  [][CompareTimeout /\ pc' = "idle" =>
       \/ echo = "stale" \/ width = 0
       \/ delay + lost > TIMEOUT + 1
       \/ lost >= width]_vars

(* However late the sensor answers and however the driver is preempted, an *)
(* echo of an earlier trigger is taken for the own one only right after a  *)
(* read that gave up with -EIO: of two reads in a row that both succeed,   *)
(* the second has measured its own echo.                                   *)
StaleOnlyAfterTimeout ==
  [][StampEchoEnd /\ echo = "stale" => result = "EIO"]_vars

(* A read returns, by its own timeout while it waits for the echo, and     *)
(* thanks to the sensor while it waits for the end, where it has none.     *)
ReadReturns == pc # "idle" ~> pc = "idle"
=============================================================================
