-------------------------- MODULE SensorReadProofs --------------------------
(***************************************************************************)
(* Proofs about driver_read of the sensor, and about the median of three   *)
(* reads, for every timeout and for every delay and width of the echo.     *)
(***************************************************************************)
EXTENDS StableDistance, TLAPS

(* As long as 343 times the microseconds fits into an unsigned long, the   *)
(* distance is half the product, rounded down.                             *)
LEMMA DistanceIsExact ==
  ASSUME NEW us \in Nat, C_M_PER_SEC * us < ULONG
  PROVE  Distance(us) = (C_M_PER_SEC * us) \div 2
<1> DEFINE product == C_M_PER_SEC * us
<1>1. product \in Nat /\ product < ULONG
  BY DEF C_M_PER_SEC
<1>2. ULONG \in Nat \ {0}
  BY SensorReadAssumption
<1> HIDE DEF product
<1>3. product % ULONG = product
  BY <1>1, <1>2
<1>4. QED
  BY <1>3 DEF Distance, product

(* Whatever is measured, a product that wraps only makes it nearer.        *)
LEMMA WrappingShortens ==
  ASSUME NEW us \in Nat
  PROVE  /\ Distance(us) \in Nat
         /\ Distance(us) <= (C_M_PER_SEC * us) \div 2
<1> DEFINE product == C_M_PER_SEC * us
<1>1. product \in Nat /\ ULONG \in Nat \ {0}
  BY SensorReadAssumption DEF C_M_PER_SEC
<1>2. Distance(us) = (product % ULONG) \div 2
  BY DEF Distance
<1> HIDE DEF product
<1>3. product % ULONG \in Nat /\ product % ULONG < ULONG
  BY <1>1
<1>4. product % ULONG <= product
  <2>1. CASE product < ULONG
    BY <2>1, <1>1
  <2>2. CASE ULONG <= product
    BY <2>2, <1>1, <1>3
  <2>3. QED
    BY <2>1, <2>2, <1>1
<1>5. (product % ULONG) \div 2 \in Nat /\ (product % ULONG) \div 2 <= product \div 2
  BY <1>1, <1>3, <1>4
<1>6. QED
  BY <1>2, <1>5 DEF product
-----------------------------------------------------------------------------
(* A read that measures an echo waits for the pin to fall, so that the     *)
(* sensor is quiet when the read returns, and answers the next trigger.    *)
QuietUnlessTimedOut ==
  /\ sensor \in {"quiet", "burst", "echo"}
  /\ pc = "idle" /\ sensor # "quiet" => result = "EIO"
  /\ pc # "idle" /\ echo = "stale" => result = "EIO"
  /\ pc \in {"echo_start", "wait_end"} => sensor # "burst"
  /\ pc = "echo_end" => sensor = "quiet"

LEMMA QuietStep == QuietUnlessTimedOut /\ [Next]_vars => QuietUnlessTimedOut'
<1> SUFFICES ASSUME QuietUnlessTimedOut, [Next]_vars PROVE QuietUnlessTimedOut'
  OBVIOUS
<1> USE DEF QuietUnlessTimedOut, Goto, Keep, EchoPin
<1>1. CASE UNCHANGED vars
  BY <1>1 DEF vars
<1>2. CASE Tick
  BY <1>2 DEF Tick, SensorGoesOn
<1>3. CASE Trigger
  BY <1>3 DEF Trigger, HearTrigger
<1>4. CASE StampTrigger
  BY <1>4 DEF StampTrigger
<1>5. CASE PollForEcho
  BY <1>5 DEF PollForEcho
<1>6. CASE CompareTimeout
  BY <1>6 DEF CompareTimeout, CompareWith
<1>7. CASE StampEchoStart
  BY <1>7 DEF StampEchoStart
<1>8. CASE PollForEnd
  BY <1>8 DEF PollForEnd
<1>9. CASE StampEchoEnd
  BY <1>9 DEF StampEchoEnd
<1>10. QED
  BY <1>1, <1>2, <1>3, <1>4, <1>5, <1>6, <1>7, <1>8, <1>9 DEF Next, DriverRead

LEMMA QuietInvariant == Spec => []QuietUnlessTimedOut
<1>1. Init => QuietUnlessTimedOut
  BY DEF Init, QuietUnlessTimedOut
<1>2. QED
  BY <1>1, QuietStep, PTL DEF Spec

(* However the driver is preempted and however late the sensor answers, an *)
(* old echo is measured only by a read that follows one that timed out.    *)
THEOREM SensorStaleOnlyAfterTimeout == Spec => StaleOnlyAfterTimeout
<1>1. QuietUnlessTimedOut => [StampEchoEnd /\ echo = "stale" => result = "EIO"]_vars
  BY DEF QuietUnlessTimedOut, StampEchoEnd
<1>2. QED
  BY <1>1, QuietInvariant, PTL DEF StaleOnlyAfterTimeout
-----------------------------------------------------------------------------
LEMMA TypeStep == TypeOK /\ [Next]_vars => TypeOK'
<1> USE SensorReadAssumption
<1> SUFFICES ASSUME TypeOK, [Next]_vars PROVE TypeOK'
  OBVIOUS
<1> USE DEF TypeOK, Goto, Keep, EchoPin
<1>1. CASE UNCHANGED vars
  BY <1>1 DEF vars
<1>2. CASE Tick
  BY <1>2 DEF Tick, SensorGoesOn, UpTo
<1>3. CASE Trigger
  <2>1. CASE UNCHANGED <<sensor, left, delay>> /\ width' \in {0, width}
    BY <1>3, <2>1 DEF Trigger, HearTrigger
  <2>2. CASE sensor' = "burst" /\ delay' \in Delays /\ left' = delay' /\ width' \in Widths
    <3>1. left' \in Nat
      BY <2>2
    <3>2. QED
      BY <1>3, <2>2, <3>1 DEF Trigger, HearTrigger
  <2>3. QED
    BY <1>3, <2>1, <2>2 DEF Trigger, HearTrigger
<1>4. CASE StampTrigger \/ StampEchoStart
  BY <1>4 DEF StampTrigger, StampEchoStart
<1>5. CASE PollForEcho \/ PollForEnd
  BY <1>5 DEF PollForEcho, PollForEnd
<1>6. CASE CompareTimeout
  BY <1>6 DEF CompareTimeout, CompareWith
<1>7. CASE StampEchoEnd
  <2>1. Distance(clock * USEC) \in 0 .. (ULONG - 1) \div 2
    <3> DEFINE product == C_M_PER_SEC * (clock * USEC)
    <3>1. product \in Nat
      <4>1. clock * USEC \in Nat
        OBVIOUS
      <4>2. QED
        BY <4>1 DEF C_M_PER_SEC
    <3> HIDE DEF product
    <3>2. product % ULONG \in 0 .. ULONG - 1
      BY <3>1
    <3> DEFINE rest == product % ULONG
    <3>3. Distance(clock * USEC) = rest \div 2
      BY DEF Distance, product
    <3>4. rest \in 0 .. ULONG - 1
      BY <3>2
    <3> HIDE DEF rest
    <3>5. QED
      BY <3>3, <3>4
  <2>2. QED
    BY <1>7, <2>1 DEF StampEchoEnd
<1>8. QED
  BY <1>1, <1>2, <1>3, <1>4, <1>5, <1>6, <1>7 DEF Next, DriverRead

LEMMA InitTypes == Init => TypeOK
BY SensorReadAssumption DEF Init, TypeOK

LEMMA ReadTypes == Spec => []TypeOK
BY InitTypes, TypeStep, PTL DEF Spec

(* The types, and the bound of the distance.                               *)
THEOREM SensorReadTypeOK == Spec => []TypeOK
  BY ReadTypes
-----------------------------------------------------------------------------
(* What the driver has lost while it waited for its own echo: nothing is   *)
(* owed while the echo has not come; at the compare the tick that raised   *)
(* the pin is lost with those since; an echo that is over was slept        *)
(* through; and during the echo the clock is behind by what was lost.      *)
Owed ==
  echo = "own" /\ width # 0 =>
    /\ pc # "idle" /\ sensor = "burst" =>
         /\ pc \in {"trig_end", "wait_echo", "compare"}
         /\ left \in 1 .. delay
         /\ pc # "trig_end" => clock <= delay - left
    /\ pc # "idle" /\ sensor = "echo" =>
         /\ pc \in {"trig_end", "wait_echo", "compare", "echo_start", "wait_end"}
         /\ left \in 1 .. width
         /\ pc # "wait_end" => width - left <= lost
         /\ pc = "compare" => width - left < lost
         /\ pc \in {"wait_echo", "compare"} => clock <= delay + (width - left)
         /\ pc = "wait_end" => width - left - clock \in 0 .. lost
    /\ sensor = "quiet" =>
         /\ pc \in {"trig_end", "wait_echo", "compare", "echo_start"} => lost >= width
         /\ pc \in {"wait_end", "echo_end"} => clock - width \in -lost .. lost
    /\ pc = "echo_end" => sensor = "quiet"
    /\ pc = "idle" /\ sensor = "burst" => left \in 1 .. delay
    /\ pc = "idle" /\ sensor = "echo" => left \in 1 .. width

(* Without an answer there is nothing to see.                              *)
SilenceIsQuiet ==
  width = 0 => sensor = "quiet" /\ pc \in {"idle", "trig_end", "wait_echo", "compare"}

LostInv == TypeOK /\ Owed /\ SilenceIsQuiet

LEMMA LostInvariant == Spec => []LostInv
<1> USE SensorReadAssumption
<1>1. Init => Owed /\ SilenceIsQuiet
  BY DEF Init, Owed, SilenceIsQuiet
<1>2. TypeOK /\ TypeOK' /\ Owed /\ SilenceIsQuiet /\ [Next]_vars => Owed' /\ SilenceIsQuiet'
  <2> SUFFICES ASSUME TypeOK, TypeOK', Owed, SilenceIsQuiet, [Next]_vars
               PROVE  Owed' /\ SilenceIsQuiet'
    OBVIOUS
  <2> USE DEF Owed, SilenceIsQuiet, Goto, Keep, EchoPin
  <2>0. /\ clock \in 0 .. MaxClock /\ lost \in 0 .. MaxClock
        /\ left \in Nat /\ delay \in Nat /\ width \in 0 .. MaxClock
    BY DEF TypeOK
  <2>1. CASE UNCHANGED vars
    BY <2>1 DEF vars
  <2>2. CASE Tick
    <3>1. sensor \in {"quiet", "burst", "echo"}
      BY DEF TypeOK
    <3>2. CASE sensor = "quiet"
      BY <2>0, <2>2, <3>2 DEF Tick, SensorGoesOn, UpTo, LoopingOrIdle
    <3>3. CASE sensor = "burst"
      BY <2>0, <2>2, <3>3 DEF Tick, SensorGoesOn, UpTo, LoopingOrIdle
    <3>4. CASE sensor = "echo"
      BY <2>0, <2>2, <3>4 DEF Tick, SensorGoesOn, UpTo, LoopingOrIdle
    <3>5. QED
      BY <3>1, <3>2, <3>3, <3>4
  <2>3. CASE Trigger
    <3>1. CASE sensor # "quiet"
      BY <2>0, <2>3, <3>1 DEF Trigger, HearTrigger
    <3>2. CASE sensor = "quiet" /\ width' = 0
      BY <2>0, <2>3, <3>2 DEF Trigger, HearTrigger
    <3>3. CASE sensor' = "burst" /\ delay' \in Delays /\ left' = delay' /\ width' \in Widths
      <4>1. left' \in 1 .. delay' /\ width' # 0
        BY <3>3
      <4>2. QED
        BY <2>3, <3>3, <4>1 DEF Trigger, HearTrigger
    <3>4. QED
      BY <2>3, <3>1, <3>2, <3>3 DEF Trigger, HearTrigger
  <2>4. CASE StampTrigger
    BY <2>0, <2>4 DEF StampTrigger
  <2>5. CASE PollForEcho
    BY <2>0, <2>5 DEF PollForEcho
  <2>6. CASE CompareTimeout
    BY <2>0, <2>6 DEF CompareTimeout, CompareWith
  <2>7. CASE StampEchoStart
    BY <2>0, <2>7 DEF StampEchoStart
  <2>8. CASE PollForEnd
    BY <2>0, <2>8 DEF PollForEnd, TypeOK
  <2>9. CASE StampEchoEnd
    BY <2>0, <2>9 DEF StampEchoEnd
  <2>10. QED
    BY <2>1, <2>2, <2>3, <2>4, <2>5, <2>6, <2>7, <2>8, <2>9 DEF Next, DriverRead
<1>3. QED
  BY <1>1, <1>2, ReadTypes, PTL DEF Spec, LostInv
-----------------------------------------------------------------------------
(* However the driver is preempted, a read of its own echo is off by no    *)
(* more than what it lost, and exact when it lost nothing and the product  *)
(* for the echo fits into an unsigned long.                                *)
THEOREM SensorErrorWithinLost == Spec => ErrorWithinLost
<1>1. LostInv => [StampEchoEnd /\ echo = "own" =>
                    /\ clock - width \in -lost .. lost
                    /\ lost = 0 /\ FitsULONG(width) => distance' = Travelled(width)]_vars
  <2> SUFFICES ASSUME LostInv, StampEchoEnd, echo = "own"
               PROVE  /\ clock - width \in -lost .. lost
                      /\ lost = 0 /\ FitsULONG(width) => distance' = Travelled(width)
    OBVIOUS
  <2>1. pc = "echo_end" /\ width # 0
    BY DEF LostInv, SilenceIsQuiet, StampEchoEnd
  <2>2. clock - width \in -lost .. lost
    BY <2>1 DEF LostInv, Owed
  <2>3. ASSUME lost = 0, FitsULONG(width) PROVE distance' = Travelled(width)
    <3>1. width \in Widths /\ width \in Nat /\ clock \in Nat
      BY <2>1, SensorReadAssumption DEF LostInv, TypeOK
    <3>2. clock = width
      BY <2>2, <2>3, <3>1
    <3>3. width * USEC \in Nat /\ C_M_PER_SEC * (width * USEC) < ULONG
      BY <3>1, <2>3, SensorReadAssumption DEF FitsULONG
    <3>4. QED
      BY <3>2, <3>3, DistanceIsExact DEF Travelled, StampEchoEnd
  <2>4. QED
    BY <2>2, <2>3
<1>2. QED
  BY <1>1, LostInvariant, PTL DEF ErrorWithinLost

LEMMA TravelledIsInt == \A v \in Int : Travelled(v) \in Int
<1> SUFFICES ASSUME NEW v \in Int PROVE Travelled(v) \in Int
  OBVIOUS
<1> DEFINE us == v * USEC
<1>1. us \in Int
  BY SensorReadAssumption
<1>2. Travelled(v) = (343 * us) \div 2
  BY DEF Travelled, C_M_PER_SEC
<1> HIDE DEF us
<1>3. QED
  BY <1>1, <1>2

(* A longer time is a longer way.                                          *)
LEMMA TravelledGrows ==
  ASSUME NEW v \in Int, NEW w \in Int, v <= w
  PROVE  Travelled(v) <= Travelled(w)
<1> DEFINE a == v * USEC  b == w * USEC
<1>1. a \in Int /\ b \in Int /\ a <= b
  <2>1. USEC \in Nat /\ w - v \in Nat
    BY SensorReadAssumption
  <2>2. (w - v) * USEC >= 0
    BY <2>1
  <2>3. b = a + (w - v) * USEC
    BY <2>1
  <2>4. a \in Int /\ b \in Int /\ (w - v) * USEC \in Int
    BY <2>1
  <2>5. QED
    BY <2>2, <2>3, <2>4
<1>2. Travelled(v) = (343 * a) \div 2 /\ Travelled(w) = (343 * b) \div 2
  BY DEF Travelled, C_M_PER_SEC
<1> HIDE DEF a, b
<1>3. QED
  BY <1>1, <1>2

(* For all echoes, also those too long for an unsigned long.               *)
THEOREM SensorErrorInMicrometers == Spec => ErrorInMicrometers
<1>1. LostInv => [StampEchoEnd /\ echo = "own" =>
                    /\ distance' <= Travelled(width + lost)
                    /\ FitsULONG(clock) => Travelled(width - lost) <= distance']_vars
  <2> SUFFICES ASSUME LostInv, StampEchoEnd, echo = "own"
               PROVE  /\ distance' <= Travelled(width + lost)
                      /\ FitsULONG(clock) => Travelled(width - lost) <= distance'
    OBVIOUS
  <2>1. clock \in Nat /\ width \in Nat /\ lost \in Nat /\ USEC \in Nat
    BY SensorReadAssumption DEF LostInv, TypeOK
  <2>2. clock - width \in -lost .. lost
    BY DEF LostInv, SilenceIsQuiet, Owed, StampEchoEnd
  <2>3. width - lost <= clock /\ clock <= width + lost
    BY <2>1, <2>2
  <2>4. clock * USEC \in Nat /\ distance' = Distance(clock * USEC)
    BY <2>1 DEF StampEchoEnd
  <2>5. Travelled(width - lost) <= Travelled(clock) /\ Travelled(clock) <= Travelled(width + lost)
    BY <2>1, <2>3, TravelledGrows
  <2>6. distance' <= Travelled(clock)
    BY <2>4, WrappingShortens DEF Travelled
  <2>7. distance' \in Int /\ Travelled(clock) \in Int /\ Travelled(width + lost) \in Int
    <3>1. Distance(clock * USEC) \in Nat
      BY <2>4, WrappingShortens
    <3>2. QED
      BY <2>1, <2>4, <3>1, TravelledIsInt
  <2>8. distance' <= Travelled(width + lost)
    BY <2>5, <2>6, <2>7
  <2>9. ASSUME FitsULONG(clock) PROVE Travelled(width - lost) <= distance'
    BY <2>4, <2>5, <2>9, DistanceIsExact DEF Travelled, FitsULONG
  <2>10. QED
    BY <2>8, <2>9
<1>2. QED
  BY <1>1, LostInvariant, PTL DEF ErrorInMicrometers

(* A read whose sensor was free to answer and did gives up only when the   *)
(* answer was late, or the driver was preempted for the missing time.      *)
THEOREM SensorGivesUpWithReason == Spec => GivesUpWithReason
<1>1. LostInv => [CompareTimeout /\ pc' = "idle" =>
                    \/ echo = "stale" \/ width = 0
                    \/ delay + lost > TIMEOUT + 1
                    \/ lost >= width]_vars
  <2> SUFFICES ASSUME LostInv, CompareTimeout, pc' = "idle", echo # "stale", width # 0
               PROVE  delay + lost > TIMEOUT + 1 \/ lost >= width
    OBVIOUS
  <2>1. pc = "compare" /\ clock > TIMEOUT /\ echo = "own"
    BY DEF CompareTimeout, CompareWith, Goto, LostInv, TypeOK
  <2>2. /\ clock \in Nat /\ lost \in Nat /\ left \in Nat /\ delay \in Nat /\ width \in Nat
        /\ TIMEOUT \in Nat /\ sensor \in {"quiet", "burst", "echo"}
    BY SensorReadAssumption DEF LostInv, TypeOK
  <2>3. CASE sensor = "quiet"
    BY <2>1, <2>3 DEF LostInv, Owed
  <2>4. CASE sensor = "burst"
    BY <2>1, <2>2, <2>4 DEF LostInv, Owed
  <2>5. CASE sensor = "echo"
    BY <2>1, <2>2, <2>5 DEF LostInv, Owed
  <2>6. QED
    BY <2>2, <2>3, <2>4, <2>5
<1>2. QED
  BY <1>1, LostInvariant, PTL DEF GivesUpWithReason
-----------------------------------------------------------------------------
(* Three reads.  The last failed read, if no distance has been measured    *)
(* since, is still there to be followed by a stale one.                    *)
Pending == IF result = "EIO" THEN 1 ELSE 0

Sample == [um : Nat, of : {"own", "stale"}]

StableInv ==
  /\ TypeOK /\ QuietUnlessTimedOut
  /\ samples \in Seq(Sample)
  /\ Len(samples) <= 3
  /\ errors \in 0 .. MaxErrors
  /\ Len(samples) = 3 => result # "EIO"
  /\ IsStale(1) + IsStale(2) + IsStale(3) + Pending <= errors

LEMMA ShortSequence ==
  ASSUME NEW s \in Seq(Sample)
  PROVE  /\ Len(s) < 3 => Len(s) \in 0 .. 2
         /\ Len(s) = 3 => \A i \in 1 .. 3 : s[i] \in Sample
<1>1. Len(s) \in Nat /\ \A i \in 1 .. Len(s) : s[i] \in Sample
  OBVIOUS
<1> DEFINE n == Len(s)
<1>2. n \in Nat /\ \A i \in 1 .. n : s[i] \in Sample
  BY <1>1
<1> HIDE DEF n
<1>3. /\ n < 3 => n \in 0 .. 2
      /\ n = 3 => \A i \in 1 .. 3 : s[i] \in Sample
  BY <1>2
<1>4. QED
  BY <1>3 DEF n

LEMMA NextStableInv == StableInv /\ [StableNext]_stableVars => StableInv'
<1> SUFFICES ASSUME StableInv, [StableNext]_stableVars PROVE StableInv'
  OBVIOUS
<1>1. [Next]_vars
  BY DEF StableNext, stableVars, GetDistance, UseDistance, AnotherProgram, Next
<1>2. TypeOK' /\ QuietUnlessTimedOut'
  BY <1>1, TypeStep, QuietStep DEF StableInv
<1>0. Len(samples) < 3 => Len(samples) \in 0 .. 2
  <2>1. samples \in Seq(Sample)
    BY DEF StableInv
  <2>2. QED
    BY <2>1, ShortSequence
<1> USE DEF StableInv, IsStale, Pending, MaxErrors
<1>3. CASE UNCHANGED <<samples, errors, result>>
  BY <1>2, <1>3
<1>4. CASE UseDistance
  BY <1>2, <1>4 DEF UseDistance, vars
<1>5. CASE AnotherProgram
  BY <1>2, <1>5 DEF AnotherProgram, vars
<1>6. CASE GetDistance /\ StampEchoEnd
  <2>1. /\ Returns /\ result' = echo /\ echo \in {"own", "stale"} /\ distance' \in Nat
        /\ echo = "stale" => result = "EIO"
    <3>1. distance' \in 0 .. (ULONG - 1) \div 2
      BY <1>2 DEF TypeOK
    <3>2. QED
      BY <1>6, <3>1 DEF StampEchoEnd, Returns, Goto, TypeOK, QuietUnlessTimedOut
  <2> DEFINE s == [um |-> distance', of |-> result']
  <2>2. /\ Len(samples) \in 0 .. 2 /\ samples' = Append(samples, s) /\ errors' = errors
        /\ s \in Sample /\ s.of = result'
    <3>1. s \in Sample /\ s.of = result'
      BY <2>1 DEF Sample
    <3>2. samples' = Append(samples, s) /\ errors' = errors
      BY <1>6, <2>1 DEF GetDistance
    <3>3. Len(samples) < 3
      BY <1>6 DEF GetDistance
    <3>4. QED
      BY <1>0, <3>1, <3>2, <3>3
  <2> HIDE DEF s
  <2>3. /\ samples' \in Seq(Sample)
        /\ Len(samples') = Len(samples) + 1 /\ samples'[Len(samples) + 1] = s
        /\ \A i \in 1 .. Len(samples) : samples'[i] = samples[i]
    BY <2>2
  <2>4. IsStale(1)' + IsStale(2)' + IsStale(3)'
          = IsStale(1) + IsStale(2) + IsStale(3) + (IF result' = "stale" THEN 1 ELSE 0)
    BY <2>2, <2>3
  <2>5. QED
    BY <1>2, <2>1, <2>2, <2>3, <2>4
<1>7. CASE GetDistance /\ CompareTimeout
  <2>1. CASE Returns
    <3>1. result' = "EIO" /\ samples' = samples /\ errors' = UpTo(MaxErrors, errors + 1)
      BY <1>7, <2>1 DEF GetDistance, CompareTimeout, CompareWith, Goto, Returns, AddError
    <3>2. Len(samples) < 3
      BY <1>7 DEF GetDistance
    <3>3. /\ IsStale(1)' = IsStale(1) /\ IsStale(1) \in 0 .. 1
          /\ IsStale(2)' = IsStale(2) /\ IsStale(2) \in 0 .. 1
          /\ IsStale(3)' = 0 /\ IsStale(3) = 0
      BY <1>0, <3>1, <3>2
    <3>4. Pending' = 1 /\ Pending \in 0 .. 1
      BY <3>1
    <3>5. errors' \in 0 .. 3 /\ (errors' = errors + 1 \/ errors' = 3)
      BY <3>1 DEF UpTo
    <3> HIDE DEF IsStale, Pending
    <3>6. IsStale(1)' + IsStale(2)' + IsStale(3)' + Pending' <= errors'
      BY <3>3, <3>4, <3>5
    <3>7. samples' \in Seq(Sample) /\ Len(samples') <= 3 /\ Len(samples') # 3
      BY <1>0, <3>1, <3>2
    <3>8. errors' \in 0 .. MaxErrors
      BY <3>5
    <3>9. QED
      BY <1>2, <3>6, <3>7, <3>8
  <2>2. CASE ~Returns
    BY <1>3, <1>7, <2>2 DEF GetDistance, CompareTimeout, CompareWith, Goto, Returns
  <2>3. QED
    BY <2>1, <2>2
<1>8. CASE GetDistance /\ ~StampEchoEnd /\ ~CompareTimeout
  <2>1. ~Returns /\ UNCHANGED result
    BY <1>8
    DEF GetDistance, DriverRead, Trigger, StampTrigger, PollForEcho, StampEchoStart, PollForEnd,
        Returns, Goto
  <2>2. QED
    BY <1>3, <1>8, <2>1 DEF GetDistance
<1>9. CASE (Tick /\ UNCHANGED <<samples, errors>>) \/ UNCHANGED stableVars
  BY <1>3, <1>9 DEF Tick, stableVars, vars
<1>10. QED
  BY <1>4, <1>5, <1>6, <1>7, <1>8, <1>9 DEF StableNext

LEMMA StableInvariant == StableSpec => []StableInv
<1>1. StableInit => StableInv
  BY InitTypes
  DEF StableInit, Init, StableInv, QuietUnlessTimedOut, IsStale, Pending, MaxErrors
<1>2. QED
  BY <1>1, NextStableInv, PTL DEF StableSpec

(* A failed read costs at most one sample of a round.                      *)
THEOREM StableOneStalePerError == StableSpec => []OneStalePerError
<1>1. StableInv => OneStalePerError
  BY DEF StableInv, OneStalePerError, IsStale, Pending
<1>2. QED
  BY <1>1, StableInvariant, PTL

(* With at most one failed read the median lies between two distances that *)
(* were measured in the round.                                             *)
THEOREM StableOneErrorNeverDecides == StableSpec => []OneErrorNeverDecides
<1>1. StableInv => OneErrorNeverDecides
  <2> SUFFICES ASSUME StableInv, Len(samples) = 3, errors <= 1
               PROVE  \E i, j \in 1 .. 3 :
                        /\ i # j /\ samples[i].of = "own" /\ samples[j].of = "own"
                        /\ samples[i].um <= Dist /\ Dist <= samples[j].um
    BY DEF OneErrorNeverDecides
  <2>1. \A i \in 1 .. 3 : samples[i].um \in Nat /\ samples[i].of \in {"own", "stale"}
    <3>1. \A i \in 1 .. 3 : samples[i] \in Sample
      BY ShortSequence DEF StableInv
    <3>2. QED
      BY <3>1 DEF Sample
  <2>2. \E k \in 1 .. 3 : \A i \in 1 .. 3 \ {k} : samples[i].of = "own"
    BY <2>1 DEF StableInv, IsStale, Pending
  <2>3. \A k \in 1 .. 3 : \E i, j \in 1 .. 3 \ {k} :
          i # j /\ samples[i].um <= Dist /\ Dist <= samples[j].um
    BY <2>1 DEF Dist, median3, MIN, MAX
  <2>4. QED
    BY <2>2, <2>3
<1>2. QED
  BY <1>1, StableInvariant, PTL
=============================================================================
