------------------------- MODULE MotorDriverProofs -------------------------
(***************************************************************************)
(* The motor driver, for any set of files, any payloads and any faults.    *)
(* PinInv says which pins a file owns at each place of its handlers; since *)
(* every handler touches only pins that its file owns, LevelInv about the  *)
(* levels follows for each file without regard to the others.              *)
(***************************************************************************)
EXTENDS MotorDriver, TLAPS

Encodes1(f) == level[Gpio1(dev[f])] = IF value[f] > 0 THEN 1 ELSE 0
Encodes2(f) == level[Gpio2(dev[f])] = IF value[f] < 0 THEN 1 ELSE 0

PinInv ==
  \A f \in Files :
    /\ pc[f] # "idle" => dev[f] \in Motors
    /\ pc[f] = "request_2" /\ ~err1[f] => owner[Gpio1(dev[f])] = f
    /\ pc[f] \in Owning => owner[Gpio1(dev[f])] = f
    /\ pc[f] \in Owning \cup HalfFreed => owner[Gpio2(dev[f])] = f

LevelInv ==
  \A f \in Files :
    /\ pc[f] = "open" => Encodes1(f) /\ Encodes2(f)
    /\ pc[f] = "set_2" => Encodes1(f)
    /\ pc[f] \notin {"open", "set_1", "set_2"} => value[f] = 0

Inv == TypeOK /\ PinInv /\ LevelInv

(* Four different pins: a pin belongs to one motor and one direction.      *)
LEMMA PinsOfMotors ==
  ASSUME NEW d \in Motors, NEW e \in Motors
  PROVE  /\ Gpio1(d) \in Pins /\ Gpio2(d) \in Pins
         /\ Gpio1(d) # Gpio2(e)
         /\ Gpio1(d) = Gpio1(e) => d = e
         /\ Gpio2(d) = Gpio2(e) => d = e
BY MotorAssumption DEF Gpio1, Gpio2, Pins

LEMMA Claimants ==
  /\ Script # Free
  /\ \A f \in Files : f # Free /\ f # Script
BY MotorAssumption

(* gpio_request never changes a claim that somebody has.                   *)
LEMMA RequestKeepsClaims ==
  ASSUME NEW p, NEW who, owner' = GpioRequest(owner, p, who)
  PROVE  \A q \in Pins : owner[q] # Free => owner'[q] = owner[q]
BY DEF GpioRequest, Requested

LEMMA SignOfType == \A bytes, n : SignOf(bytes, n) \in {-1, 0, 1}
BY DEF SignOf

LEMMA ScriptPinType == line \in 1 .. ScriptLines => ScriptPin \in Pins
<1> SUFFICES ASSUME line \in 1 .. 12 PROVE ScriptPin \in Pins
  BY DEF ScriptLines
<1>1. ((line - 1) % 4) + 1 \in 1 .. 4
  OBVIOUS
<1>2. QED
  BY <1>1 DEF ScriptPin, ScriptOrder, Pins

LEMMA InitInv == Init => Inv
BY DEF Init, Inv, TypeOK, PinInv, LevelInv, Places, Owning, HalfFreed, Levels,
       ScriptLines

LEMMA NextTypeOK == Inv /\ [Next]_vars => TypeOK'
<1> SUFFICES ASSUME Inv, [Next]_vars PROVE TypeOK'
  OBVIOUS
<1> USE DEF Inv, TypeOK, Goto, Leave, Places, Owning, HalfFreed, Levels
<1>1. ASSUME NEW f \in Files, Open(f) \/ Write(f) \/ Close(f) PROVE TypeOK'
  BY <1>1, SignOfType DEF Open, OpenAs, Write, WriteBytes, Close
<1>2. ASSUME NEW f \in Files, Request1(f) PROVE TypeOK'
  BY <1>2 DEF Request1, GpioRequest, Requested
<1>3. ASSUME NEW f \in Files, Request2(f) PROVE TypeOK'
  BY <1>3 DEF Request2, GpioRequest, Requested
<1>4. ASSUME NEW f \in Files, SetDirections(f) PROVE TypeOK'
  BY <1>4 DEF SetDirections
<1>5. ASSUME NEW f \in Files, UndoFirst(f) \/ UndoSecond(f) PROVE TypeOK'
  BY <1>5 DEF UndoFirst, UndoSecond, FreePin, GpioFree
<1>6. ASSUME NEW f \in Files, SetFirst(f) \/ SetSecond(f) PROVE TypeOK'
  BY <1>6 DEF SetFirst, SetSecond
<1>7. ASSUME NEW f \in Files, CloseFirst(f) \/ CloseSecond(f) PROVE TypeOK'
  BY <1>7 DEF CloseFirst, CloseSecond, FreePin, GpioFree
<1>8. CASE SetGpios
  BY <1>8, ScriptPinType
  DEF SetGpios, Export, DriveLow, NextLine, GpioRequest, Requested, ScriptLines
<1>9. CASE UNCHANGED vars
  BY <1>9 DEF vars
<1>10. QED
  BY <1>1, <1>2, <1>3, <1>4, <1>5, <1>6, <1>7, <1>8, <1>9
  DEF Next, Driver, DriverOpen, DriverWrite, DriverClose

LEMMA NextPinInv == Inv /\ [Next]_vars => PinInv'
<1> SUFFICES ASSUME Inv, [Next]_vars PROVE PinInv'
  OBVIOUS
<1> USE DEF Inv, TypeOK, PinInv, Goto, Leave, Owning, HalfFreed
<1>1. ASSUME NEW f \in Files, Open(f) \/ Write(f) \/ Close(f) PROVE PinInv'
  BY <1>1 DEF Open, OpenAs, Write, WriteBytes, Close
<1>2. ASSUME NEW f \in Files, Request1(f) PROVE PinInv'
  <2>1. owner'[Gpio1(dev[f])] = f \/ err1'[f]
    BY <1>2, PinsOfMotors DEF Request1, GpioRequest, Requested
  <2>2. \A q \in Pins : owner[q] # Free => owner'[q] = owner[q]
    BY <1>2, RequestKeepsClaims DEF Request1
  <2>3. QED
    BY <1>2, <2>1, <2>2, PinsOfMotors, Claimants DEF Request1
<1>3. ASSUME NEW f \in Files, Request2(f) PROVE PinInv'
  <2>1. \A q \in Pins : owner[q] # Free => owner'[q] = owner[q]
    BY <1>3, RequestKeepsClaims DEF Request2
  <2>2. CASE err1[f] \/ Requested(owner, Gpio2(dev[f]))
    BY <1>3, <2>1, <2>2, PinsOfMotors, Claimants DEF Request2
  <2>3. CASE ~err1[f] /\ ~Requested(owner, Gpio2(dev[f]))
    <3>1. owner'[Gpio2(dev[f])] = f
      BY <1>3, <2>3, PinsOfMotors DEF Request2, GpioRequest
    <3>2. owner'[Gpio1(dev[f])] = f
      BY <1>3, <2>1, <2>3, PinsOfMotors, Claimants DEF Request2
    <3>3. QED
      BY <1>3, <2>1, <2>3, <3>1, <3>2, PinsOfMotors, Claimants DEF Request2
  <2>4. QED
    BY <2>2, <2>3
<1>4. ASSUME NEW f \in Files, SetDirections(f) PROVE PinInv'
  BY <1>4 DEF SetDirections
<1>5. ASSUME NEW f \in Files, UndoFirst(f) \/ CloseFirst(f) PROVE PinInv'
  BY <1>5, PinsOfMotors DEF UndoFirst, CloseFirst, FreePin, GpioFree
<1>6. ASSUME NEW f \in Files, UndoSecond(f) \/ CloseSecond(f) PROVE PinInv'
  BY <1>6, PinsOfMotors DEF UndoSecond, CloseSecond, FreePin, GpioFree
<1>7. ASSUME NEW f \in Files, SetFirst(f) \/ SetSecond(f) PROVE PinInv'
  BY <1>7 DEF SetFirst, SetSecond
<1>8. CASE SetGpios
  <2>1. \A q \in Pins : owner[q] # Free => owner'[q] = owner[q]
    BY <1>8, RequestKeepsClaims DEF SetGpios, Export, DriveLow
  <2>2. UNCHANGED <<pc, dev, err1>>
    BY <1>8 DEF SetGpios, Export, DriveLow
  <2>3. QED
    BY <2>1, <2>2, PinsOfMotors, Claimants
<1>9. CASE UNCHANGED vars
  BY <1>9 DEF vars
<1>10. QED
  BY <1>1, <1>2, <1>3, <1>4, <1>5, <1>6, <1>7, <1>8, <1>9
  DEF Next, Driver, DriverOpen, DriverWrite, DriverClose

LEMMA NextLevelInv == Inv /\ [Next]_vars => LevelInv'
<1> SUFFICES ASSUME Inv, [Next]_vars PROVE LevelInv'
  OBVIOUS
<1> USE DEF Inv, TypeOK, PinInv, LevelInv, Encodes1, Encodes2, Goto, Leave,
            Owning, HalfFreed
<1>1. ASSUME NEW f \in Files, Open(f) \/ Write(f) \/ Close(f) PROVE LevelInv'
  BY <1>1 DEF Open, OpenAs, Write, WriteBytes, Close
<1>2. ASSUME NEW f \in Files, Request1(f) \/ Request2(f) PROVE LevelInv'
  BY <1>2 DEF Request1, Request2
<1>3. ASSUME NEW f \in Files, SetDirections(f) PROVE LevelInv'
  <2>1. \A g \in Files \ {f} : pc[g] \in Owning =>
          /\ level'[Gpio1(dev[g])] = level[Gpio1(dev[g])]
          /\ level'[Gpio2(dev[g])] = level[Gpio2(dev[g])]
    BY <1>3, PinsOfMotors DEF SetDirections
  <2>2. pc'[f] = "open" =>
          level'[Gpio1(dev[f])] = 0 /\ level'[Gpio2(dev[f])] = 0
    BY <1>3, PinsOfMotors DEF SetDirections
  <2>3. value[f] = 0
    BY <1>3 DEF SetDirections, LevelInv
  <2>4. pc'[f] \in {"open", "undo_1"} /\ UNCHANGED <<dev, value>>
        /\ \A g \in Files \ {f} : pc'[g] = pc[g]
    BY <1>3 DEF SetDirections
  <2>5. QED
    BY <2>1, <2>2, <2>3, <2>4
<1>4. ASSUME NEW f \in Files, UndoFirst(f) \/ CloseFirst(f) PROVE LevelInv'
  BY <1>4, PinsOfMotors DEF UndoFirst, CloseFirst, FreePin
<1>5. ASSUME NEW f \in Files, UndoSecond(f) \/ CloseSecond(f) PROVE LevelInv'
  BY <1>5, PinsOfMotors DEF UndoSecond, CloseSecond, FreePin
<1>6. ASSUME NEW f \in Files, SetFirst(f) \/ SetSecond(f) PROVE LevelInv'
  BY <1>6, PinsOfMotors DEF SetFirst, SetSecond
<1>7. CASE SetGpios
  <2>1. \A q \in Pins : owner[q] # Script => level'[q] = level[q]
    BY <1>7, ScriptPinType DEF SetGpios, Export, DriveLow
  <2>2. UNCHANGED <<pc, dev, value>>
    BY <1>7 DEF SetGpios, Export, DriveLow
  <2>3. QED
    BY <2>1, <2>2, PinsOfMotors, Claimants
<1>8. CASE UNCHANGED vars
  BY <1>8 DEF vars
<1>9. QED
  BY <1>1, <1>2, <1>3, <1>4, <1>5, <1>6, <1>7, <1>8
  DEF Next, Driver, DriverOpen, DriverWrite, DriverClose

LEMMA NextInv == Inv /\ [Next]_vars => Inv'
BY NextTypeOK, NextPinInv, NextLevelInv DEF Inv

(* Types: in particular a pin is never set to anything but 0 or 1.         *)
THEOREM MotorTypeOK == Spec => []TypeOK
<1>1. Inv => TypeOK
  BY DEF Inv
<1>2. QED
  BY InitInv, NextInv, <1>1, PTL DEF Spec

(* A user that driver_open admitted owns both pins of its motor for as     *)
(* long as the file is open, whoever else opens, closes or runs the script.*)
THEOREM MotorOpenOwnsPins == Spec => []OpenOwnsPins
<1>1. Inv => OpenOwnsPins
  BY DEF Inv, PinInv, OpenOwnsPins, Owning
<1>2. QED
  BY InitInv, NextInv, <1>1, PTL DEF Spec

(* The motor stands still after driver_open and does what the last         *)
(* completed driver_write said, for any bytes written.                     *)
THEOREM MotorObeys == Spec => []MotorObeysLastWrite
<1>1. Inv => MotorObeysLastWrite
  BY DEF Inv, LevelInv, MotorObeysLastWrite, Encodes1, Encodes2
<1>2. QED
  BY InitInv, NextInv, <1>1, PTL DEF Spec

(* The int that copy_from_user leaves in the zeroed buffer, of which the   *)
(* first n bytes are the user's: little-endian, in two's complement.       *)
ByteOf(bytes, n, i) == IF i <= n THEN bytes[i] ELSE 0

WordOf(bytes, n) ==
  ByteOf(bytes, n, 1) + 256 * (ByteOf(bytes, n, 2)
    + 256 * (ByteOf(bytes, n, 3) + 256 * ByteOf(bytes, n, 4)))

IntOf(bytes, n) ==
  LET word == WordOf(bytes, n)
      high == 256 * 256 * 256 * 128
  IN  IF word >= high THEN word - 2 * high ELSE word

Sign(v) == IF v < 0 THEN -1 ELSE IF v = 0 THEN 0 ELSE 1

LEMMA Elements ==
  ASSUME NEW S, NEW s \in Seq(S)
  PROVE  Len(s) \in Nat /\ \A i \in 1 .. Len(s) : s[i] \in S
OBVIOUS

LEMMA CopiedBytes ==
  ASSUME NEW bytes \in Payloads, NEW n \in Copyable(bytes)
  PROVE  n \in 0 .. 4 /\ \A i \in 1 .. n : bytes[i] \in 0 .. 255
<1>1. bytes \in Seq(0 .. 255)
  BY MotorAssumption
<1>2. Len(bytes) \in Nat /\ \A i \in 1 .. Len(bytes) : bytes[i] \in 0 .. 255
  BY <1>1, Elements, Zenon
<1> DEFINE k == Len(bytes)
<1>3. \/ n \in 0 .. (IF k < 4 THEN k ELSE 4)
      \/ n = IF k < 4 THEN k ELSE 4
  BY DEF Copyable
<1>4. k \in Nat /\ \A i \in 1 .. k : bytes[i] \in 0 .. 255
  BY <1>2, Zenon
<1> HIDE DEF k
<1>5. QED
  BY <1>3, <1>4

(* Whatever bytes a program writes, and however few of them are copied,    *)
(* the motor goes where the int points that driver_write compares with 0.  *)
THEOREM MotorGoesByTheInt ==
  ASSUME NEW bytes \in Payloads, NEW n \in Copyable(bytes)
  PROVE  SignOf(bytes, n) = Sign(IntOf(bytes, n))
<1> DEFINE b1 == ByteOf(bytes, n, 1)  b2 == ByteOf(bytes, n, 2)
           b3 == ByteOf(bytes, n, 3)  b4 == ByteOf(bytes, n, 4)
           AllZero == b1 = 0 /\ b2 = 0 /\ b3 = 0 /\ b4 = 0
           w == WordOf(bytes, n)      high == 256 * 256 * 256 * 128
<1>1. n \in 0 .. 4 /\ \A i \in 1 .. n : bytes[i] \in 0 .. 255
  BY CopiedBytes
<1>2. b1 \in 0 .. 255 /\ b2 \in 0 .. 255 /\ b3 \in 0 .. 255 /\ b4 \in 0 .. 255
  BY <1>1 DEF ByteOf
<1>3. n = 4 /\ bytes[4] >= 128 <=> b4 >= 128
  BY <1>1 DEF ByteOf
<1>4. (\A i \in 1 .. n : bytes[i] = 0) <=> AllZero
  BY <1>1 DEF ByteOf
<1>5. /\ b4 >= 128 => SignOf(bytes, n) = -1
      /\ ~(b4 >= 128) /\ AllZero => SignOf(bytes, n) = 0
      /\ ~(b4 >= 128) /\ ~AllZero => SignOf(bytes, n) = 1
  <2> HIDE DEF b4, AllZero
  <2>1. QED
    BY <1>3, <1>4 DEF SignOf
<1>6. w = b1 + 256 * (b2 + 256 * (b3 + 256 * b4))
  BY DEF WordOf
<1>7. IntOf(bytes, n) = IF w >= high THEN w - 2 * high ELSE w
  BY DEF IntOf
<1> HIDE DEF b1, b2, b3, b4, w
<1>8. /\ high \in Nat /\ w \in Nat /\ w < 2 * high
      /\ w >= high <=> b4 >= 128
      /\ w = 0 <=> AllZero
  BY <1>2, <1>6
<1> HIDE DEF high, AllZero
<1>9. QED
  BY <1>5, <1>7, <1>8 DEF Sign

(* gpio_free is only called for pins of the calling file.                  *)
THEOREM MotorClaimEndsByItsOwner == Spec => ClaimEndsByItsOwner
<1> DEFINE Rightly(p) ==
      /\ owner[p] \in Files
      /\ pc[owner[p]] \in {"undo_1", "close_1"} \cup HalfFreed
      /\ pc'[owner[p]] # pc[owner[p]]
           Step == \A p \in Pins : owner[p] # Free /\ owner'[p] # owner[p] => Rightly(p)
<1>1. Inv /\ [Next]_vars => [Step]_vars
  <2> SUFFICES ASSUME Inv, Next, NEW p \in Pins, owner[p] # Free, owner'[p] # owner[p]
               PROVE  Rightly(p)
    BY DEF vars
  <2> USE DEF Inv, TypeOK, PinInv, Goto, Leave, Owning, HalfFreed
  <2>1. ASSUME NEW f \in Files,
               Open(f) \/ SetDirections(f) \/ DriverWrite(f) \/ Close(f)
        PROVE  FALSE
    BY <2>1
    DEF Open, OpenAs, SetDirections, DriverWrite, Write, WriteBytes, SetFirst, SetSecond, Close
  <2>2. ASSUME NEW f \in Files, Request1(f) \/ Request2(f) PROVE FALSE
    BY <2>2, RequestKeepsClaims DEF Request1, Request2
  <2>3. ASSUME NEW f \in Files, UndoFirst(f) \/ CloseFirst(f) PROVE Rightly(p)
    BY <2>3 DEF UndoFirst, CloseFirst, FreePin, GpioFree
  <2>4. ASSUME NEW f \in Files, UndoSecond(f) \/ CloseSecond(f) PROVE Rightly(p)
    BY <2>4 DEF UndoSecond, CloseSecond, FreePin, GpioFree
  <2>5. ASSUME SetGpios PROVE FALSE
    BY <2>5, RequestKeepsClaims DEF SetGpios, Export, DriveLow
  <2>6. QED
    BY <2>1, <2>2, <2>3, <2>4, <2>5 DEF Next, Driver, DriverOpen, DriverClose
<1>2. QED
  BY InitInv, NextInv, <1>1, PTL DEF Spec, ClaimEndsByItsOwner

-----------------------------------------------------------------------------
(* Both high at once: the proof needs only what one step can do to a pin.  *)
BothHigh(d) == level[Gpio1(d)] = 1 /\ level[Gpio2(d)] = 1

Reverser(d) == \E f \in Files : pc[f] = "set_2" /\ dev[f] = d /\ value[f] > 0

(* Both inputs of a bridge are high only inside a write that turns         *)
(* backwards into forwards.                                                *)
THEOREM MotorBothHigh == Spec => []BothHighOnlyWhenReversing
<1>1. Init => BothHighOnlyWhenReversing
  BY PinsOfMotors, MotorAssumption DEF Init, BothHighOnlyWhenReversing
<1>2. Inv /\ BothHighOnlyWhenReversing /\ [Next]_vars => BothHighOnlyWhenReversing'
  <2> SUFFICES ASSUME Inv, BothHighOnlyWhenReversing, [Next]_vars,
                      NEW d \in Motors, BothHigh(d)'
               PROVE  Reverser(d)'
    BY DEF BothHighOnlyWhenReversing, BothHigh, Reverser
  <2> USE DEF Inv, TypeOK, PinInv, LevelInv, Encodes1, Encodes2, Goto, Leave, Owning,
              HalfFreed, BothHigh, Reverser
  <2>0. BothHigh(d) => Reverser(d)
    BY DEF BothHighOnlyWhenReversing
  <2>1. ASSUME NEW f \in Files, Open(f) \/ Write(f) \/ Close(f) PROVE Reverser(d)'
    BY <2>0, <2>1 DEF Open, OpenAs, Write, WriteBytes, Close
  <2>2. ASSUME NEW f \in Files, Request1(f) \/ Request2(f) PROVE Reverser(d)'
    BY <2>0, <2>2 DEF Request1, Request2
  <2>3. ASSUME NEW f \in Files, SetDirections(f) PROVE Reverser(d)'
    <3>1. BothHigh(d)
      BY <2>3, PinsOfMotors DEF SetDirections
    <3>2. QED
      BY <2>0, <2>3, <3>1 DEF SetDirections
  <2>4. ASSUME NEW f \in Files, UndoFirst(f) \/ CloseFirst(f) PROVE Reverser(d)'
    <3>1. BothHigh(d)
      BY <2>4, PinsOfMotors, MotorAssumption DEF UndoFirst, CloseFirst, FreePin
    <3>2. QED
      BY <2>0, <2>4, <3>1 DEF UndoFirst, CloseFirst
  <2>5. ASSUME NEW f \in Files, UndoSecond(f) \/ CloseSecond(f) PROVE Reverser(d)'
    <3>1. BothHigh(d)
      BY <2>5, PinsOfMotors, MotorAssumption DEF UndoSecond, CloseSecond, FreePin
    <3>2. QED
      BY <2>0, <2>5, <3>1 DEF UndoSecond, CloseSecond
  <2>6. ASSUME NEW f \in Files, SetFirst(f) PROVE Reverser(d)'
    <3>1. CASE dev[f] = d
      <4>1. level'[Gpio1(d)] = IF value[f] > 0 THEN 1 ELSE 0
        BY <2>6, <3>1, PinsOfMotors DEF SetFirst
      <4>2. value[f] > 0
        BY <4>1
      <4>3. QED
        BY <2>6, <3>1, <4>2 DEF SetFirst
    <3>2. CASE dev[f] # d
      BY <2>0, <2>6, <3>2, PinsOfMotors DEF SetFirst
    <3>3. QED
      BY <3>1, <3>2
  <2>7. ASSUME NEW f \in Files, SetSecond(f) PROVE Reverser(d)'
    <3>1. CASE dev[f] = d
      <4>1. level'[Gpio2(d)] = IF value[f] < 0 THEN 1 ELSE 0
        BY <2>7, <3>1, PinsOfMotors DEF SetSecond
      <4>2. value[f] < 0
        BY <4>1
      <4>3. level'[Gpio1(d)] = 0
        BY <2>7, <3>1, <4>2, PinsOfMotors DEF SetSecond
      <4>4. QED
        BY <4>3
    <3>2. CASE dev[f] # d
      <4>1. BothHigh(d)
        BY <2>7, <3>2, PinsOfMotors DEF SetSecond
      <4>2. QED
        BY <2>0, <2>7, <3>2, <4>1 DEF SetSecond
    <3>3. QED
      BY <3>1, <3>2
  <2>8. ASSUME SetGpios PROVE Reverser(d)'
    <3>1. BothHigh(d)
      BY <2>8, PinsOfMotors, ScriptPinType DEF SetGpios, Export, DriveLow
    <3>2. QED
      BY <2>0, <2>8, <3>1 DEF SetGpios, Export, DriveLow
  <2>9. CASE UNCHANGED vars
    BY <2>0, <2>9 DEF vars
  <2>10. QED
    BY <2>1, <2>2, <2>3, <2>4, <2>5, <2>6, <2>7, <2>8, <2>9
    DEF Next, Driver, DriverOpen, DriverWrite, DriverClose
<1>3. QED
  BY InitInv, NextInv, <1>1, <1>2, PTL DEF Spec
-----------------------------------------------------------------------------
(* Exclusive use of each motor: the claims do what a lock would do.        *)
LEMMA OneHolds ==
  ASSUME Inv, NEW d, NEW f \in Files, NEW g \in Files, Holds(f, d), Holds(g, d)
  PROVE  f = g
BY DEF Inv, PinInv, Holds, Owning

LEMMA HolderIs ==
  ASSUME Inv, NEW d, NEW f \in Files, Holds(f, d)
  PROVE  Holder(d) = f
BY OneHolds DEF Holder

LEMMA HolderFree ==
  ASSUME NEW d, \A f \in Files : ~Holds(f, d)
  PROVE  Holder(d) = Free
BY DEF Holder

LEMMA SameHolder ==
  ASSUME NEW d, \A f \in Files : Holds(f, d)' <=> Holds(f, d)
  PROVE  Holder(d)' = Holder(d)
BY DEF Holder

Handover(d) ==
  \/ \E f \in Files : Holder(d) = Free /\ Holder(d)' = f
  \/ \E f \in Files : Holder(d) = f /\ Holder(d)' = Free
  \/ Holder(d)' = Holder(d)

(* The only handler steps that matter are the second request, which admits *)
(* a file, and the first gpio_free, which ends its use.                    *)
LEMMA StepOfHolder ==
  ASSUME Inv, Inv', [Next]_vars, NEW d
  PROVE  Handover(d)
<1> USE DEF Goto, Leave
<1>0. TypeOK
  BY DEF Inv
<1>1. ASSUME NEW f \in Files, Request2(f) PROVE Handover(d)
  <2>1. CASE dev[f] = d /\ ~err1[f] /\ ~Requested(owner, Gpio2(d))
    <3>1. \A g \in Files : ~Holds(g, d)
      <4> SUFFICES ASSUME NEW g \in Files, Holds(g, d) PROVE FALSE
        OBVIOUS
      <4>1. owner[Gpio2(d)] = g
        BY DEF Inv, PinInv, Holds, Owning
      <4>2. QED
        BY <2>1, <4>1, Claimants DEF Requested
    <3>2. Holds(f, d)'
      BY <1>0, <1>1, <2>1 DEF Request2, Holds, Owning, TypeOK
    <3>3. Holder(d)' = f
      BY <3>2, OneHolds DEF Inv, Holder, TypeOK, PinInv, Holds, Owning
    <3>4. QED
      BY <3>1, <3>3, HolderFree DEF Handover
  <2>2. CASE dev[f] # d
    <3>1. \A g \in Files : Holds(g, d)' <=> Holds(g, d)
      BY <1>0, <1>1, <2>2 DEF Request2, Holds, Owning, TypeOK
    <3>2. QED
      BY <3>1, SameHolder DEF Handover
  <2>3. CASE dev[f] = d /\ (err1[f] \/ Requested(owner, Gpio2(d)))
    <3>1. \A g \in Files : Holds(g, d)' <=> Holds(g, d)
      BY <1>0, <1>1, <2>3 DEF Request2, Holds, Owning, TypeOK
    <3>2. QED
      BY <3>1, SameHolder DEF Handover
  <2>4. QED
    BY <2>1, <2>2, <2>3
<1>2. ASSUME NEW f \in Files, UndoFirst(f) \/ CloseFirst(f) PROVE Handover(d)
  <2>1. CASE dev[f] = d
    <3>1. Holds(f, d)
      BY <1>2, <2>1 DEF UndoFirst, CloseFirst, Holds, Owning
    <3>2. \A g \in Files : ~Holds(g, d)'
      BY <1>0, <1>2, <3>1, OneHolds
      DEF UndoFirst, CloseFirst, Holds, Owning, TypeOK
    <3>3. QED
      BY <3>1, <3>2, HolderIs DEF Holder, Handover
  <2>2. CASE dev[f] # d
    <3>1. \A g \in Files : Holds(g, d)' <=> Holds(g, d)
      BY <1>0, <1>2, <2>2 DEF UndoFirst, CloseFirst, Holds, Owning, TypeOK
    <3>2. QED
      BY <3>1, SameHolder DEF Handover
  <2>3. QED
    BY <2>1, <2>2
<1>3. ASSUME NEW f \in Files,
             \/ Open(f) \/ Request1(f) \/ SetDirections(f) \/ UndoSecond(f)
             \/ DriverWrite(f) \/ Close(f) \/ CloseSecond(f)
      PROVE  Handover(d)
  <2>1. \A g \in Files : Holds(g, d)' <=> Holds(g, d)
    BY <1>0, <1>3
    DEF Open, OpenAs, Request1, SetDirections, UndoSecond, DriverWrite, Write, WriteBytes, SetFirst,
        SetSecond, Close, CloseSecond, Holds, Owning, TypeOK
  <2>2. QED
    BY <2>1, SameHolder DEF Handover
<1>4. CASE SetGpios \/ UNCHANGED vars
  BY <1>4, SameHolder DEF SetGpios, Export, DriveLow, vars, Holds, Handover
<1>5. QED
  BY <1>1, <1>2, <1>3, <1>4 DEF Next, Driver, DriverOpen, DriverClose

(* The left motor implements the exclusive device.                         *)
THEOREM MotorLeftExclusive == Spec => LeftIsExclusive
<1>1. Init => Left!Init
  BY HolderFree DEF Init, Left!Init, Holds, Owning
<1>2. Inv /\ Inv' /\ [Next]_vars => [Left!Next]_(Holder("left"))
  BY StepOfHolder DEF Handover, Left!Next, Left!Acquire, Left!Release
<1>3. QED
  BY InitInv, NextInv, <1>1, <1>2, PTL DEF Spec, LeftIsExclusive, Left!Spec

(* The right motor implements the exclusive device.                        *)
THEOREM MotorRightExclusive == Spec => RightIsExclusive
<1>1. Init => Right!Init
  BY HolderFree DEF Init, Right!Init, Holds, Owning
<1>2. Inv /\ Inv' /\ [Next]_vars => [Right!Next]_(Holder("right"))
  BY StepOfHolder DEF Handover, Right!Next, Right!Acquire, Right!Release
<1>3. QED
  BY InitInv, NextInv, <1>1, <1>2, PTL DEF Spec, RightIsExclusive, Right!Spec
=============================================================================
