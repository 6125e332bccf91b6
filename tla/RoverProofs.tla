---------------------------- MODULE RoverProofs ----------------------------
(***************************************************************************)
(* The programs of the rover over its drivers, for any number of remote    *)
(* controls.  Every step of the composition is a step of the motor driver  *)
(* or leaves it alone, so that what is proved about the driver holds here  *)
(* too; what the programs add is which values they have written to which   *)
(* file at each of their calls (DriveInv, FollowerInv), and that a claim   *)
(* has a file in a handler behind it as long as no request was refused     *)
(* (ClaimInv).  SensorInv says the same of the sensor's pins and counter.  *)
(* The theorems on Follow and SensorOpen are carried over through the      *)
(* instances FP and SP of their modules.                                   *)
(***************************************************************************)
EXTENDS Rover, MotorDriverProofs, FiniteSetTheorems

InWrite == {"open", "set_1", "set_2"}

(* Files of different programs, or for different motors, are different.    *)
LEMMA FilesDiffer ==
  ASSUME NEW d \in Programs, NEW e \in Programs
  PROVE  /\ LeftFile(d) \in Files /\ RightFile(d) \in Files
         /\ LeftFile(d) # RightFile(e)
         /\ LeftFile(d) = LeftFile(e) => d = e
         /\ RightFile(d) = RightFile(e) => d = e
BY DriveAssumption DEF LeftFile, RightFile

(* An int that the program writes drives the way it says, and the write    *)
(* from the address 0 stops.                                               *)
LEMMA WrittenSigns ==
  /\ \A v \in {-1, 0, 1} : SignOf(IntBytes(v), 4) = v
  /\ SignOf(Nothing, 0) = 0
<1>1. SignOf(<<1, 0, 0, 0>>, 4) = 1
  BY DEF SignOf
<1>2. SignOf(<<0, 0, 0, 0>>, 4) = 0
  BY DEF SignOf
<1>3. SignOf(<<255, 255, 255, 255>>, 4) = -1
  BY DEF SignOf
<1>4. SignOf(Nothing, 0) = 0
  BY DEF SignOf
<1>5. QED
  BY <1>1, <1>2, <1>3, <1>4 DEF IntBytes, MOTOR_GO, MOTOR_STOP

-----------------------------------------------------------------------------
(* The writes of the program are writes that the driver has to expect.     *)
LEMMA WritesAreWrites ==
  ASSUME NEW f \in Files,
         \/ \E v \in {-1, 0, 1} : WriteBytes(f, IntBytes(v), 4)
         \/ WriteBytes(f, Nothing, 0)
  PROVE  Write(f)
<1>1. CASE WriteBytes(f, Nothing, 0)
  <2>1. Nothing \in Payloads /\ 0 \in Copyable(Nothing)
    BY DriveAssumption DEF Copyable, Nothing
  <2>2. QED
    BY <1>1, <2>1 DEF Write
<1>2. ASSUME NEW v \in {-1, 0, 1}, WriteBytes(f, IntBytes(v), 4) PROVE Write(f)
  <2>1. IntBytes(v) \in Payloads
    BY DriveAssumption DEF MOTOR_GO, MOTOR_STOP, MOTOR_BACK
  <2>2. Len(IntBytes(v)) = 4
    BY DEF IntBytes, MOTOR_GO, MOTOR_STOP
  <2>3. 4 \in Copyable(IntBytes(v))
    BY <2>2, DriveAssumption DEF Copyable
  <2>4. QED
    BY <1>2, <2>1, <2>3 DEF Write
<1>3. QED
  BY <1>1, <1>2

(* What a program does beside the motor driver's handlers is a call.       *)
LEMMA ProgramCalls ==
  ASSUME \A d \in Programs : want[d] \in Commands, NEW d \in Programs, Program(d)
  PROVE  (\E f \in Files : Open(f) \/ Write(f) \/ Close(f)) \/ UNCHANGED vars
<1> USE FilesDiffer
<1>1. CASE OpenLeft(d) \/ OpenRight(d)
  BY <1>1, DriveAssumption DEF OpenLeft, OpenRight, Open
<1>2. CASE CheckOpen(d) \/ Sleep(d) \/ Prompt(d) \/ Kill(d) \/ Restart(d)
  BY <1>2 DEF CheckOpen, Sleep, Prompt, Kill, Restart
<1>3. CASE Command(d) \/ WriteRight(d) \/ StopLeft(d) \/ StopRight(d)
  <2>1. \A c \in Commands : c[1] \in {-1, 0, 1} /\ c[2] \in {-1, 0, 1}
    BY DEF Commands, MOTOR_GO, MOTOR_STOP, MOTOR_BACK
  <2>2. Write(LeftFile(d)) \/ Write(RightFile(d))
    BY <1>3, <2>1, WritesAreWrites DEF Command, WriteRight, StopLeft, StopRight
  <2>3. QED
    BY <2>2
<1>4. CASE Quit(d) \/ QuitRight(d) \/ CloseOnExit(d)
  BY <1>4 DEF Quit, QuitRight, CloseOnExit
<1>5. QED
  BY <1>1, <1>2, <1>3, <1>4 DEF Program

LEMMA DriveStepIsDriverStep ==
  ASSUME \A d \in Programs : want[d] \in Commands, [DriveNext]_driveVars
  PROVE  [Next]_vars
<1>1. CASE UNCHANGED driveVars
  BY <1>1 DEF driveVars, vars
<1>2. CASE Kernel \/ OtherUser
  BY <1>2 DEF Kernel, OtherUser, InHandler, Next, Driver, DriverOpen, DriverWrite, DriverClose
<1>3. ASSUME NEW d \in Programs, Program(d) PROVE [Next]_vars
  BY <1>3, ProgramCalls DEF Next, Driver, DriverOpen, DriverWrite, DriverClose
<1>4. QED
  BY <1>1, <1>2, <1>3 DEF DriveNext
-----------------------------------------------------------------------------
(* What each program has written to its files when it has made some call.  *)
WrittenAt(d) ==
  LET L == LeftFile(d)
      R == RightFile(d)
  IN  /\ at[d] = "start" => pc[L] = "idle" /\ pc[R] = "idle"
      /\ at[d] = "open_left" => value[L] = 0 /\ pc[R] = "idle"
      /\ at[d] = "open_right" => value[L] = 0 /\ value[R] = 0
      /\ at[d] \in Driving => pc[L] \in InWrite /\ pc[R] \in InWrite
      /\ at[d] \in {"prompt", "pulse"} => pc[L] = "open" /\ pc[R] = "open"
      /\ at[d] = "prompt" => value[L] = 0 /\ value[R] = 0
      /\ at[d] = "write_left" => pc[R] = "open" /\ value[L] = want[d][1]
      /\ at[d] = "write_right" =>
            pc[L] = "open" /\ value[L] = want[d][1] /\ value[R] = want[d][2]
      /\ at[d] = "pulse" => value[L] = want[d][1] /\ value[R] = want[d][2]
      /\ at[d] = "stop_left" => pc[R] = "open" /\ value[L] = 0
      /\ at[d] = "stop_right" => pc[L] = "open" /\ value[L] = 0 /\ value[R] = 0

DriveInv ==
  /\ DOMAIN at = Programs
  /\ want \in [Programs -> Commands]
  /\ \A d \in Programs :
       /\ pc[LeftFile(d)] # "idle" => dev[LeftFile(d)] = "left"
       /\ pc[RightFile(d)] # "idle" => dev[RightFile(d)] = "right"
       /\ WrittenAt(d)

(* What a step inside a handler, or of the script, means to a program: the *)
(* value written stays, and a file that is being written to stays open.    *)
HandlerGoesOn(f) ==
  /\ UNCHANGED <<at, want, value>>
  /\ pc[f] \notin {"idle", "open"}
  /\ pc[f] \in InWrite => pc'[f] \in InWrite
  /\ pc'[f] # "idle" => dev'[f] = dev[f]
  /\ \A g \in Files \ {f} : pc'[g] = pc[g] /\ dev'[g] = dev[g]

LEMMA HandlersGoOn ==
  ASSUME Inv, NEW f \in Files, InHandler(f), UNCHANGED <<at, want>>
  PROVE  HandlerGoesOn(f)
<1> USE DEF Inv, TypeOK, HandlerGoesOn, InWrite, Goto, Leave
<1>1. CASE Request1(f)
  BY <1>1 DEF Request1
<1>2. CASE Request2(f)
  BY <1>2 DEF Request2
<1>3. CASE SetDirections(f)
  BY <1>3 DEF SetDirections
<1>4. CASE UndoFirst(f) \/ UndoSecond(f)
  BY <1>4 DEF UndoFirst, UndoSecond
<1>5. CASE SetFirst(f) \/ SetSecond(f)
  BY <1>5 DEF SetFirst, SetSecond
<1>6. CASE CloseFirst(f) \/ CloseSecond(f)
  BY <1>6 DEF CloseFirst, CloseSecond
<1>7. QED
  BY <1>1, <1>2, <1>3, <1>4, <1>5, <1>6 DEF InHandler

(* A call of one program changes nothing about the others and their files. *)
TouchesOnly(files) ==
  \A f \in Files \ files : pc'[f] = pc[f] /\ value'[f] = value[f] /\ dev'[f] = dev[f]

CallOf(d) ==
  /\ \A e \in Programs \ {d} : at'[e] = at[e] /\ want'[e] = want[e]
  /\ TouchesOnly({LeftFile(d), RightFile(d)})

LEMMA CallsAreLocal ==
  ASSUME Inv, DriveInv, NEW d \in Programs, Program(d)
  PROVE  CallOf(d) /\ DOMAIN at' = Programs /\ want' \in [Programs -> Commands]
<1> USE FilesDiffer DEF Inv, TypeOK, DriveInv, CallOf, TouchesOnly, Advance, Goto
<1>1. CASE OpenLeft(d) \/ OpenRight(d)
  BY <1>1 DEF OpenLeft, OpenRight, OpenAs
<1>2. CASE CheckOpen(d) \/ Sleep(d) \/ Prompt(d) \/ Kill(d) \/ Restart(d)
  BY <1>2 DEF CheckOpen, Sleep, Prompt, Kill, Restart, vars, Commands
<1>3. CASE Command(d)
  BY <1>3 DEF Command, WriteBytes
<1>4. CASE WriteRight(d) \/ StopLeft(d) \/ StopRight(d)
  BY <1>4 DEF WriteRight, StopLeft, StopRight, WriteBytes
<1>5. CASE Quit(d) \/ QuitRight(d) \/ CloseOnExit(d)
  BY <1>5 DEF Quit, QuitRight, CloseOnExit, Close
<1>6. QED
  BY <1>1, <1>2, <1>3, <1>4, <1>5 DEF Program

InvOf(d) ==
  /\ pc[LeftFile(d)] # "idle" => dev[LeftFile(d)] = "left"
  /\ pc[RightFile(d)] # "idle" => dev[RightFile(d)] = "right"
  /\ WrittenAt(d)

LEMMA CallsWriteAsSaid ==
  ASSUME Inv, DriveInv, NEW d \in Programs, Program(d)
  PROVE  InvOf(d)'
<1> USE FilesDiffer DEF Inv, TypeOK, DriveInv, InvOf, WrittenAt, At, InUserMode, Advance,
    Goto, InWrite, Driving
<1>0. \A c \in Commands : c[1] \in {-1, 0, 1} /\ c[2] \in {-1, 0, 1}
  BY DEF Commands, MOTOR_GO, MOTOR_STOP, MOTOR_BACK
<1>1. CASE OpenLeft(d) \/ OpenRight(d)
  BY <1>1 DEF OpenLeft, OpenRight, OpenAs, LevelInv
<1>2. CASE CheckOpen(d) \/ Sleep(d) \/ Prompt(d) \/ Kill(d) \/ Restart(d)
  BY <1>2 DEF CheckOpen, Sleep, Prompt, Kill, Restart, vars
<1>3. CASE Command(d)
  BY <1>0, <1>3, WrittenSigns DEF Command, WriteBytes
<1>4. CASE WriteRight(d)
  BY <1>0, <1>4, WrittenSigns DEF WriteRight, WriteBytes
<1>5. CASE StopLeft(d) \/ StopRight(d)
  BY <1>5, WrittenSigns DEF StopLeft, StopRight, WriteBytes
<1>6. CASE Quit(d) \/ QuitRight(d) \/ CloseOnExit(d)
  BY <1>6 DEF Quit, QuitRight, CloseOnExit, Close
<1>7. QED
  BY <1>1, <1>2, <1>3, <1>4, <1>5, <1>6 DEF Program

LEMMA InitDriveInv == DriveInit => DriveInv
  BY FilesDiffer, DriveAssumption DEF DriveInit, Init, DriveInv, WrittenAt, Driving, Commands, MOTOR_STOP

LEMMA NextDriveInv == Inv /\ DriveInv /\ [DriveNext]_driveVars => DriveInv'
<1> SUFFICES ASSUME Inv, DriveInv, [DriveNext]_driveVars PROVE DriveInv'
  OBVIOUS
<1>1. CASE UNCHANGED driveVars
  BY <1>1 DEF driveVars, DriveInv, WrittenAt
<1>2. CASE OtherUser
  BY <1>2 DEF OtherUser, SetGpios, Export, DriveLow, DriveInv, WrittenAt
<1>3. CASE Kernel
  <2>1. PICK f \in Files : HandlerGoesOn(f)
    BY <1>3, HandlersGoOn DEF Kernel
  <2>2. ASSUME NEW d \in Programs PROVE InvOf(d)'
    <3>1. InvOf(d)
      BY DEF DriveInv, InvOf
    <3>2. QED
      BY <2>1, <3>1, FilesDiffer
      DEF HandlerGoesOn, InvOf, WrittenAt, InWrite, Driving
  <2>3. QED
    BY <2>1, <2>2 DEF HandlerGoesOn, DriveInv, InvOf
<1>4. ASSUME NEW d \in Programs, Program(d) PROVE DriveInv'
  <2>1. ASSUME NEW e \in Programs PROVE InvOf(e)'
    <3>1. CASE e = d
      BY <1>4, <3>1, CallsWriteAsSaid
    <3>2. CASE e # d
      <4>1. InvOf(e)
        BY DEF DriveInv, InvOf
      <4>2. QED
        BY <1>4, <3>2, <4>1, CallsAreLocal, FilesDiffer
        DEF CallOf, TouchesOnly, InvOf, WrittenAt
    <3>3. QED
      BY <3>1, <3>2
  <2>2. QED
    BY <1>4, <2>1, CallsAreLocal DEF DriveInv, InvOf
<1>5. QED
  BY <1>1, <1>2, <1>3, <1>4 DEF DriveNext

-----------------------------------------------------------------------------
(* Without refused requests every claim of a file has a handler behind it: *)
(* the converse of what PinInv says.                                       *)
HasClaim(f, p) ==
  \/ pc[f] \in Owning \cup {"request_2"} /\ p = Gpio1(dev[f])
  \/ pc[f] \in Owning \cup HalfFreed /\ p = Gpio2(dev[f])

Claims ==
  /\ \A f \in Files : err1[f] = FALSE
  /\ \A p \in Pins : owner[p] \in Files => HasClaim(owner[p], p)

ClaimInv == refused = FALSE => Claims

LEMMA CallsKeepClaims ==
  ASSUME Inv, Claims, \/ \E f \in Files : Open(f) \/ Write(f) \/ Close(f)
                      \/ SetGpios \/ UNCHANGED vars
  PROVE  Claims'
<1> USE DEF Inv, TypeOK, Claims, HasClaim, Goto, Owning, HalfFreed
<1>1. ASSUME NEW f \in Files, Open(f) \/ Write(f) \/ Close(f) PROVE Claims'
  BY <1>1 DEF Open, OpenAs, Write, WriteBytes, Close
<1>2. CASE SetGpios
  BY <1>2, Claimants DEF SetGpios, Export, DriveLow, GpioRequest
<1>3. CASE UNCHANGED vars
  BY <1>3 DEF vars
<1>4. QED
  BY <1>1, <1>2, <1>3

LEMMA HandlersKeepClaims ==
  ASSUME Inv, Claims, NEW f \in Files, InHandler(f), ~IsRefused(f)
  PROVE  Claims'
<1> USE DEF Inv, TypeOK, Claims, HasClaim, Goto, Leave, Owning, HalfFreed, IsRefused
<1>0. pc[f] # "idle" => dev[f] \in Motors
  BY DEF PinInv
<1>1. CASE Request1(f)
  BY <1>0, <1>1, PinsOfMotors, Claimants DEF Request1, GpioRequest, Requested
<1>2. CASE Request2(f)
  BY <1>0, <1>2, PinsOfMotors, Claimants DEF Request2, GpioRequest, Requested
<1>3. CASE SetDirections(f)
  BY <1>3 DEF SetDirections
<1>4. CASE UndoFirst(f) \/ CloseFirst(f)
  BY <1>0, <1>4, PinsOfMotors, Claimants DEF UndoFirst, CloseFirst, FreePin, GpioFree
<1>5. CASE UndoSecond(f) \/ CloseSecond(f)
  BY <1>0, <1>5, PinsOfMotors, Claimants DEF UndoSecond, CloseSecond, FreePin, GpioFree
<1>6. CASE SetFirst(f) \/ SetSecond(f)
  BY <1>6 DEF SetFirst, SetSecond
<1>7. QED
  BY <1>1, <1>2, <1>3, <1>4, <1>5, <1>6 DEF InHandler

LEMMA NextClaimInv ==
  Inv /\ DriveInv /\ ClaimInv /\ [DriveNext]_driveVars => ClaimInv'
<1> SUFFICES ASSUME Inv, DriveInv, ClaimInv, [DriveNext]_driveVars, refused' = FALSE
             PROVE  Claims'
  BY DEF ClaimInv
<1>1. CASE UNCHANGED driveVars
  BY <1>1, CallsKeepClaims DEF driveVars, vars, ClaimInv
<1>2. CASE ((\E d \in Programs : Program(d)) \/ OtherUser) /\ UNCHANGED refused
  <2>1. \/ \E f \in Files : Open(f) \/ Write(f) \/ Close(f)
        \/ SetGpios \/ UNCHANGED vars
    BY <1>2, ProgramCalls DEF OtherUser, DriveInv
  <2>2. QED
    BY <1>2, <2>1, CallsKeepClaims DEF ClaimInv
<1>3. CASE Kernel
  <2>1. PICK f \in Files : InHandler(f) /\ refused' = (refused \/ IsRefused(f))
    BY <1>3 DEF Kernel
  <2>2. ~IsRefused(f) /\ ~refused
    BY <2>1
  <2>3. QED
    BY <2>1, <2>2, HandlersKeepClaims DEF ClaimInv
<1>4. QED
  BY <1>1, <1>2, <1>3 DEF DriveNext

LEMMA InitClaimInv == DriveInit => ClaimInv
  BY Claimants DEF DriveInit, Init, ClaimInv, Claims

LEMMA ClaimsHaveFiles ==
  ASSUME Inv, DriveInv, ClaimInv PROVE NothingLeftClaimed
<1> SUFFICES ASSUME ~refused, NEW p \in Pins, owner[p] \in Files
             PROVE  /\ pc[owner[p]] # "idle"
                    /\ \A d \in Programs : at[d] = "start" =>
                         owner[p] \notin {LeftFile(d), RightFile(d)}
  BY FilesDiffer DEF NothingLeftClaimed
<1>1. pc[owner[p]] # "idle"
  BY DEF ClaimInv, Claims, HasClaim, Owning, HalfFreed
<1>2. QED
  BY <1>1 DEF DriveInv, WrittenAt

LEMMA DriveInvariant == DriveSpec => [](Inv /\ DriveInv /\ ClaimInv)
<1>1. DriveInit => Inv /\ DriveInv /\ ClaimInv
  BY InitInv, InitDriveInv, InitClaimInv DEF DriveInit
<1>2. Inv /\ DriveInv /\ ClaimInv /\ [DriveNext]_driveVars => (Inv /\ DriveInv /\ ClaimInv)'
  <2> SUFFICES ASSUME Inv, DriveInv, ClaimInv, [DriveNext]_driveVars
               PROVE  Inv' /\ DriveInv' /\ ClaimInv'
    OBVIOUS
  <2>1. [Next]_vars
    BY DriveStepIsDriverStep DEF DriveInv
  <2>2. QED
    BY <2>1, NextInv, NextDriveInv, NextClaimInv
<1>3. QED
  BY <1>1, <1>2, PTL DEF DriveSpec
-----------------------------------------------------------------------------
(* Whatever any number of programs and set_gpios.sh do together, the       *)
(* driver sees only what its own specification allows, so that everything  *)
(* proved about the driver holds for the rover under remote control.       *)
THEOREM DriveImplementsMotorDriver == DriveSpec => Spec
<1>1. DriveInit => Init
  BY DEF DriveInit
<1>2. DriveInv /\ [DriveNext]_driveVars => [Next]_vars
  BY DriveStepIsDriverStep DEF DriveInv
<1>3. QED
  BY <1>1, <1>2, DriveInvariant, PTL DEF DriveSpec, Spec

(* An open file of a program drives its motor as its last value says.      *)
LEMMA MotorsGo ==
  ASSUME Inv, DriveInv, NEW d \in Programs,
         pc[LeftFile(d)] = "open", pc[RightFile(d)] = "open"
  PROVE  Goes("left", value[LeftFile(d)]) /\ Goes("right", value[RightFile(d)])
BY FilesDiffer DEF Inv, LevelInv, DriveInv, Goes, Encodes1, Encodes2

(* For its second, a command is what both motors do.                       *)
THEOREM DrivePulse == DriveSpec => []PulseAsCommanded
<1>1. Inv /\ DriveInv => PulseAsCommanded
  BY MotorsGo DEF PulseAsCommanded, DriveInv, WrittenAt
<1>2. QED
  BY <1>1, DriveInvariant, PTL

(* The rover stands still whenever a program prompts.                      *)
THEOREM DriveStandsStill == DriveSpec => []StandsStillAtPrompt
<1>1. Inv /\ DriveInv => StandsStillAtPrompt
  BY MotorsGo DEF StandsStillAtPrompt, DriveInv, WrittenAt, MOTOR_STOP
<1>2. QED
  BY <1>1, DriveInvariant, PTL

(* At most one program drives: two would both own the pins of the left     *)
(* motor.                                                                  *)
THEOREM DriveOneDriver == DriveSpec => []OneDriver
<1>1. Inv /\ DriveInv => OneDriver
  <2> SUFFICES ASSUME Inv, DriveInv, NEW d \in Programs, NEW e \in Programs,
                      at[d] \in Driving, at[e] \in Driving
               PROVE  d = e
    BY DEF OneDriver
  <2>1. \A p \in {d, e} : pc[LeftFile(p)] \in Owning /\ dev[LeftFile(p)] = "left"
    BY DEF DriveInv, WrittenAt, InWrite, Owning
  <2>2. \A p \in {d, e} : owner[Gpio1("left")] = LeftFile(p)
    BY <2>1, FilesDiffer DEF Inv, PinInv
  <2>3. QED
    BY <2>2, FilesDiffer
<1>2. QED
  BY <1>1, DriveInvariant, PTL

(* As long as no request was refused, no program leaves a claim behind,    *)
(* wherever it was killed.                                                 *)
THEOREM DriveNothingLeftClaimed == DriveSpec => []NothingLeftClaimed
  BY ClaimsHaveFiles, DriveInvariant, PTL
-----------------------------------------------------------------------------
(* With the controller and the test program beside the remote controls.    *)
L == LeftFile(Follower)
R == RightFile(Follower)

LEMMA FollowersFiles ==
  /\ L \in Files /\ R \in Files /\ L # R
  /\ \A d \in Programs : {L, R} \cap {LeftFile(d), RightFile(d)} = {}
BY RoverAssumption DEF L, R, LeftFile, RightFile

LEMMA ModesAreSigns ==
  ASSUME mode \in F(NoEcho)!Modes
  PROVE  F(NoEcho)!LeftOf(mode) \in {-1, 0, 1} /\ F(NoEcho)!RightOf(mode) \in {-1, 0, 1}
BY DEF F!Modes, F!LeftOf, F!RightOf, F!MOTOR_GO, F!MOTOR_STOP, F!MOTOR_BACK

(* What the controller does to the motor driver is a call, or nothing.     *)
LEMMA FollowerCallsDriver ==
  ASSUME mode \in F(NoEcho)!Modes, Follows
  PROVE  (\E f \in Files : Open(f) \/ Write(f) \/ Close(f)) \/ UNCHANGED vars
<1> USE FollowersFiles DEF L, R
<1>1. CASE OpenDevices
  BY <1>1, DriveAssumption DEF OpenDevices, Open
<1>2. CASE TellLeft \/ TellRight
  <2>1. Write(L) \/ Write(R)
    BY <1>2, WritesAreWrites, ModesAreSigns DEF TellLeft, TellRight
  <2>2. QED
    BY <2>1
<1>3. CASE CheckDevices \/ MeasureOnce \/ DecideMode \/ KillFollower \/ RestartFollower
  BY <1>3 DEF CheckDevices, MeasureOnce, DecideMode, KillFollower, RestartFollower
<1>4. CASE CloseFollower
  BY <1>4 DEF CloseFollower
<1>5. QED
  BY <1>1, <1>2, <1>3, <1>4 DEF Follows

LEMMA FollowerTouches ==
  ASSUME Inv, Follows PROVE TouchesOnly({L, R})
<1> USE FollowersFiles DEF L, R, Inv, TypeOK, TouchesOnly, Goto
<1>1. CASE OpenDevices
  BY <1>1 DEF OpenDevices, OpenAs, vars
<1>2. CASE TellLeft \/ TellRight
  BY <1>2 DEF TellLeft, TellRight, WriteBytes
<1>3. CASE CheckDevices \/ MeasureOnce \/ DecideMode \/ KillFollower \/ RestartFollower
  BY <1>3 DEF CheckDevices, MeasureOnce, DecideMode, KillFollower, RestartFollower, vars
<1>4. CASE CloseFollower
  BY <1>4 DEF CloseFollower, Close, vars
<1>5. QED
  BY <1>1, <1>2, <1>3, <1>4 DEF Follows

(* What the controller has written to its files when it has made some call.*)
FollowerInv ==
  /\ fpc \in {"start", "exit"} \/ InLoop
  /\ mode \in F(NoEcho)!Modes
  /\ fpc \in {"start", "exit"} => samples = <<>> /\ mode = "ROTATE" /\ num_far_values = 0
  /\ opened \in 0 .. 3
  /\ pc[L] # "idle" => dev[L] = "left"
  /\ pc[R] # "idle" => dev[R] = "right"
  /\ fpc = "start" => value[L] = 0 /\ value[R] = 0
  /\ fpc = "start" /\ opened = 0 => pc[L] = "idle"
  /\ fpc = "start" /\ opened \in {0, 1} => pc[R] = "idle"
  /\ InLoop => pc[L] \in InWrite /\ pc[R] \in InWrite
  /\ fpc = "write_left" => pc[L] = "open" /\ pc[R] = "open"
  /\ fpc = "write_right" => pc[R] = "open"
  /\ fpc \in {"read", "decide"} => pc[L] = "open" /\ value[R] = F(NoEcho)!RightOf(mode)
  /\ fpc \in {"write_right", "read", "decide"} => value[L] = F(NoEcho)!LeftOf(mode)

LEMMA InitFollowerInv == RoverInit => FollowerInv
BY FollowersFiles DEF RoverInit, DriveInit, Init, F!Init, FollowerInv, F!Modes, InLoop

(* The steps of the others leave the controller's values alone and the     *)
(* files it is writing to open.                                            *)
FollowerUntouched ==
  /\ UNCHANGED followVars
  /\ value'[L] = value[L] /\ value'[R] = value[R]
  /\ \A f \in {L, R} :
       /\ pc[f] \in {"idle", "open"} => pc'[f] = pc[f]
       /\ pc[f] \in InWrite => pc'[f] \in InWrite
       /\ pc'[f] # "idle" => pc[f] # "idle" /\ dev'[f] = dev[f]

LEMMA UntouchedKeepsInv ==
  ASSUME FollowerInv, FollowerUntouched PROVE FollowerInv'
BY DEF FollowerInv, FollowerUntouched, followVars, InLoop, InWrite

LEMMA OthersUntouch ==
  ASSUME Inv, DriveInv,
         \/ DriveNext /\ UNCHANGED <<sensorVars, followVars>>
         \/ Tests \/ SensorKernel \/ UNCHANGED roverVars
  PROVE  FollowerUntouched
<1> USE FollowersFiles DEF FollowerUntouched
<1>1. ASSUME NEW d \in Programs, Program(d), UNCHANGED followVars PROVE FollowerUntouched
  BY <1>1, CallsAreLocal DEF CallOf, TouchesOnly
<1>2. CASE Kernel /\ UNCHANGED followVars
  <2>1. PICK f \in Files : HandlerGoesOn(f)
    BY <1>2, HandlersGoOn DEF Kernel
  <2>2. \A g \in {L, R} :
          /\ pc[g] \in {"idle", "open"} => pc'[g] = pc[g]
          /\ pc[g] \in InWrite => pc'[g] \in InWrite
          /\ pc'[g] # "idle" => pc[g] # "idle" /\ dev'[g] = dev[g]
    BY <2>1 DEF HandlerGoesOn
  <2>3. QED
    BY <1>2, <2>1, <2>2 DEF HandlerGoesOn
<1>3. CASE OtherUser /\ UNCHANGED followVars
  BY <1>3 DEF OtherUser, SetGpios, Export, DriveLow
<1>4. CASE Tests \/ SensorKernel \/ UNCHANGED roverVars
  BY <1>4 DEF Tests, SensorKernel, roverVars, driveVars, vars
<1>5. QED
  BY <1>1, <1>2, <1>3, <1>4 DEF DriveNext

LEMMA FollowsKeepsInv ==
  ASSUME Inv, FollowerInv, Follows PROVE FollowerInv'
<1> USE FollowersFiles DEF L, R, Inv, TypeOK, FollowerInv, FollowerCalls, InUserMode, InLoop,
    InWrite, Goto
<1>1. CASE OpenDevices
  BY <1>1 DEF OpenDevices, OpenAs, vars
<1>2. CASE CheckDevices
  BY <1>2 DEF CheckDevices, HasAllOpen, vars
<1>3. CASE TellLeft \/ TellRight
  BY <1>3, WrittenSigns, ModesAreSigns DEF TellLeft, TellRight, WriteBytes
<1>4. CASE MeasureOnce
  BY <1>4 DEF MeasureOnce, vars
<1>5. CASE DecideMode
  BY <1>5 DEF DecideMode, F!Found, F!Far, F!TooNear, F!Retreated, F!NoChange, F!set_mode,
    F!MeasureAgain, F!Modes, vars
<1>6. CASE KillFollower \/ RestartFollower
  BY <1>6 DEF KillFollower, RestartFollower, vars, F!Modes, LevelInv
<1>7. CASE CloseFollower
  BY <1>7 DEF CloseFollower, Close, vars, followVars
<1>8. QED
  BY <1>1, <1>2, <1>3, <1>4, <1>5, <1>6, <1>7 DEF Follows

(* All of it together: a step of the composition is a step of the motor    *)
(* driver that keeps every invariant.                                      *)
MotorsInv == Inv /\ DriveInv /\ ClaimInv /\ FollowerInv

LEMMA RoverStepIsDriverStep ==
  ASSUME DriveInv, FollowerInv, [RoverNext]_roverVars PROVE [Next]_vars
<1>1. CASE DriveNext
  BY <1>1, DriveStepIsDriverStep DEF DriveInv
<1>2. CASE Follows
  BY <1>2, FollowerCallsDriver DEF FollowerInv, Next, Driver, DriverOpen, DriverWrite, DriverClose
<1>3. CASE Tests \/ SensorKernel \/ UNCHANGED roverVars
  BY <1>3 DEF Tests, SensorKernel, roverVars, driveVars, vars
<1>4. QED
  BY <1>1, <1>2, <1>3 DEF RoverNext

LEMMA NextMotorsInv == MotorsInv /\ [RoverNext]_roverVars => MotorsInv'
<1> SUFFICES ASSUME Inv, DriveInv, ClaimInv, FollowerInv, [RoverNext]_roverVars
             PROVE  Inv' /\ DriveInv' /\ ClaimInv' /\ FollowerInv'
  BY DEF MotorsInv
<1>1. Inv'
  BY RoverStepIsDriverStep, NextInv
<1>2. CASE DriveNext /\ UNCHANGED <<sensorVars, followVars>>
  BY <1>1, <1>2, NextDriveInv, NextClaimInv, OthersUntouch, UntouchedKeepsInv
<1>3. CASE Follows /\ UNCHANGED <<at, want, refused>>
  <2>1. DriveInv'
    <3>1. \A d \in Programs : \A f \in {LeftFile(d), RightFile(d)} :
            pc'[f] = pc[f] /\ value'[f] = value[f] /\ dev'[f] = dev[f]
      BY <1>3, FollowerTouches, FilesDiffer, FollowersFiles DEF TouchesOnly
    <3>2. QED
      BY <1>3, <3>1 DEF DriveInv, WrittenAt
  <2>2. ClaimInv'
    <3>1. (\E f \in Files : Open(f) \/ Write(f) \/ Close(f)) \/ UNCHANGED vars
      BY <1>3, FollowerCallsDriver DEF FollowerInv
    <3>2. QED
      BY <1>3, <3>1, CallsKeepClaims DEF ClaimInv
  <2>3. QED
    BY <1>1, <1>3, <2>1, <2>2, FollowsKeepsInv
<1>4. CASE (Tests /\ UNCHANGED <<at, want, refused>>) \/ SensorKernel \/ UNCHANGED roverVars
  <2>1. UNCHANGED <<vars, at, want>>
    BY <1>4 DEF Tests, SensorKernel, roverVars, driveVars, vars
  <2>2. DriveInv'
    BY <2>1 DEF vars, DriveInv, WrittenAt
  <2>3. ClaimInv'
    <3> SUFFICES ASSUME refused' = FALSE PROVE Claims'
      BY DEF ClaimInv
    <3>1. ~refused
      BY <1>4 DEF SensorKernel, roverVars, driveVars
    <3>2. QED
      BY <2>1, <3>1, CallsKeepClaims DEF ClaimInv
  <2>4. QED
    BY <1>1, <1>4, <2>2, <2>3, OthersUntouch, UntouchedKeepsInv
<1>5. QED
  BY <1>2, <1>3, <1>4 DEF RoverNext

LEMMA RoverInvariant == RoverSpec => []MotorsInv
<1>1. RoverInit => MotorsInv
  BY InitInv, InitDriveInv, InitClaimInv, InitFollowerInv DEF RoverInit, DriveInit, MotorsInv
<1>2. QED
  BY <1>1, NextMotorsInv, PTL DEF RoverSpec
-----------------------------------------------------------------------------
(* Controller, remote controls and test program together do to the motor   *)
(* driver only what its own specification allows, so that all that is      *)
(* proved of it holds for the whole rover.                                 *)
THEOREM RoverImplementsMotorDriver == RoverSpec => Spec
<1>1. RoverInit => Init
  BY DEF RoverInit, DriveInit
<1>2. MotorsInv /\ [RoverNext]_roverVars => [Next]_vars
  BY RoverStepIsDriverStep DEF MotorsInv
<1>3. QED
  BY <1>1, <1>2, RoverInvariant, PTL DEF RoverSpec, Spec

(* While the controller measures, the pins are as its mode says.           *)
THEOREM RoverPinsMatchMode == RoverSpec => []PinsMatchMode
<1>1. MotorsInv => PinsMatchMode
  <2> SUFFICES ASSUME MotorsInv, fpc \in {"read", "decide"}, InUserMode(Follower)
               PROVE  /\ Goes("left", F(NoEcho)!LeftOf(mode))
                      /\ Goes("right", F(NoEcho)!RightOf(mode))
    BY DEF PinsMatchMode
  <2>1. pc[L] = "open" /\ dev[L] = "left" /\ pc[R] = "open" /\ dev[R] = "right"
    BY DEF MotorsInv, FollowerInv, InUserMode, InLoop, InWrite, L, R
  <2>2. value[L] = F(NoEcho)!LeftOf(mode) /\ value[R] = F(NoEcho)!RightOf(mode)
    BY DEF MotorsInv, FollowerInv
  <2>3. QED
    BY <2>1, <2>2, FollowersFiles
    DEF MotorsInv, Inv, LevelInv, Goes, Encodes1, Encodes2
<1>2. QED
  BY <1>1, RoverInvariant, PTL

(* Controller and remote control are never both at the wheel: both would   *)
(* own the pins of the left motor.                                         *)
THEOREM RoverOneAtTheWheel == RoverSpec => []OneAtTheWheel
<1>1. MotorsInv => OneAtTheWheel
  <2> SUFFICES ASSUME MotorsInv, InLoop, NEW d \in Programs, at[d] \in Driving
               PROVE  FALSE
    BY DEF OneAtTheWheel
  <2>1. \A f \in {L, LeftFile(d)} : pc[f] \in Owning /\ dev[f] = "left"
    BY DEF MotorsInv, DriveInv, WrittenAt, FollowerInv, InWrite, Owning
  <2>2. \A f \in {L, LeftFile(d)} : owner[Gpio1("left")] = f
    BY <2>1, FilesDiffer, FollowersFiles DEF MotorsInv, Inv, PinInv
  <2>3. QED
    BY <2>2, FollowersFiles
<1>2. QED
  BY <1>1, RoverInvariant, PTL

(* No program of the rover leaves a claim behind without a refused request.*)
THEOREM RoverNothingLeftClaimed == RoverSpec => []NothingLeftClaimed
  BY ClaimsHaveFiles, RoverInvariant, PTL DEF MotorsInv

(* The controller over the real drivers does only what Follow does.        *)
THEOREM RoverRunsFollow == RoverSpec => RunsFollow
<1> DEFINE Runs == \/ \E scene \in Distances \cup {NoEcho} : F(scene)!Program
                   \/ fpc' = "exit" \/ (fpc = "exit" /\ fpc' = "start")
<1>1. MotorsInv /\ [RoverNext]_roverVars => [Runs]_(F(NoEcho)!program)
  <2> SUFFICES ASSUME Inv, DriveInv, FollowerInv, [RoverNext]_roverVars
               PROVE  Runs \/ UNCHANGED F(NoEcho)!program
    BY DEF MotorsInv
  <2> USE FollowersFiles DEF L, R
  <2>1. ASSUME ~Follows PROVE UNCHANGED F(NoEcho)!program
    BY <2>1, OthersUntouch DEF RoverNext, FollowerUntouched, followVars, F!program
  <2>2. CASE OpenDevices
    BY <2>2 DEF OpenDevices, OpenAs, vars, F!program
  <2>3. CASE CheckDevices
    BY <2>3 DEF CheckDevices, FollowerCalls, FollowerInv, vars, F!Program, F!Start, F!set_mode
  <2>4. CASE TellLeft
    BY <2>4, WrittenSigns, ModesAreSigns
    DEF TellLeft, WriteBytes, FollowerCalls, FollowerInv, Inv, TypeOK, F!Program, F!WriteLeft
  <2>5. CASE TellRight
    BY <2>5, WrittenSigns, ModesAreSigns
    DEF TellRight, WriteBytes, FollowerCalls, FollowerInv, Inv, TypeOK, F!Program, F!WriteRight
  <2>6. CASE MeasureOnce
    BY <2>6, RoverAssumption DEF MeasureOnce, FollowerCalls, vars, F!Program, F!ReadDistance
  <2>7. CASE DecideMode
    BY <2>7 DEF DecideMode, FollowerCalls, vars, F!Program, F!Decide
  <2>8. CASE KillFollower \/ CloseFollower \/ RestartFollower
    BY <2>8 DEF KillFollower, CloseFollower, RestartFollower, FollowerCalls, followVars
  <2>9. QED
    BY <2>1, <2>2, <2>3, <2>4, <2>5, <2>6, <2>7, <2>8 DEF Follows
<1>2. QED
  BY <1>1, RoverInvariant, PTL DEF RoverSpec, RunsFollow
-----------------------------------------------------------------------------
(* The controller as the proofs about Follow see it.  They speak of a      *)
(* scene; over the real drivers every read has its own, so that the scene  *)
(* is fixed here, and the reads are looked at on their own.                *)
FP == INSTANCE FollowProofs WITH scene <- NoEcho, pc <- fpc,
        left <- value[LeftFile(Follower)], right <- value[RightFile(Follower)]

LEMMA FollowsAssumption == FP!FollowAssumption
BY RoverAssumption DEF FP!FollowAssumption

LEMMA DecidesAsFollow ==
  ASSUME DecideMode PROVE FP!Decide
<1>1. /\ FollowerCalls("decide") /\ samples' = <<>> /\ UNCHANGED value
      /\ F(NoEcho)!Found \/ F(NoEcho)!Far \/ F(NoEcho)!TooNear
           \/ F(NoEcho)!Retreated \/ F(NoEcho)!NoChange
  BY DEF DecideMode, vars
<1>2. FP!dist = F(NoEcho)!dist
  BY DEF FP!dist, F!dist, FP!median3, F!median3, FP!MIN, FP!MAX, F!MIN, F!MAX
<1>3. FP!Found \/ FP!Far \/ FP!TooNear \/ FP!Retreated \/ FP!NoChange
  <2> HIDE DEF FP!dist, F!dist
  <2>1. QED
    BY <1>1, <1>2
    DEF F!Found, F!Far, F!TooNear, F!Retreated, F!NoChange, FP!Found, FP!Far, FP!TooNear,
        FP!Retreated, FP!NoChange, F!set_mode, FP!set_mode, F!MeasureAgain, FP!MeasureAgain
<1>4. QED
  BY <1>1, <1>3 DEF FP!Decide, FollowerCalls

LEMMA FollowStepInv ==
  ASSUME MotorsInv, MotorsInv', FP!Inv, [RoverNext]_roverVars
  PROVE  FP!Inv'
<1> USE FollowsAssumption, FollowersFiles DEF L, R
<1>0. /\ value[L] \in {-1, 0, 1} /\ value[R] \in {-1, 0, 1}
      /\ value'[L] \in {-1, 0, 1} /\ value'[R] \in {-1, 0, 1}
  BY DEF MotorsInv, Inv, TypeOK
<1>1. ASSUME UNCHANGED <<fpc, samples, mode, num_far_values>>,
             value'[L] = value[L], value'[R] = value[R]
      PROVE  FP!Inv'
  BY <1>1
  DEF FP!Inv, FP!TypeOK, FP!Starting, FP!Reading, FP!NoneMeasured, FP!FarCounter,
      FP!HalfTold, FP!MotorsMatchMode, FP!LeftOf, FP!RightOf
<1>2. ASSUME ~Follows PROVE FP!Inv'
  <2>1. FollowerUntouched
    BY <1>2, OthersUntouch DEF MotorsInv, RoverNext
  <2>2. QED
    BY <1>1, <2>1 DEF FollowerUntouched, followVars
<1>3. CASE OpenDevices
  BY <1>1, <1>3 DEF OpenDevices, OpenAs, vars
<1>4. CASE CheckDevices \/ TellLeft \/ TellRight
  <2>1. mode \in F(NoEcho)!Modes
    BY DEF MotorsInv, FollowerInv
  <2>2. CheckDevices => FP!Start
    BY DEF CheckDevices, FollowerCalls, MotorsInv, FollowerInv, vars, FP!Start, FP!set_mode
  <2>3. TellLeft => FP!WriteLeft
    BY <2>1, WrittenSigns, ModesAreSigns
    DEF TellLeft, WriteBytes, FollowerCalls, MotorsInv, FollowerInv, Inv, TypeOK, FP!WriteLeft,
        FP!LeftOf, F!LeftOf, FP!MOTOR_GO, FP!MOTOR_STOP, FP!MOTOR_BACK, F!MOTOR_GO,
        F!MOTOR_STOP, F!MOTOR_BACK
  <2>4. TellRight => FP!WriteRight
    BY <2>1, WrittenSigns, ModesAreSigns
    DEF TellRight, WriteBytes, FollowerCalls, MotorsInv, FollowerInv, Inv, TypeOK, FP!WriteRight,
        FP!RightOf, F!RightOf, FP!MOTOR_GO, FP!MOTOR_STOP, FP!MOTOR_BACK, F!MOTOR_GO,
        F!MOTOR_STOP, F!MOTOR_BACK
  <2>5. QED
    BY <1>4, <2>2, <2>3, <2>4, FP!NextInv DEF FP!Next, FP!Program
<1>5. CASE MeasureOnce
  <2>1. PICK d \in Distances : samples' = Append(samples, d)
    BY <1>5 DEF MeasureOnce
  <2>2. /\ fpc = "read" /\ fpc' = (IF Len(samples) = 2 THEN "decide" ELSE "read")
        /\ UNCHANGED <<mode, num_far_values, value>>
    BY <1>5 DEF MeasureOnce, FollowerCalls, vars
  <2>3. samples \in Seq(Distances) /\ Len(samples) <= 2
    BY <2>2 DEF FP!Inv, FP!TypeOK, FP!Reading
  <2>4. samples' \in Seq(Distances) /\ Len(samples') = Len(samples) + 1 /\ Len(samples) \in Nat
    BY <2>1, <2>3
  <2>5. fpc' \in {"read", "decide"} /\ Len(samples') <= 3
        /\ (fpc' = "decide" => Len(samples') = 3) /\ (fpc' = "read" => Len(samples') <= 2)
    <3> DEFINE n == Len(samples)  m == Len(samples')
    <3>1. m = n + 1 /\ n \in Nat /\ n <= 2
      BY <2>3, <2>4
    <3>2. fpc' = IF n = 2 THEN "decide" ELSE "read"
      BY <2>2
    <3> HIDE DEF n, m
    <3>3. fpc' \in {"read", "decide"} /\ m <= 3
        /\ (fpc' = "decide" => m = 3) /\ (fpc' = "read" => m <= 2)
      BY <3>1, <3>2
    <3>4. QED
      BY <3>3 DEF m
  <2>6. QED
    BY <2>2, <2>4, <2>5
    DEF FP!Inv, FP!TypeOK, FP!Starting, FP!Reading, FP!NoneMeasured, FP!FarCounter,
        FP!HalfTold, FP!MotorsMatchMode, FP!LeftOf, FP!RightOf
<1>6. CASE DecideMode
  BY <1>6, DecidesAsFollow, FP!DecideInv
<1>7. CASE KillFollower \/ CloseFollower \/ RestartFollower
  <2>1. /\ fpc' \in {"exit", "start"}
        /\ samples' = <<>> /\ mode' = "ROTATE" /\ num_far_values' = 0
    BY <1>7
    DEF KillFollower, CloseFollower, RestartFollower, FollowerCalls, followVars, MotorsInv,
        FollowerInv
  <2>2. samples' \in Seq(Distances) /\ Len(samples') = 0
    BY <2>1
  <2>3. QED
    BY <1>0, <2>1, <2>2
    DEF FP!Inv, FP!TypeOK, FP!Starting, FP!Reading, FP!NoneMeasured, FP!FarCounter,
        FP!HalfTold, FP!MotorsMatchMode, FP!LeftOf, FP!RightOf, FP!Modes, FP!MOTOR_GO,
        FP!MOTOR_STOP, FP!MOTOR_BACK
<1>8. QED
  BY <1>2, <1>3, <1>4, <1>5, <1>6, <1>7 DEF Follows

LEMMA FollowInvariant == RoverSpec => []FP!Inv
<1>1. RoverInit => FP!Inv
  <2>1. RoverInit => FP!Init
    BY DEF RoverInit, F!Init, FP!Init, F!MOTOR_STOP, FP!MOTOR_STOP
  <2>2. QED
    BY <2>1, FollowsAssumption, FP!InitInv
<1>2. MotorsInv /\ MotorsInv' /\ FP!Inv /\ [RoverNext]_roverVars => FP!Inv'
  BY FollowStepInv
<1>3. QED
  BY <1>1, <1>2, RoverInvariant, PTL DEF RoverSpec

(* Over the real drivers, killed and restarted as often as may be, the     *)
(* controller keeps what it keeps by itself: at most three samples, and    *)
(* a full count of far measurements ahead of every target it loses.        *)
RoverCountsAsFollow == FP!TypeOK /\ FP!FarCounter /\ FP!MotorsMatchMode

(* The counter and the samples, of the controller on the rover.            *)
THEOREM RoverFarCounter == RoverSpec => []RoverCountsAsFollow
<1>1. FP!Inv => RoverCountsAsFollow
  BY DEF FP!Inv, RoverCountsAsFollow
<1>2. QED
  BY <1>1, FollowInvariant, PTL

(* And no single sample decides, unless it is killed in between.           *)
DecidedByTwo ==
  /\ FP!TwoUpTo(AVG_DIST_UM) => mode' = "FOLLOW_BACK"
  /\ ~FP!TwoUpTo(AVG_DIST_UM) /\ FP!TwoUpTo(MAX_DIST_UM) => mode' = "FOLLOW_GO"
  /\ ~FP!TwoUpTo(MAX_DIST_UM) =>
       \/ mode' = mode
       \/ mode' = "ROTATE" /\ num_far_values' = NUM_FAR_VALUES

RoverTwoSamples ==
  [][fpc = "decide" /\ fpc' \notin {"decide", "exit"} => DecidedByTwo]_roverVars

(* The decision table of the loop holds over the real drivers.             *)
THEOREM RoverTwoSamplesDecide == RoverSpec => RoverTwoSamples
<1>1. MotorsInv /\ FP!Inv /\ [RoverNext]_roverVars =>
        [fpc = "decide" /\ fpc' \notin {"decide", "exit"} => DecidedByTwo]_roverVars
  <2> SUFFICES ASSUME MotorsInv, FP!Inv, RoverNext,
                      fpc = "decide", fpc' \notin {"decide", "exit"}
               PROVE  DecidedByTwo
    OBVIOUS
  <2>1. DecideMode
    <3>1. CASE ~Follows
      BY <3>1, OthersUntouch DEF MotorsInv, RoverNext, FollowerUntouched, followVars
    <3>2. CASE Follows
      BY <3>2
      DEF Follows, OpenDevices, CheckDevices, TellLeft, TellRight, MeasureOnce, KillFollower,
          CloseFollower, RestartFollower, FollowerCalls
    <3>3. QED
      BY <3>1, <3>2
  <2>2. FP!Decide
    BY <2>1, DecidesAsFollow
  <2>3. /\ AVG_DIST_UM \in Int /\ MAX_DIST_UM \in Int /\ AVG_DIST_UM <= MAX_DIST_UM
    BY RoverAssumption
  <2>4. /\ FP!dist \in Int
        /\ FP!dist <= AVG_DIST_UM <=> FP!TwoUpTo(AVG_DIST_UM)
        /\ FP!dist <= MAX_DIST_UM <=> FP!TwoUpTo(MAX_DIST_UM)
    BY <2>3, FollowsAssumption, FP!DistUpTo DEF FP!Inv
  <2> HIDE DEF FP!dist
  <2>5. CASE FP!dist <= AVG_DIST_UM
    BY <2>2, <2>3, <2>4, <2>5, FollowsAssumption, FP!DecideNear DEF DecidedByTwo
  <2>6. CASE AVG_DIST_UM < FP!dist /\ FP!dist <= MAX_DIST_UM
    BY <2>2, <2>3, <2>4, <2>6, FollowsAssumption, FP!DecideInSight DEF DecidedByTwo
  <2>7. CASE MAX_DIST_UM < FP!dist
    BY <2>2, <2>3, <2>4, <2>7, FollowsAssumption, FP!DecideFar DEF DecidedByTwo
  <2>8. QED
    BY <2>3, <2>4, <2>5, <2>6, <2>7
<1>2. QED
  BY <1>1, RoverInvariant, FollowInvariant, PTL DEF RoverSpec, RoverTwoSamples
-----------------------------------------------------------------------------
(* The sensor under the controller and the test program.  Which pins each  *)
(* of them has at each place of the handlers, ...                          *)
SensorPinInv ==
  /\ sowner \in [S!Pins -> SensorFiles \cup {Free}]
  /\ spc \in [SensorFiles -> S!Places]
  /\ serr1 \in [SensorFiles -> BOOLEAN]
  /\ \A f \in SensorFiles :
       /\ spc[f] = "request_trig" /\ ~serr1[f] => sowner["echo"] = f
       /\ spc[f] \in {"direction", "undo_trig", "open", "close_echo"} =>
            sowner["echo"] = f /\ sowner["trig"] = f
       /\ spc[f] = "undo_echo" => sowner["echo"] = f
       /\ spc[f] = "close_trig" => sowner["trig"] = f

(* ... and, when no request was refused and nothing fails by itself, that  *)
(* each claim and each increment of driver_lock has a handler behind it.   *)
CountOf(f) == IF spc[f] \in S!Permitted \cup {"deny"} THEN 1 ELSE 0

Counts ==
  /\ driver_lock = CountOf(Follower) + CountOf(Tester) - 1
  /\ \A f \in SensorFiles :
       /\ ~serr1[f]
       /\ spc[f] \notin {"undo_trig", "undo_echo"}
       /\ sowner["echo"] = f =>
            spc[f] \in {"request_trig", "direction", "open", "close_echo"}
       /\ sowner["trig"] = f => spc[f] \in {"direction", "open", "close_echo", "close_trig"}

CountInv == refused = FALSE /\ SensorFaults = {} => Counts

LEMMA SensorIdle ==
  ASSUME SensorPinInv, CountInv PROVE SensorGivenBack
<1> SUFFICES ASSUME ~refused, SensorFaults = {}, \A f \in SensorFiles : spc[f] = "idle"
             PROVE  driver_lock = -1 /\ \A p \in S!Pins : sowner[p] = Free
  BY DEF SensorGivenBack
<1>1. Counts
  BY DEF CountInv
<1>2. CountOf(Follower) = 0 /\ CountOf(Tester) = 0
  BY DEF CountOf, SensorFiles, S!Permitted
<1>3. QED
  BY <1>1, <1>2 DEF Counts, SensorPinInv, S!Pins

LEMMA InitSensor == RoverInit => SensorPinInv /\ CountInv
BY RoverAssumption
DEF RoverInit, S!Init, SensorPinInv, CountInv, Counts, CountOf, S!Pins, S!Places, S!Permitted,
    SensorFiles

(* A step of the sensor driver, of whatever file.                          *)
LEMMA SensorSteps ==
  ASSUME SensorPinInv, S!Next PROVE SensorPinInv'
<1> USE RoverAssumption
    DEF SensorPinInv, S!Goto, S!Pins, S!Places, S!Permitted, S!Closing
<1>1. ASSUME NEW f \in SensorFiles, S!TryOpen(f) \/ S!Deny(f) \/ S!CloseUnlock(f)
      PROVE  SensorPinInv'
  BY <1>1 DEF S!TryOpen, S!Deny, S!CloseUnlock
<1>2. ASSUME NEW f \in SensorFiles, S!Kmalloc(f) \/ S!SetDirections(f) PROVE SensorPinInv'
  BY <1>2 DEF S!Kmalloc, S!SetDirections, S!ReturnEIO
<1>3. ASSUME NEW f \in SensorFiles, S!RequestEcho(f) PROVE SensorPinInv'
  BY <1>3 DEF S!RequestEcho, S!GpioRequest, S!Requested
<1>4. ASSUME NEW f \in SensorFiles, S!RequestTrig(f) PROVE SensorPinInv'
  BY <1>4 DEF S!RequestTrig, S!GpioRequest, S!Requested, S!ReturnEIO
<1>5. ASSUME NEW f \in SensorFiles, S!UndoTrig(f) \/ S!UndoEcho(f) PROVE SensorPinInv'
  BY <1>5 DEF S!UndoTrig, S!UndoEcho, S!GpioFree, S!ReturnEIO
<1>6. ASSUME NEW f \in SensorFiles, S!CloseEcho(f) \/ S!CloseTrig(f) PROVE SensorPinInv'
  BY <1>6 DEF S!CloseEcho, S!CloseTrig, S!GpioFree
<1>7. CASE S!Reload
  BY <1>7 DEF S!Reload
<1>8. QED
  BY <1>1, <1>2, <1>3, <1>4, <1>5, <1>6, <1>7 DEF S!Next, S!DriverOpen, S!DriverClose

(* What the programs do to the sensor beside its handlers.                 *)
SensorCall(f) == S!TryOpen(f) \/ S!CloseUnlock(f)

SensorHandler(f) ==
  \/ S!Deny(f) \/ S!Kmalloc(f) \/ S!RequestEcho(f) \/ S!RequestTrig(f)
  \/ S!SetDirections(f) \/ S!UndoTrig(f) \/ S!UndoEcho(f)
  \/ S!CloseEcho(f) \/ S!CloseTrig(f)

LEMMA SensorMoves ==
  ASSUME [RoverNext]_roverVars
  PROVE  \/ \E f \in SensorFiles :
              \/ SensorCall(f) /\ UNCHANGED refused
              \/ SensorHandler(f) /\ refused' = (refused \/ IsSensorRefused(f))
         \/ S!Reload /\ UNCHANGED refused
         \/ UNCHANGED sensorVars /\ (Kernel \/ UNCHANGED refused)
<1> USE DEF SensorCall, SensorHandler, SensorFiles
<1>1. CASE DriveNext /\ UNCHANGED <<sensorVars, followVars>>
  BY <1>1 DEF DriveNext
<1>2. CASE Follows /\ UNCHANGED <<at, want, refused>>
  BY <1>2
  DEF Follows, OpenDevices, CheckDevices, TellLeft, TellRight, MeasureOnce, DecideMode,
      KillFollower, CloseFollower, RestartFollower
<1>3. CASE Tests /\ UNCHANGED <<at, want, refused>>
  BY <1>3 DEF Tests
<1>4. CASE SensorKernel
  BY <1>4 DEF SensorKernel
<1>5. CASE UNCHANGED roverVars
  BY <1>5 DEF roverVars, driveVars
<1>6. QED
  BY <1>1, <1>2, <1>3, <1>4, <1>5 DEF RoverNext

LEMMA NextSensorPinInv ==
  ASSUME SensorPinInv, [RoverNext]_roverVars PROVE SensorPinInv'
<1>1. S!Next \/ UNCHANGED sensorVars
  BY SensorMoves DEF SensorCall, SensorHandler, S!Next, S!DriverOpen, S!DriverClose
<1>2. CASE UNCHANGED sensorVars
  BY <1>2 DEF sensorVars, SensorPinInv
<1>3. QED
  BY <1>1, <1>2, SensorSteps

LEMMA CountSteps ==
  ASSUME SensorPinInv, Counts, SensorFaults = {}, NEW f \in SensorFiles,
         SensorCall(f) \/ (SensorHandler(f) /\ ~IsSensorRefused(f))
  PROVE  Counts'
<1> USE RoverAssumption
    DEF SensorPinInv, Counts, CountOf, IsSensorRefused, S!Goto, S!Pins, S!Permitted, SensorFiles
<1>1. CASE S!TryOpen(f) \/ S!Deny(f) \/ S!CloseUnlock(f)
  BY <1>1 DEF S!TryOpen, S!Deny, S!CloseUnlock
<1>2. CASE S!Kmalloc(f) \/ S!SetDirections(f)
  BY <1>2 DEF S!Kmalloc, S!SetDirections
<1>3. CASE S!RequestEcho(f) /\ ~IsSensorRefused(f)
  BY <1>3 DEF S!RequestEcho, S!GpioRequest, S!Requested, Requested
<1>4. CASE S!RequestTrig(f) /\ ~IsSensorRefused(f)
  BY <1>4 DEF S!RequestTrig, S!GpioRequest, S!Requested, Requested
<1>5. CASE S!UndoTrig(f) \/ S!UndoEcho(f)
  BY <1>5 DEF S!UndoTrig, S!UndoEcho
<1>6. CASE S!CloseEcho(f) \/ S!CloseTrig(f)
  BY <1>6 DEF S!CloseEcho, S!CloseTrig, S!GpioFree
<1>7. QED
  BY <1>1, <1>2, <1>3, <1>4, <1>5, <1>6 DEF SensorCall, SensorHandler

LEMMA NextCountInv ==
  ASSUME SensorPinInv, CountInv, [RoverNext]_roverVars PROVE CountInv'
<1> SUFFICES ASSUME refused' = FALSE, SensorFaults = {} PROVE Counts'
  BY DEF CountInv
<1>1. Counts
  <2>1. ~refused
    BY SensorMoves DEF Kernel
  <2>2. QED
    BY <2>1 DEF CountInv
<1>2. ASSUME NEW f \in SensorFiles, SensorCall(f) PROVE Counts'
  BY <1>1, <1>2, CountSteps
<1>3. ASSUME NEW f \in SensorFiles, SensorHandler(f), refused' = (refused \/ IsSensorRefused(f))
      PROVE  Counts'
  BY <1>1, <1>3, CountSteps
<1>4. CASE S!Reload
  BY <1>1, <1>4 DEF S!Reload, Counts, CountOf, SensorFiles, S!Permitted
<1>5. CASE UNCHANGED sensorVars
  BY <1>1, <1>5 DEF sensorVars, Counts, CountOf
<1>6. QED
  BY <1>2, <1>3, <1>4, <1>5, SensorMoves

(* To the sensor driver, too, the programs do only what its own            *)
(* specification allows, and what is proved of it holds for the rover.     *)
THEOREM RoverImplementsSensorOpen == RoverSpec => S!Spec
<1>1. RoverInit => S!Init
  BY DEF RoverInit
<1>2. [RoverNext]_roverVars => [S!Next]_(S!vars)
  BY SensorMoves
  DEF SensorCall, SensorHandler, S!Next, S!DriverOpen, S!DriverClose, sensorVars, S!vars
<1>3. QED
  BY <1>1, <1>2, PTL DEF RoverSpec, S!Spec

(* The controller's file of the sensor stays open for as long as it is in  *)
(* its loop.                                                               *)
SensorInLoop == InLoop => spc[Follower] = "open"

LEMMA NextSensorInLoop ==
  ASSUME SensorPinInv, SensorInLoop, [RoverNext]_roverVars PROVE SensorInLoop'
<1> USE RoverAssumption DEF SensorInLoop, InLoop, SensorPinInv, SensorFiles, S!Goto
<1>1. CASE DriveNext /\ UNCHANGED <<sensorVars, followVars>>
  BY <1>1 DEF sensorVars, followVars
<1>2. CASE OpenDevices \/ CloseFollower
  BY <1>2 DEF OpenDevices, CloseFollower, FollowerCalls, followVars
<1>3. CASE CheckDevices \/ TellLeft \/ TellRight \/ MeasureOnce \/ KillFollower \/ RestartFollower
  BY <1>3
  DEF CheckDevices, HasAllOpen, TellLeft, TellRight, MeasureOnce, KillFollower, RestartFollower,
      FollowerCalls, sensorVars
<1>4. CASE DecideMode
  BY <1>4 DEF DecideMode, FollowerCalls, sensorVars
<1>5. CASE Tests
  BY <1>5 DEF Tests, S!TryOpen, S!CloseUnlock, followVars
<1>6. CASE SensorKernel
  <2>1. \A f \in SensorFiles : SensorHandler(f) =>
          spc[f] # "open" /\ \A g \in SensorFiles \ {f} : spc'[g] = spc[g]
    BY DEF SensorHandler, S!Deny, S!Kmalloc, S!RequestEcho, S!RequestTrig, S!SetDirections,
           S!UndoTrig, S!UndoEcho, S!CloseEcho, S!CloseTrig, S!ReturnEIO
  <2>2. QED
    BY <1>6, <2>1 DEF SensorKernel, SensorHandler, S!Reload, followVars
<1>7. CASE UNCHANGED roverVars
  BY <1>7 DEF roverVars, sensorVars, followVars
<1>8. QED
  BY <1>1, <1>2, <1>3, <1>4, <1>5, <1>6, <1>7 DEF RoverNext, Follows

SensorInv == SensorPinInv /\ CountInv /\ SensorInLoop

LEMMA SensorInvariant == RoverSpec => []SensorInv
<1>1. RoverInit => SensorInv
  BY InitSensor DEF SensorInv, RoverInit, F!Init, SensorInLoop, InLoop
<1>2. SensorInv /\ [RoverNext]_roverVars => SensorInv'
  BY NextSensorPinInv, NextCountInv, NextSensorInLoop DEF SensorInv
<1>3. QED
  BY <1>1, <1>2, PTL DEF RoverSpec

(* In its loop the controller has the sensor to itself.                    *)
THEOREM RoverLoopHasSensor == RoverSpec => []LoopHasSensor
<1>1. SensorInv => LoopHasSensor
  BY DEF SensorInv, SensorPinInv, SensorInLoop, LoopHasSensor, S!Pins, SensorFiles
<1>2. QED
  BY <1>1, SensorInvariant, PTL

(* Without a refused request the sensor is free and unlocked whenever      *)
(* nobody has it.                                                          *)
THEOREM RoverSensorGivenBack == RoverSpec => []SensorGivenBack
<1>1. SensorInv => SensorGivenBack
  BY SensorIdle DEF SensorInv
<1>2. QED
  BY <1>1, SensorInvariant, PTL
-----------------------------------------------------------------------------
(* What is proved of the two drivers on their own is so on the rover.      *)
THEOREM RoverSharesTheMotors ==
  RoverSpec => /\ [](OpenOwnsPins /\ MotorObeysLastWrite /\ BothHighOnlyWhenReversing)
               /\ ClaimEndsByItsOwner /\ LeftIsExclusive /\ RightIsExclusive
BY RoverImplementsMotorDriver, MotorOpenOwnsPins, MotorObeys, MotorBothHigh,
   MotorClaimEndsByItsOwner, MotorLeftExclusive, MotorRightExclusive, PTL

SP == INSTANCE SensorOpenProofs WITH Files <- SensorFiles, Faults <- SensorFaults,
       owner <- sowner, pc <- spc, err1 <- serr1

LEMMA SensorsAssumption == SP!SensorAssumption
<1>1. IsFiniteSet({Follower}) /\ SensorFiles = {Follower} \cup {Tester}
  BY FS_EmptySet, FS_AddElement DEF SensorFiles
<1>2. IsFiniteSet(SensorFiles)
  BY <1>1, FS_AddElement
<1>3. SP!IsFiniteSet(SensorFiles)
  BY <1>2 DEF SP!IsFiniteSet, IsFiniteSet
<1>4. QED
  BY <1>3, RoverAssumption DEF SP!SensorAssumption, SP!FaultKinds

(* The sensor driver of the proofs is the one of the composition.          *)
LEMMA SameDriver ==
  ASSUME NEW f \in SensorFiles, SensorCall(f) \/ SensorHandler(f)
  PROVE  SP!DriverOpen(f) \/ SP!DriverClose(f)
<1> USE DEF S!Goto, SP!Goto, S!ReturnEIO, SP!ReturnEIO, S!Requested, SP!Requested,
            S!GpioRequest, SP!GpioRequest, S!GpioFree, SP!GpioFree
<1>1. S!TryOpen(f) \/ S!Deny(f) => SP!TryOpen(f) \/ SP!Deny(f)
  BY DEF S!TryOpen, S!Deny, SP!TryOpen, SP!Deny
<1>2. S!Kmalloc(f) \/ S!SetDirections(f) => SP!Kmalloc(f) \/ SP!SetDirections(f)
  BY DEF S!Kmalloc, S!SetDirections, SP!Kmalloc, SP!SetDirections
<1>3. S!RequestEcho(f) => SP!RequestEcho(f)
  BY DEF S!RequestEcho, SP!RequestEcho
<1>4. S!RequestTrig(f) => SP!RequestTrig(f)
  BY DEF S!RequestTrig, SP!RequestTrig
<1>5. S!UndoTrig(f) \/ S!UndoEcho(f) => SP!UndoTrig(f) \/ SP!UndoEcho(f)
  BY DEF S!UndoTrig, S!UndoEcho, SP!UndoTrig, SP!UndoEcho
<1>6. S!CloseUnlock(f) \/ S!CloseEcho(f) \/ S!CloseTrig(f)
        => SP!CloseUnlock(f) \/ SP!CloseEcho(f) \/ SP!CloseTrig(f)
  BY DEF S!CloseUnlock, S!CloseEcho, S!CloseTrig, SP!CloseUnlock, SP!CloseEcho, SP!CloseTrig
<1>7. QED
  BY <1>1, <1>2, <1>3, <1>4, <1>5, <1>6
  DEF SensorCall, SensorHandler, SP!DriverOpen, SP!DriverClose

(* Every open file of the sensor owns its pins, a refusal has a culprit,    *)
(* and it is the exclusive device, whoever of the rover uses it and        *)
(* whenever the controller is killed.                                      *)
THEOREM RoverSharesTheSensor ==
  RoverSpec => /\ [](SP!LockCount /\ SP!OpenOwnsPins)
               /\ SP!ClaimEndsByItsOwner /\ SP!DenialJustified /\ SP!ImplementsExclusiveOpen
<1>1. RoverInit => SP!Init
  BY DEF RoverInit, S!Init, SP!Init, S!Pins, SP!Pins
<1>2. [RoverNext]_roverVars => [SP!Next]_(SP!vars)
  <2> SUFFICES ASSUME [RoverNext]_roverVars PROVE SP!Next \/ UNCHANGED SP!vars
    OBVIOUS
  <2>1. CASE \E f \in SensorFiles : SensorCall(f) \/ SensorHandler(f)
    BY <2>1, SameDriver DEF SP!Next
  <2>2. CASE S!Reload
    BY <2>2 DEF S!Reload, SP!Next, SP!Reload
  <2>3. CASE UNCHANGED sensorVars
    BY <2>3 DEF sensorVars, SP!vars
  <2>4. QED
    BY <2>1, <2>2, <2>3, SensorMoves
<1>3. RoverSpec => SP!Spec
  BY <1>1, <1>2, PTL DEF RoverSpec, SP!Spec
<1>4. QED
  BY <1>3, SensorsAssumption, SP!SensorLockCount, SP!SensorOpenOwnsPins,
     SP!SensorClaimEndsByItsOwner, SP!SensorDenialJustified, SP!SensorRefines, PTL
=============================================================================
