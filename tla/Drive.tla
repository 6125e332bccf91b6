------------------------------- MODULE Drive -------------------------------
(***************************************************************************)
(* The remote control (raspi/treiber/drive/drive.c) on top of the motor    *)
(* driver: several people may have it running at a time, it can be killed, *)
(* and started again.  Every system call is a step that begins a handler   *)
(* of MotorDriver, and the program goes on when the handler has returned.  *)
(*                                                                         *)
(* Of the second that a command lasts only the end matters: time is not    *)
(* modelled.  Input other than a command changes nothing.                  *)
(***************************************************************************)
EXTENDS MotorDriver

CONSTANT Programs   \* running copies of the program

MOTOR_GO == 1
MOTOR_STOP == 0
MOTOR_BACK == -1

(* What the keys f, b, l, r and s set the left and the right motor to.     *)
Commands ==
  {<<MOTOR_GO, MOTOR_GO>>, <<MOTOR_BACK, MOTOR_BACK>>, <<MOTOR_STOP, MOTOR_GO>>,
   <<MOTOR_GO, MOTOR_STOP>>, <<MOTOR_STOP, MOTOR_STOP>>}

(* The bytes of an int, and those found behind the null pointer that       *)
(* MOTOR_STOP is when it is passed as an address.                          *)
IntBytes(v) ==
  IF v = MOTOR_GO THEN <<1, 0, 0, 0>>
  ELSE IF v = MOTOR_STOP THEN <<0, 0, 0, 0>> ELSE <<255, 255, 255, 255>>

Nothing == <<>>

ASSUME DriveAssumption ==
  /\ Programs \X {"left", "right"} \subseteq Files
  /\ Motors = {"left", "right"}
  /\ {IntBytes(v) : v \in {MOTOR_GO, MOTOR_STOP, MOTOR_BACK}} \cup {Nothing} \subseteq Payloads
  /\ "copy" \in Faults

VARIABLES
  at,    \* where each program is: the last call it made, or the prompt
  want,  \* motor_left_val and motor_right_val
  refused \* history: has a gpio_request of the motor driver ever failed?

driveVars == <<owner, level, pc, dev, err1, value, line, at, want, refused>>

(* The files motor_left and motor_right of a program.                      *)
LeftFile(d) == <<d, "left">>
RightFile(d) == <<d, "right">>

DriveInit ==
  /\ Init
  /\ at = [d \in Programs |-> "start"]
  /\ want = [d \in Programs |-> <<MOTOR_STOP, MOTOR_STOP>>]
  /\ refused = FALSE

Advance(d, place) == at' = [at EXCEPT ![d] = place]

(* Is no handler running for the program?  It has one thread.              *)
InUserMode(d) == pc[LeftFile(d)] \in {"idle", "open"} /\ pc[RightFile(d)] \in {"idle", "open"}

At(d, place) == at[d] = place /\ InUserMode(d)
-----------------------------------------------------------------------------
OpenLeft(d) ==
  /\ At(d, "start")
  /\ OpenAs(LeftFile(d), "left")
  /\ Advance(d, "open_left")
  /\ UNCHANGED want

(* The right motor is opened even if the left one could not be.            *)
OpenRight(d) ==
  /\ At(d, "open_left")
  /\ OpenAs(RightFile(d), "right")
  /\ Advance(d, "open_right")
  /\ UNCHANGED want

(* A bug the code does not have: one motor is taken for enough.            *)
CheckEither(d) ==
  /\ At(d, "open_right")
  /\ Advance(d, IF pc[LeftFile(d)] = "open" \/ pc[RightFile(d)] = "open"
                THEN "prompt" ELSE "exit")
  /\ UNCHANGED <<vars, want>>

CheckOpen(d) ==
  /\ At(d, "open_right")
  /\ Advance(d, IF pc[LeftFile(d)] = "open" /\ pc[RightFile(d)] = "open"
                THEN "prompt" ELSE "exit")
  /\ UNCHANGED <<vars, want>>

(* A command key, and the write to the left motor.                         *)
Command(d) ==
  /\ At(d, "prompt")
  /\ \E c \in Commands :
       /\ want' = [want EXCEPT ![d] = c]
       /\ WriteBytes(LeftFile(d), IntBytes(c[1]), 4)
  /\ Advance(d, "write_left")

(* A bug the code does not have: the right motor gets the left one's value.*)
WriteRightSame(d) ==
  /\ At(d, "write_left")
  /\ WriteBytes(RightFile(d), IntBytes(want[d][1]), 4)
  /\ Advance(d, "write_right")
  /\ UNCHANGED want

WriteRight(d) ==
  /\ At(d, "write_left")
  /\ WriteBytes(RightFile(d), IntBytes(want[d][2]), 4)
  /\ Advance(d, "write_right")
  /\ UNCHANGED want

(* The one second for which the rover does as it was told.                 *)
Sleep(d) ==
  /\ At(d, "write_right")
  /\ Advance(d, "pulse")
  /\ UNCHANGED <<vars, want>>

(* The stop is written from the address 0: the copy faults at once.        *)
StopLeft(d) ==
  /\ At(d, "pulse")
  /\ WriteBytes(LeftFile(d), Nothing, 0)
  /\ Advance(d, "stop_left")
  /\ UNCHANGED want

(* A bug the code does not have: the left motor is stopped twice.          *)
StopLeftAgain(d) ==
  /\ At(d, "stop_left")
  /\ WriteBytes(LeftFile(d), Nothing, 0)
  /\ Advance(d, "stop_right")
  /\ UNCHANGED want

StopRight(d) ==
  /\ At(d, "stop_left")
  /\ WriteBytes(RightFile(d), Nothing, 0)
  /\ Advance(d, "stop_right")
  /\ UNCHANGED want

Prompt(d) ==
  /\ At(d, "stop_right")
  /\ Advance(d, "prompt")
  /\ UNCHANGED <<vars, want>>

Quit(d) ==
  /\ At(d, "prompt")
  /\ Close(LeftFile(d))
  /\ Advance(d, "close_left")
  /\ UNCHANGED want

QuitRight(d) ==
  /\ At(d, "close_left")
  /\ Close(RightFile(d))
  /\ Advance(d, "exit")
  /\ UNCHANGED want

(* A signal ends the program between two system calls.                     *)
Kill(d) ==
  /\ InUserMode(d)
  /\ at[d] # "exit"
  /\ Advance(d, "exit")
  /\ UNCHANGED <<vars, want>>

(* The kernel closes what a program that has ended left open, ...          *)
CloseOnExit(d) ==
  /\ At(d, "exit")
  /\ Close(LeftFile(d)) \/ Close(RightFile(d))
  /\ UNCHANGED <<at, want>>

(* ... and the program can be started again.                               *)
Restart(d) ==
  /\ at[d] = "exit"
  /\ pc[LeftFile(d)] = "idle" /\ pc[RightFile(d)] = "idle"
  /\ Advance(d, "start")
  /\ want' = [want EXCEPT ![d] = <<MOTOR_STOP, MOTOR_STOP>>]
  /\ UNCHANGED vars
-----------------------------------------------------------------------------
Program(d) ==
  \/ OpenLeft(d) \/ OpenRight(d) \/ CheckOpen(d) \/ Command(d) \/ WriteRight(d)
  \/ Sleep(d) \/ StopLeft(d) \/ StopRight(d) \/ Prompt(d)
  \/ Quit(d) \/ QuitRight(d) \/ Kill(d) \/ CloseOnExit(d) \/ Restart(d)

(* The steps of the driver's handlers after the call.                      *)
InHandler(f) ==
  \/ Request1(f) \/ Request2(f) \/ SetDirections(f) \/ UndoFirst(f) \/ UndoSecond(f)
  \/ SetFirst(f) \/ SetSecond(f) \/ CloseFirst(f) \/ CloseSecond(f)

(* Is the next step of f a gpio_request that fails?                        *)
IsRefused(f) ==
  \/ pc[f] = "request_1" /\ Requested(owner, Gpio1(dev[f]))
  \/ pc[f] = "request_2" /\ Requested(owner, Gpio2(dev[f]))

Kernel ==
  \E f \in Files :
    /\ InHandler(f)
    /\ refused' = (refused \/ IsRefused(f))
    /\ UNCHANGED <<at, want>>

OtherUser == SetGpios /\ UNCHANGED <<at, want>>

DriveNext ==
  \/ ((\E d \in Programs : Program(d)) \/ OtherUser) /\ UNCHANGED refused
  \/ Kernel

DriveSpec == DriveInit /\ [][DriveNext]_driveVars
-----------------------------------------------------------------------------
(* Does a motor go the way v says?                                         *)
Goes(motor, v) ==
  /\ level[Gpio1(motor)] = IF v > 0 THEN 1 ELSE 0
  /\ level[Gpio2(motor)] = IF v < 0 THEN 1 ELSE 0

(* During the second that a command lasts, both motors do what its key     *)
(* says, whatever other copies of the program and set_gpios.sh are doing.  *)
PulseAsCommanded ==
  \A d \in Programs : at[d] = "pulse" =>
    Goes("left", want[d][1]) /\ Goes("right", want[d][2])

(* Whenever a program asks for a command, the rover stands still: the stop *)
(* from the address 0 has worked on both motors.                           *)
StandsStillAtPrompt ==
  \A d \in Programs : at[d] = "prompt" =>
    Goes("left", MOTOR_STOP) /\ Goes("right", MOTOR_STOP)

Driving == {"prompt", "write_left", "write_right", "pulse", "stop_left", "stop_right"}

(* At most one program gets past its check of the two opens, although each *)
(* motor is opened by itself: nobody steers while somebody else does.      *)
OneDriver ==
  \A d, e \in Programs : at[d] \in Driving /\ at[e] \in Driving => d = e

(* As long as no two users met at a pin, nobody leaves a claim behind: a   *)
(* program that starts has none, and what is claimed belongs to            *)
(* set_gpios.sh or to a file that is open, being opened or being closed,   *)
(* however often programs failed half-way, quit, were killed in the middle *)
(* of a command and started again.                                         *)
NothingLeftClaimed ==
  refused \/ \A p \in Pins :
    /\ owner[p] \in Files => pc[owner[p]] # "idle"
    /\ \A d \in Programs : at[d] = "start" => owner[p] \notin {LeftFile(d), RightFile(d)}
=============================================================================
