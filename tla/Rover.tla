------------------------------- MODULE Rover -------------------------------
(***************************************************************************)
(* Everything that runs on the rover at a time: the controller follow.c,   *)
(* copies of the remote control and the test program of the sensor         *)
(* (raspi/treiber/sensor_treiber/test/sensor_test.c), started, refused,    *)
(* killed and started again at any time over the motor driver and the      *)
(* sensor driver.  The programs know nothing of each other.                *)
(*                                                                         *)
(* The controller's decisions are Follow's, the sensor's handlers are      *)
(* SensorOpen's, motors and remote control are Drive's; what is new here   *)
(* is main of follow.c up to its loop, and its calls to the devices.       *)
(***************************************************************************)
EXTENDS Drive

CONSTANTS
  Follower, Tester,   \* the controller and the test program
  SensorFaults,       \* of SensorOpen
  AVG_DIST_UM, MAX_DIST_UM, NUM_FAR_VALUES, Distances, NoEcho   \* of Follow

VARIABLES
  driver_lock, sowner, spc, serr1, abandoned,        \* of SensorOpen
  fpc, samples, mode, num_far_values,                \* of Follow
  opened     \* how many of its three opens the controller has made

SensorFiles == {Follower, Tester}

S == INSTANCE SensorOpen WITH Files <- SensorFiles, Faults <- SensorFaults,
       owner <- sowner, pc <- spc, err1 <- serr1

(* The controller in front of some scene, which is another one at every    *)
(* read; what its motors were told is what its files hold.                 *)
F(scene) == INSTANCE Follow WITH pc <- fpc,
       left <- value[LeftFile(Follower)], right <- value[RightFile(Follower)]

followVars == <<fpc, samples, mode, num_far_values, opened>>
sensorVars == <<driver_lock, sowner, spc, serr1, abandoned>>
roverVars == <<driveVars, sensorVars, followVars>>

ASSUME RoverAssumption ==
  /\ Follower \notin Programs /\ Follower # Tester
  /\ Files = (Programs \cup {Follower}) \X {"left", "right"}
  /\ Free \notin SensorFiles /\ SensorFaults \subseteq {"kmalloc", "direction"}
  /\ AVG_DIST_UM \in Nat /\ MAX_DIST_UM \in Nat /\ AVG_DIST_UM <= MAX_DIST_UM
  /\ NUM_FAR_VALUES \in Nat \ {0}
  /\ Distances \subseteq Nat /\ NoEcho \notin Distances

RoverInit == DriveInit /\ S!Init /\ F(NoEcho)!Init /\ opened = 0
-----------------------------------------------------------------------------
(* follow.c                                                                *)

(* No handler is running for the controller.                               *)
FollowerCalls(place) ==
  /\ fpc = place
  /\ InUserMode(Follower)
  /\ spc[Follower] \in {"idle", "open"}

HasAllOpen ==
  /\ pc[LeftFile(Follower)] = "open"
  /\ pc[RightFile(Follower)] = "open"
  /\ spc[Follower] = "open"

(* The three opens, one after the other whatever the last one returned.    *)
OpenDevices ==
  /\ FollowerCalls("start")
  /\ \/ opened = 0 /\ OpenAs(LeftFile(Follower), "left") /\ UNCHANGED sensorVars
     \/ opened = 1 /\ OpenAs(RightFile(Follower), "right") /\ UNCHANGED sensorVars
     \/ opened = 2 /\ S!TryOpen(Follower) /\ UNCHANGED vars
  /\ opened' = opened + 1
  /\ UNCHANGED <<fpc, samples, mode, num_far_values>>

(* A bug the code does not have: the sensor is not checked.                *)
CheckMotors ==
  /\ FollowerCalls("start") /\ opened = 3
  /\ UNCHANGED <<vars, sensorVars, opened>>
  /\ UNCHANGED <<samples, mode, num_far_values>>
  /\ fpc' = IF pc[LeftFile(Follower)] = "open" /\ pc[RightFile(Follower)] = "open"
            THEN "write_left" ELSE "exit"

(* main goes into its loop if it has all three devices.                    *)
CheckDevices ==
  /\ FollowerCalls("start") /\ opened = 3
  /\ UNCHANGED <<vars, sensorVars, opened>>
  /\ UNCHANGED <<samples, mode, num_far_values>>
  /\ fpc' = IF HasAllOpen THEN "write_left" ELSE "exit"

(* The writes of set_mode.                                                 *)
TellLeft ==
  /\ FollowerCalls("write_left")
  /\ WriteBytes(LeftFile(Follower), IntBytes(F(NoEcho)!LeftOf(mode)), 4)
  /\ fpc' = "write_right"
  /\ UNCHANGED <<sensorVars, samples, mode, num_far_values, opened>>

(* A bug the code does not have: both values are the left motor's.         *)
TellRightTheSame ==
  /\ FollowerCalls("write_right")
  /\ WriteBytes(RightFile(Follower), IntBytes(F(NoEcho)!LeftOf(mode)), 4)
  /\ fpc' = "read"
  /\ samples' = <<>>
  /\ UNCHANGED <<sensorVars, mode, num_far_values, opened>>

TellRight ==
  /\ FollowerCalls("write_right")
  /\ WriteBytes(RightFile(Follower), IntBytes(F(NoEcho)!RightOf(mode)), 4)
  /\ fpc' = "read"
  /\ samples' = <<>>
  /\ UNCHANGED <<sensorVars, mode, num_far_values, opened>>

(* A read of the sensor that finds an echo, ...                            *)
MeasureOnce ==
  /\ FollowerCalls("read")
  /\ \E d \in Distances : samples' = Append(samples, d)
  /\ fpc' = IF Len(samples) = 2 THEN "decide" ELSE "read"
  /\ UNCHANGED <<vars, sensorVars, mode, num_far_values, opened>>

(* ... and what main makes of three of them.                               *)
DecideMode ==
  /\ FollowerCalls("decide")
  /\ UNCHANGED <<vars, sensorVars, opened>>
  /\ F(NoEcho)!Found \/ F(NoEcho)!Far \/ F(NoEcho)!TooNear
     \/ F(NoEcho)!Retreated \/ F(NoEcho)!NoChange
  /\ samples' = <<>>

(* The controller runs until a signal ends it, between two calls, and its  *)
(* memory is gone; ...                                                     *)
KillFollower ==
  /\ FollowerCalls(fpc) /\ fpc # "exit"
  /\ fpc' = "exit" /\ samples' = <<>> /\ mode' = "ROTATE" /\ num_far_values' = 0
  /\ UNCHANGED <<vars, sensorVars, opened>>

(* ... the kernel closes what it left open, and it can be started again.   *)
CloseFollower ==
  /\ FollowerCalls("exit")
  /\ \/ (Close(LeftFile(Follower)) \/ Close(RightFile(Follower))) /\ UNCHANGED sensorVars
     \/ S!CloseUnlock(Follower) /\ UNCHANGED vars
  /\ UNCHANGED followVars

RestartFollower ==
  /\ fpc = "exit"
  /\ pc[LeftFile(Follower)] = "idle" /\ pc[RightFile(Follower)] = "idle"
  /\ spc[Follower] = "idle"
  /\ fpc' = "start" /\ opened' = 0
  /\ UNCHANGED <<vars, sensorVars, samples, mode, num_far_values>>

Follows ==
  \/ OpenDevices \/ CheckDevices \/ TellLeft \/ TellRight
  \/ MeasureOnce \/ DecideMode \/ KillFollower \/ CloseFollower \/ RestartFollower
-----------------------------------------------------------------------------
(* sensor_test.c: open, one read, and the end of the program, by itself or *)
(* by a signal; the read changes nothing, and it can be started again.     *)
Tests == (S!TryOpen(Tester) \/ S!CloseUnlock(Tester)) /\ UNCHANGED <<vars, followVars>>

(* Is the next step of f a gpio_request of the sensor driver that fails?   *)
IsSensorRefused(f) ==
  \/ spc[f] = "request_echo" /\ Requested(sowner, "echo")
  \/ spc[f] = "request_trig" /\ Requested(sowner, "trig")

(* The sensor driver's handlers after the call, and reloading it.          *)
SensorKernel ==
  /\ \/ \E f \in SensorFiles :
          /\ \/ S!Deny(f) \/ S!Kmalloc(f) \/ S!RequestEcho(f) \/ S!RequestTrig(f)
             \/ S!SetDirections(f) \/ S!UndoTrig(f) \/ S!UndoEcho(f)
             \/ S!CloseEcho(f) \/ S!CloseTrig(f)
          /\ refused' = (refused \/ IsSensorRefused(f))
     \/ S!Reload /\ UNCHANGED refused
  /\ UNCHANGED <<vars, at, want, followVars>>

RoverNext ==
  \/ DriveNext /\ UNCHANGED <<sensorVars, followVars>>
  \/ (Follows \/ Tests) /\ UNCHANGED <<at, want, refused>>
  \/ SensorKernel

RoverSpec == RoverInit /\ [][RoverNext]_roverVars
-----------------------------------------------------------------------------
InLoop == fpc \in {"write_left", "write_right", "read", "decide"}

(* While the controller measures, the four pins are as its mode says, and  *)
(* stay so whatever the remote control, the test program and set_gpios.sh  *)
(* try meanwhile.                                                          *)
PinsMatchMode ==
  fpc \in {"read", "decide"} /\ InUserMode(Follower) =>
    Goes("left", F(NoEcho)!LeftOf(mode)) /\ Goes("right", F(NoEcho)!RightOf(mode))

(* The controller and a remote control are never both at the wheel: each   *)
(* opens the motors one by one, and what one has got the other misses.     *)
OneAtTheWheel == InLoop => \A d \in Programs : at[d] \notin Driving

(* In its loop the controller has the sensor to itself, although the       *)
(* driver unlocks the device before its pins are free.                     *)
LoopHasSensor ==
  InLoop => spc[Follower] = "open" /\ \A p \in S!Pins : sowner[p] = Follower

(* As long as no two users met at a pin and no call failed by itself, no   *)
(* program ends with anything kept: the sensor is unlocked and its pins    *)
(* are free when nobody has it, wherever the controller was killed.        *)
SensorGivenBack ==
  ~refused /\ SensorFaults = {} /\ (\A f \in SensorFiles : spc[f] = "idle") =>
    driver_lock = -1 /\ \A p \in S!Pins : sowner[p] = Free

(* Over the real drivers, and however often it is killed and restarted,    *)
(* the controller does nothing that Follow does not do.                    *)
RunsFollow ==
  [][\/ \E scene \in Distances \cup {NoEcho} : F(scene)!Program
     \/ fpc' = "exit" \/ (fpc = "exit" /\ fpc' = "start")]_(F(NoEcho)!program)
=============================================================================
