------------------------------- MODULE Follow -------------------------------
(***************************************************************************)
(* The rover's controller raspi/follow/follow.c: it turns until it sees    *)
(* something, follows it, and backs off when it comes too near.  One       *)
(* thread; every read of the sensor and every write to a motor is a step   *)
(* of its own, so that the scene in front of the sensor can change and the *)
(* two motors can disagree in between.                                     *)
(*                                                                         *)
(* The sensor and the motors are seen here through their device files      *)
(* only.  A read that finds no echo returns -EIO, and get_distance tries   *)
(* again for as long as that lasts.                                        *)
(*                                                                         *)
(* Not modelled: the log line of the loop, and get_stable_distance and     *)
(* MIN_DIST_UM, which nothing uses.                                        *)
(***************************************************************************)
EXTENDS Integers, FiniteSets, Sequences, Median

CONSTANTS
  AVG_DIST_UM,     \* up to here the rover backs off
  MAX_DIST_UM,     \* up to here it sees something to follow
  NUM_FAR_VALUES,  \* so many far measurements end following
  Distances,       \* what the sensor may measure
  NoEcho           \* the scene in which a read fails

ASSUME FollowAssumption ==
  /\ AVG_DIST_UM \in Nat /\ MAX_DIST_UM \in Nat /\ AVG_DIST_UM <= MAX_DIST_UM
  /\ NUM_FAR_VALUES \in Nat \ {0}
  /\ Distances \subseteq Nat
  /\ NoEcho \notin Distances

VARIABLES
  scene,           \* the environment: the distance ahead, or NoEcho
  pc,              \* "start", "read", "decide", "write_left", "write_right", "exit"
  samples,         \* what get_stable_distance_med3 has read so far
  mode,            \* main's local, FOLLOW_STOP is never assigned
  num_far_values,  \* main's local
  left, right      \* the last value each motor accepted, 0 after its open

vars == <<scene, pc, samples, mode, num_far_values, left, right>>
program == <<pc, samples, mode, num_far_values, left, right>>

MOTOR_GO == 1
MOTOR_STOP == 0
MOTOR_BACK == -1

Modes == {"ROTATE", "FOLLOW_GO", "FOLLOW_BACK"}

(* mode_motor_vals of set_mode                                             *)
LeftOf(m) ==
  CASE m = "ROTATE"      -> MOTOR_STOP
    [] m = "FOLLOW_GO"   -> MOTOR_GO
    [] m = "FOLLOW_BACK" -> MOTOR_BACK

RightOf(m) == IF m = "FOLLOW_BACK" THEN MOTOR_BACK ELSE MOTOR_GO

dist == median3(samples[1], samples[2], samples[3])

-----------------------------------------------------------------------------
Init ==
  /\ scene \in Distances \cup {NoEcho}
  /\ pc = "start"
  /\ samples = <<>>
  /\ mode = "ROTATE"
  /\ num_far_values = 0
  /\ left = MOTOR_STOP
  /\ right = MOTOR_STOP

(* set_mode up to its first write; the writes follow, the left motor first.*)
set_mode(newmode) == mode' = newmode /\ pc' = "write_left"

(* main up to its loop: exit when a device cannot be opened.               *)
Start ==
  /\ pc = "start"
  /\ \/ set_mode("ROTATE")
     \/ pc' = "exit" /\ UNCHANGED mode
  /\ UNCHANGED <<scene, samples, num_far_values, left, right>>

WriteLeft ==
  /\ pc = "write_left"
  /\ left' = LeftOf(mode)
  /\ pc' = "write_right"
  /\ UNCHANGED <<scene, samples, mode, num_far_values, right>>

WriteRight ==
  /\ pc = "write_right"
  /\ right' = RightOf(mode)
  /\ pc' = "read"
  /\ samples' = <<>>
  /\ UNCHANGED <<scene, mode, num_far_values, left>>

(* get_distance: one successful read of the three.  A failed read changes  *)
(* nothing and is tried again.                                             *)
ReadDistance ==
  /\ pc = "read"
  /\ scene # NoEcho
  /\ samples' = Append(samples, scene)
  /\ pc' = IF Len(samples) = 2 THEN "decide" ELSE "read"
  /\ UNCHANGED <<scene, mode, num_far_values, left, right>>

-----------------------------------------------------------------------------
(* The body of main's loop, branch by branch.                              *)

(* No branch, or a branch without set_mode: the next measurement.          *)
MeasureAgain == pc' = "read" /\ UNCHANGED mode

(* A bug the code does not have: the counter is not reset.                 *)
FoundKeepsCount ==
  /\ mode = "ROTATE"
  /\ dist <= MAX_DIST_UM
  /\ num_far_values' = num_far_values
  /\ set_mode(IF dist <= AVG_DIST_UM THEN "FOLLOW_BACK" ELSE "FOLLOW_GO")

(* Something came into sight: follow it or back off.                       *)
Found ==
  /\ mode = "ROTATE"
  /\ dist <= MAX_DIST_UM
  /\ num_far_values' = 0
  /\ set_mode(IF dist <= AVG_DIST_UM THEN "FOLLOW_BACK" ELSE "FOLLOW_GO")

(* A bug the code does not have: the counter is local to the loop's body.  *)
FarCountsAfresh ==
  /\ mode # "ROTATE"
  /\ dist > MAX_DIST_UM
  /\ num_far_values' = 1
  /\ IF 1 >= NUM_FAR_VALUES THEN set_mode("ROTATE") ELSE MeasureAgain

(* A far measurement while following; a near one does not reset the count. *)
Far ==
  /\ mode # "ROTATE"
  /\ dist > MAX_DIST_UM
  /\ num_far_values' = num_far_values + 1
  /\ IF num_far_values + 1 >= NUM_FAR_VALUES
     THEN set_mode("ROTATE")
     ELSE MeasureAgain

TooNear ==
  /\ mode = "FOLLOW_GO"
  /\ dist <= AVG_DIST_UM
  /\ set_mode("FOLLOW_BACK")
  /\ UNCHANGED num_far_values

(* Far measurements do not get here: the branch of Far comes first, so a   *)
(* rover that backs off goes on backwards while it counts them.            *)
Retreated ==
  /\ mode = "FOLLOW_BACK"
  /\ AVG_DIST_UM < dist /\ dist <= MAX_DIST_UM
  /\ set_mode("FOLLOW_GO")
  /\ UNCHANGED num_far_values

NoChange ==
  /\ \/ mode = "ROTATE" /\ dist > MAX_DIST_UM
     \/ mode = "FOLLOW_GO" /\ AVG_DIST_UM < dist /\ dist <= MAX_DIST_UM
     \/ mode = "FOLLOW_BACK" /\ dist <= AVG_DIST_UM
  /\ MeasureAgain
  /\ UNCHANGED num_far_values

Decide ==
  /\ pc = "decide"
  /\ Found \/ Far \/ TooNear \/ Retreated \/ NoChange
  /\ samples' = <<>>
  /\ UNCHANGED <<scene, left, right>>

-----------------------------------------------------------------------------
(* What is in front of the sensor moves, or stops giving an echo.          *)
SceneChanges ==
  /\ scene' \in (Distances \cup {NoEcho}) \ {scene}
  /\ UNCHANGED program

Program == Start \/ WriteLeft \/ WriteRight \/ ReadDistance \/ Decide

Next == Program \/ SceneChanges

Spec == Init /\ [][Next]_vars

(* The program keeps running: it waits for nothing but an echo.            *)
FairSpec == Spec /\ WF_vars(Program)
-----------------------------------------------------------------------------
TypeOK ==
  /\ scene \in Distances \cup {NoEcho}
  /\ pc \in {"start", "read", "decide", "write_left", "write_right", "exit"}
  /\ samples \in Seq(Distances)
  /\ Len(samples) <= 3
  /\ pc = "decide" => Len(samples) = 3
  /\ mode \in Modes
  /\ num_far_values \in 0 .. NUM_FAR_VALUES
  /\ left \in {MOTOR_GO, MOTOR_STOP, MOTOR_BACK}
  /\ right \in {MOTOR_GO, MOTOR_STOP, MOTOR_BACK}

(* The counter is cleared only when the rover finds something, several     *)
(* branches away from where it is counted: while following it is below the *)
(* limit, so that a full count of far measurements is ahead of every lost  *)
(* target, and while turning it is 0 or a full count.                      *)
FarCounter ==
  IF mode = "ROTATE"
  THEN num_far_values \in {0, NUM_FAR_VALUES}
  ELSE num_far_values < NUM_FAR_VALUES

(* While the rover measures, which may take as long as there is no echo,   *)
(* both motors do what the mode says, although the mode is assigned before *)
(* the two writes and some branches write nothing.                         *)
MotorsMatchMode ==
  pc \in {"read", "decide"} => left = LeftOf(mode) /\ right = RightOf(mode)

TwoUpTo(d) ==
  \E i, j \in 1 .. 3 : i # j /\ samples[i] <= d /\ samples[j] <= d

(* One wrong sample of the three never decides: two near samples make the  *)
(* rover back off, two far ones can only make it turn after a full count,  *)
(* and in between it goes ahead, whatever the mode was.                    *)
TwoSamplesDecide ==
  [][pc = "decide" /\ pc' # "decide" =>
       /\ TwoUpTo(AVG_DIST_UM) => mode' = "FOLLOW_BACK"
       /\ ~TwoUpTo(AVG_DIST_UM) /\ TwoUpTo(MAX_DIST_UM) => mode' = "FOLLOW_GO"
       /\ ~TwoUpTo(MAX_DIST_UM) =>
            \/ mode' = mode
            \/ mode' = "ROTATE" /\ num_far_values' = NUM_FAR_VALUES]_vars

Near == scene \in Distances /\ scene <= AVG_DIST_UM
InSight == scene \in Distances /\ AVG_DIST_UM < scene /\ scene <= MAX_DIST_UM
OutOfSight == scene \in Distances /\ MAX_DIST_UM < scene

Doing(m) == mode = m /\ left = LeftOf(m) /\ right = RightOf(m)

(* A scene that stays as it is gets its answer, on both motors and for     *)
(* good: what is near is backed off from, what is in sight is followed,    *)
(* and when nothing is in sight the rover ends up turning.                 *)
SettlesOnScene ==
  /\ <>[]Near => <>[](pc = "exit" \/ Doing("FOLLOW_BACK"))
  /\ <>[]InSight => <>[](pc = "exit" \/ Doing("FOLLOW_GO"))
  /\ <>[]OutOfSight => <>[](pc = "exit" \/ Doing("ROTATE"))
=============================================================================
