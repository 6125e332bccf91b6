---------------------------- MODULE FollowProofs ----------------------------
(***************************************************************************)
(* The controller, for any limits AVG <= MAX, any count of far values, and *)
(* any distances.                                                          *)
(***************************************************************************)
EXTENDS Follow, SequenceTheorems, TLAPS

(* A read is begun with fewer than three samples.                          *)
Reading == pc = "read" => Len(samples) <= 2

(* Between the two writes of set_mode the left motor has been told.        *)
HalfTold == pc = "write_right" => left = LeftOf(mode)

(* Until the devices are open nothing has been decided.                    *)
Starting == pc = "start" => num_far_values = 0 /\ mode = "ROTATE"

(* A new measurement begins with no samples.                               *)
NoneMeasured == pc \in {"start", "write_left", "write_right"} => samples = <<>>

Inv ==
  /\ TypeOK
  /\ Starting /\ Reading /\ NoneMeasured
  /\ FarCounter /\ HalfTold /\ MotorsMatchMode

(* What the median is compared with, a majority of its arguments is.       *)
LEMMA MedianUpTo ==
  ASSUME NEW a \in Int, NEW b \in Int, NEW c \in Int, NEW d \in Int
  PROVE  median3(a, b, c) <= d <=>
           \/ a <= d /\ b <= d
           \/ a <= d /\ c <= d
           \/ b <= d /\ c <= d
BY DEF median3, MAX, MIN

(* median3 of follow.c is the median: one of its arguments, with at least  *)
(* two of them up to it and at least two from it on.                       *)
THEOREM Median3IsMedian ==
  ASSUME NEW a \in Int, NEW b \in Int, NEW c \in Int
  PROVE  LET m == median3(a, b, c)
         IN  /\ m \in {a, b, c}
             /\ (a <= m /\ b <= m) \/ (a <= m /\ c <= m) \/ (b <= m /\ c <= m)
             /\ (a >= m /\ b >= m) \/ (a >= m /\ c >= m) \/ (b >= m /\ c >= m)
BY DEF median3, MAX, MIN

(* C does not fix the order in which the three reads in the call of        *)
(* median3 are made; the result does not depend on it.                     *)
THEOREM Median3Symmetric ==
  ASSUME NEW a \in Int, NEW b \in Int, NEW c \in Int
  PROVE  /\ median3(a, b, c) = median3(b, a, c)
         /\ median3(a, b, c) = median3(a, c, b)
         /\ median3(a, b, c) = median3(c, b, a)
BY DEF median3, MAX, MIN

LEMMA SamplesAreNumbers ==
  ASSUME TypeOK, pc = "decide"
  PROVE  \A i \in 1 .. 3 : samples[i] \in Nat
<1>1. Len(samples) = 3 /\ samples \in Seq(Distances)
  BY DEF TypeOK
<1>2. \A i \in 1 .. 3 : samples[i] \in Distances
  BY <1>1, ElementOfSeq
<1>3. QED
  BY <1>2, FollowAssumption

LEMMA DistUpTo ==
  ASSUME TypeOK, pc = "decide", NEW d \in Int
  PROVE  /\ dist \in Int
         /\ dist <= d <=> TwoUpTo(d)
<1>1. samples[1] \in Int /\ samples[2] \in Int /\ samples[3] \in Int
  BY SamplesAreNumbers
<1>2. dist <= d <=>
        \/ samples[1] <= d /\ samples[2] <= d
        \/ samples[1] <= d /\ samples[3] <= d
        \/ samples[2] <= d /\ samples[3] <= d
  BY <1>1, MedianUpTo DEF dist
<1>3. TwoUpTo(d) <=>
        \/ samples[1] <= d /\ samples[2] <= d
        \/ samples[1] <= d /\ samples[3] <= d
        \/ samples[2] <= d /\ samples[3] <= d
  BY DEF TwoUpTo
<1>4. dist \in Int
  BY <1>1 DEF dist, median3, MAX, MIN
<1>5. QED
  BY <1>2, <1>3, <1>4

LEMMA MotorValues ==
  ASSUME NEW m \in Modes
  PROVE  /\ LeftOf(m) \in {MOTOR_GO, MOTOR_STOP, MOTOR_BACK}
         /\ RightOf(m) \in {MOTOR_GO, MOTOR_STOP, MOTOR_BACK}
BY DEF Modes, LeftOf, RightOf

LEMMA InitInv == Init => Inv
BY FollowAssumption
DEF Init, Inv, TypeOK, Starting, Reading, NoneMeasured, FarCounter, HalfTold,
    MotorsMatchMode, Modes

LEMMA DecideInv == ASSUME Inv, Decide PROVE Inv'
<1> USE FollowAssumption DEF Inv, TypeOK, Starting, Reading, NoneMeasured, FarCounter, HalfTold,
        MotorsMatchMode, Modes, set_mode, MeasureAgain
<1>1. samples' = <<>> /\ samples' \in Seq(Distances) /\ Len(samples') = 0
  BY DEF Decide
<1>2. UNCHANGED <<scene, left, right>> /\ pc = "decide"
  BY DEF Decide
<1>3. CASE Found
  BY <1>1, <1>2, <1>3 DEF Found
<1>4. CASE Far
  BY <1>1, <1>2, <1>4 DEF Far
<1>5. CASE TooNear \/ Retreated
  BY <1>1, <1>2, <1>5 DEF TooNear, Retreated
<1>6. CASE NoChange
  BY <1>1, <1>2, <1>6 DEF NoChange
<1>7. QED
  BY <1>3, <1>4, <1>5, <1>6 DEF Decide

LEMMA NextInv == Inv /\ [Next]_vars => Inv'
<1> SUFFICES ASSUME Inv, [Next]_vars PROVE Inv'
  OBVIOUS
<1> USE FollowAssumption DEF Inv, TypeOK, Starting, Reading, NoneMeasured, FarCounter, HalfTold,
        MotorsMatchMode
<1>1. CASE Start
  BY <1>1 DEF Start, set_mode, Modes
<1>2. CASE WriteLeft
  BY <1>2, MotorValues DEF WriteLeft
<1>3. CASE WriteRight
  BY <1>3, MotorValues DEF WriteRight
<1>4. CASE ReadDistance
  <2>1. samples' = Append(samples, scene) /\ scene \in Distances
    BY <1>4 DEF ReadDistance
  <2>2. samples' \in Seq(Distances) /\ Len(samples') = Len(samples) + 1
    BY <2>1
  <2>3. Len(samples) \in Nat
    BY LenProperties
  <2>4. UNCHANGED <<scene, mode, num_far_values, left, right>> /\ pc = "read"
    BY <1>4 DEF ReadDistance
  <2>5. CASE Len(samples) = 2
    <3>1. pc' = "decide" /\ Len(samples') = 3
      BY <1>4, <2>2, <2>5 DEF ReadDistance
    <3>2. QED
      BY <2>2, <2>4, <3>1
  <2>6. CASE Len(samples) # 2
    <3>1. pc' = "read"
      BY <1>4, <2>6 DEF ReadDistance
    <3>2. Len(samples') <= 2 /\ Len(samples') <= 3
      BY <2>2, <2>3, <2>4, <2>6
    <3>3. TypeOK'
      BY <2>2, <2>4, <3>1, <3>2
    <3>4. QED
      BY <2>4, <3>1, <3>2, <3>3
  <2>7. QED
    BY <2>5, <2>6
<1>5. CASE Decide
  BY <1>5, DecideInv
<1>6. CASE SceneChanges
  BY <1>6 DEF SceneChanges, program
<1>7. CASE UNCHANGED vars
  BY <1>7 DEF vars
<1>8. QED
  BY <1>1, <1>2, <1>3, <1>4, <1>5, <1>6, <1>7 DEF Next, Program

(* Types, with the bound of the counter: it never passes NUM_FAR_VALUES.   *)
THEOREM FollowTypeOK == Spec => []TypeOK
<1>1. Inv => TypeOK
  BY DEF Inv
<1>2. QED
  BY InitInv, NextInv, <1>1, PTL DEF Spec

(* A rover that follows has not used up its far measurements, and one that *)
(* turns has used them all up or found nothing yet.                        *)
THEOREM FollowFarCounter == Spec => []FarCounter
<1>1. Inv => FarCounter
  BY DEF Inv
<1>2. QED
  BY InitInv, NextInv, <1>1, PTL DEF Spec

(* During a measurement both motors do what the mode says.                 *)
THEOREM FollowMotorsMatchMode == Spec => []MotorsMatchMode
<1>1. Inv => MotorsMatchMode
  BY DEF Inv
<1>2. QED
  BY InitInv, NextInv, <1>1, PTL DEF Spec

-----------------------------------------------------------------------------
(* What the loop makes of a median, whatever the mode is.                  *)
LEMMA DecideNear ==
  ASSUME Inv, Decide, dist \in Int, dist <= AVG_DIST_UM
  PROVE  /\ mode' = "FOLLOW_BACK"
         /\ pc' = IF mode = "FOLLOW_BACK" THEN "read" ELSE "write_left"
<1> HIDE DEF dist
<1>1. mode \in Modes /\ AVG_DIST_UM \in Int /\ MAX_DIST_UM \in Int /\ dist <= MAX_DIST_UM
  BY FollowAssumption DEF Inv, TypeOK
<1>2. QED
  BY <1>1 DEF Decide, Found, Far, TooNear, Retreated, NoChange, set_mode, MeasureAgain, Modes

LEMMA DecideInSight ==
  ASSUME Inv, Decide, dist \in Int, AVG_DIST_UM < dist, dist <= MAX_DIST_UM
  PROVE  /\ mode' = "FOLLOW_GO"
         /\ pc' = IF mode = "FOLLOW_GO" THEN "read" ELSE "write_left"
<1> HIDE DEF dist
<1>1. mode \in Modes /\ AVG_DIST_UM \in Int /\ MAX_DIST_UM \in Int
  BY FollowAssumption DEF Inv, TypeOK
<1>2. QED
  BY <1>1 DEF Decide, Found, Far, TooNear, Retreated, NoChange, set_mode, MeasureAgain, Modes

LEMMA DecideFar ==
  ASSUME Inv, Decide, dist \in Int, MAX_DIST_UM < dist
  PROVE  \/ mode = "ROTATE" /\ mode' = mode /\ pc' = "read" /\ UNCHANGED num_far_values
         \/ /\ mode # "ROTATE" /\ mode' = mode /\ pc' = "read"
            /\ num_far_values' = num_far_values + 1
         \/ /\ mode # "ROTATE" /\ mode' = "ROTATE" /\ pc' = "write_left"
            /\ num_far_values' = NUM_FAR_VALUES
<1> HIDE DEF dist
<1>1. /\ mode \in Modes /\ AVG_DIST_UM \in Int /\ MAX_DIST_UM \in Int
      /\ AVG_DIST_UM < dist /\ ~(dist <= MAX_DIST_UM)
  BY FollowAssumption DEF Inv, TypeOK
<1>2. CASE Far
  BY <1>2, FollowAssumption DEF Far, set_mode, MeasureAgain, Inv, TypeOK, FarCounter
<1>3. CASE ~Far
  BY <1>1, <1>3 DEF Decide, Found, TooNear, Retreated, NoChange, MeasureAgain
<1>4. QED
  BY <1>2, <1>3

(* The decision table of the loop, read off the samples themselves: no     *)
(* single sample can change what the other two say together.               *)
THEOREM FollowTwoSamplesDecide == Spec => TwoSamplesDecide
<1> DEFINE Table ==
       /\ TwoUpTo(AVG_DIST_UM) => mode' = "FOLLOW_BACK"
       /\ ~TwoUpTo(AVG_DIST_UM) /\ TwoUpTo(MAX_DIST_UM) => mode' = "FOLLOW_GO"
       /\ ~TwoUpTo(MAX_DIST_UM) =>
            \/ mode' = mode
            \/ mode' = "ROTATE" /\ num_far_values' = NUM_FAR_VALUES
           Step == pc = "decide" /\ pc' # "decide" => Table
<1>1. Inv /\ [Next]_vars => [Step]_vars
  <2> SUFFICES ASSUME Inv, Next, pc = "decide", pc' # "decide" PROVE Table
    BY DEF vars
  <2>1. Decide
    BY DEF Next, Program, Start, WriteLeft, WriteRight, ReadDistance, SceneChanges, program
  <2>2. /\ dist \in Int /\ AVG_DIST_UM \in Int /\ MAX_DIST_UM \in Int
        /\ AVG_DIST_UM <= MAX_DIST_UM
    BY DistUpTo, FollowAssumption DEF Inv
  <2>3. /\ TwoUpTo(AVG_DIST_UM) <=> dist <= AVG_DIST_UM
        /\ TwoUpTo(MAX_DIST_UM) <=> dist <= MAX_DIST_UM
    BY <2>2, DistUpTo DEF Inv
  <2> HIDE DEF dist
  <2>4. CASE dist <= AVG_DIST_UM
    BY <2>1, <2>2, <2>3, <2>4, DecideNear
  <2>5. CASE AVG_DIST_UM < dist /\ dist <= MAX_DIST_UM
    BY <2>1, <2>2, <2>3, <2>5, DecideInSight
  <2>6. CASE MAX_DIST_UM < dist
    BY <2>1, <2>2, <2>3, <2>6, DecideFar
  <2>7. QED
    BY <2>2, <2>4, <2>5, <2>6
<1>2. QED
  BY InitInv, NextInv, <1>1, PTL DEF Spec, TwoSamplesDecide
-----------------------------------------------------------------------------
(* How far the rover is from doing what the scene calls for.  That it gets *)
(* there needs fairness (SettlesOnScene, which TLC checks); what it takes, *)
(* as long as the scene calls for the same thing, is counted here.         *)

Answer(d) ==
  IF d <= AVG_DIST_UM THEN "FOLLOW_BACK" ELSE IF d <= MAX_DIST_UM THEN "FOLLOW_GO" ELSE "ROTATE"

Taken == Len(samples)

(* The samples taken so far call for the same as the scene does now.       *)
Fresh == \A i \in 1 .. Taken : Answer(samples[i]) = Answer(scene)

Settled ==
  /\ pc \in {"read", "decide"} /\ Fresh
  /\ Doing(Answer(scene))

(* Decisions until the mode is right: one that can go wrong when a sample  *)
(* is old, and then one, or those of a full count of far measurements.     *)
MostRounds == IF Answer(scene) = "ROTATE" THEN NUM_FAR_VALUES ELSE 1

RoundsLeft ==
  IF ~Fresh THEN 1 + MostRounds
  ELSE IF mode = Answer(scene) THEN 0
  ELSE IF Answer(scene) = "ROTATE" THEN NUM_FAR_VALUES - num_far_values
  ELSE 1

(* Writes, reads and the decision until the next round begins.             *)
StepsOfRound ==
  CASE pc = "start"       -> 7
    [] pc = "write_left"  -> 6
    [] pc = "write_right" -> 5
    [] pc = "read"        -> 4 - Taken
    [] pc = "decide"      -> 1
    [] OTHER              -> 0

StepsLeft == IF Settled THEN 0 ELSE 6 * RoundsLeft + StepsOfRound

LEMMA AnswersAreModes == \A d : Answer(d) \in Modes
  BY DEF Answer, Modes

(* Of these, each is a number: before a step and, by NextInv, after it.    *)
CountsInRange ==
  /\ pc = "read" => Taken \in 0 .. 2
  /\ MostRounds \in 1 .. NUM_FAR_VALUES
  /\ Fresh => RoundsLeft \in 0 .. MostRounds
  /\ ~Fresh => RoundsLeft = 1 + MostRounds
  /\ StepsOfRound \in 0 .. 7

LEMMA CountsAreNumbers == Inv => CountsInRange
<1> SUFFICES ASSUME Inv PROVE CountsInRange
  OBVIOUS
<1>1. pc = "read" => Taken \in 0 .. 2
  <2>1. samples \in Seq(Distances)
    BY DEF Inv, TypeOK
  <2>2. Len(samples) \in Nat
    BY <2>1, LenProperties
  <2>3. Taken \in Nat /\ (pc = "read" => Taken <= 2)
    BY <2>2 DEF Inv, Reading, Taken
  <2>4. QED
    BY <2>3
<1>2. num_far_values \in 0 .. NUM_FAR_VALUES /\ NUM_FAR_VALUES \in Nat \ {0}
  BY FollowAssumption DEF Inv, TypeOK
<1>3. MostRounds \in 1 .. NUM_FAR_VALUES
  BY <1>2 DEF MostRounds
<1>4. (Fresh => RoundsLeft \in 0 .. MostRounds) /\ (~Fresh => RoundsLeft = 1 + MostRounds)
  BY <1>2 DEF RoundsLeft, MostRounds
<1>5. StepsOfRound \in 0 .. 7
  BY <1>1 DEF StepsOfRound
<1>6. QED
  BY <1>1, <1>3, <1>4, <1>5 DEF CountsInRange

(* Until the next decision nothing changes the number of rounds.           *)
LEMMA RoundGoesOn ==
  ASSUME Inv, Program, ~Decide, scene \in Distances, pc' # "exit"
  PROVE  /\ RoundsLeft' = RoundsLeft /\ Fresh' = Fresh
         /\ StepsOfRound' = StepsOfRound - 1 /\ UNCHANGED <<scene, mode>>
         /\ Settled => Settled'
<1>1. CASE Start
  <2>1. /\ pc = "start" /\ pc' = "write_left" /\ mode = "ROTATE" /\ mode' = "ROTATE"
        /\ UNCHANGED <<scene, samples, num_far_values, left, right>>
    BY <1>1 DEF Start, set_mode, Inv, Starting
  <2>2. QED
    BY <2>1 DEF RoundsLeft, MostRounds, Fresh, Taken, StepsOfRound, Settled
<1>2. CASE WriteLeft
  <2>1. /\ pc = "write_left" /\ pc' = "write_right"
        /\ UNCHANGED <<scene, samples, mode, num_far_values>>
    BY <1>2 DEF WriteLeft
  <2>2. QED
    BY <2>1 DEF RoundsLeft, MostRounds, Fresh, Taken, StepsOfRound, Settled
<1>3. CASE WriteRight
  <2>1. /\ pc = "write_right" /\ pc' = "read" /\ samples = <<>>
        /\ UNCHANGED <<scene, samples, mode, num_far_values>>
    BY <1>3 DEF WriteRight, Inv, NoneMeasured
  <2>2. Taken = 0 /\ Taken' = 0
    BY <2>1 DEF Taken
  <2>3. QED
    BY <2>1, <2>2 DEF RoundsLeft, MostRounds, Fresh, StepsOfRound, Settled
<1>4. CASE ReadDistance
  <2>1. /\ pc = "read" /\ samples' = Append(samples, scene)
        /\ pc' = IF Len(samples) = 2 THEN "decide" ELSE "read"
        /\ UNCHANGED <<scene, mode, num_far_values, left, right>>
    BY <1>4 DEF ReadDistance
  <2>2. samples \in Seq(Distances) /\ Taken \in 0 .. 2
    BY <2>1, CountsAreNumbers DEF CountsInRange, Inv, TypeOK
  <2>3. /\ Taken' = Taken + 1
        /\ \A i \in 1 .. Taken : samples'[i] = samples[i]
        /\ samples'[Taken + 1] = scene
    BY <2>1, <2>2 DEF Taken
  <2>4. Fresh' = Fresh
    <3>1. 1 .. Taken' = (1 .. Taken) \cup {Taken + 1}
      BY <2>2, <2>3
    <3>2. Fresh' <=> \A i \in 1 .. Taken : Answer(samples[i]) = Answer(scene)
      BY <2>1, <2>3, <3>1 DEF Fresh, Answer
    <3>3. QED
      BY <3>2 DEF Fresh
  <2>5. RoundsLeft' = RoundsLeft
    BY <2>1, <2>4 DEF RoundsLeft, MostRounds, Answer
  <2>6. StepsOfRound' = StepsOfRound - 1
    <3>1. CASE Taken = 2
      BY <2>1, <3>1 DEF StepsOfRound, Taken
    <3>2. CASE Taken # 2
      <4> DEFINE k == Taken'
      <4>1. pc' = "read" /\ pc = "read" /\ k = Taken + 1
        BY <2>1, <2>3, <3>2 DEF Taken
      <4>2. StepsOfRound' = 4 - k /\ StepsOfRound = 4 - Taken
        BY <4>1 DEF StepsOfRound
      <4> HIDE DEF k
      <4>3. QED
        BY <2>2, <4>1, <4>2
    <3>3. QED
      BY <3>1, <3>2
  <2>7. Settled => Settled'
    BY <2>1, <2>4 DEF Settled, Doing, Answer, LeftOf, RightOf
  <2>8. QED
    BY <2>1, <2>4, <2>5, <2>6, <2>7
<1>5. QED
  BY <1>1, <1>2, <1>3, <1>4 DEF Program

(* A decision takes a round off, and leaves a settled rover as it is.      *)
LEMMA DecisionIsARound ==
  ASSUME Inv, Decide, scene \in Distances
  PROVE  /\ Fresh' /\ StepsOfRound' \in 0 .. 6
         /\ RoundsLeft = 0 => Settled /\ Settled'
         /\ RoundsLeft # 0 => RoundsLeft' < RoundsLeft
<1>1. pc = "decide" /\ samples' = <<>> /\ UNCHANGED <<scene, left, right>>
  BY DEF Decide
<1>2. Taken' = 0 /\ Fresh'
  BY <1>1 DEF Fresh, Taken
<1>3. dist \in Int /\ scene \in Nat /\ AVG_DIST_UM \in Nat /\ MAX_DIST_UM \in Nat
  BY <1>1, DistUpTo, FollowAssumption DEF Inv
<1>4. /\ dist <= AVG_DIST_UM <=> TwoUpTo(AVG_DIST_UM)
      /\ dist <= MAX_DIST_UM <=> TwoUpTo(MAX_DIST_UM)
  BY <1>1, <1>3, DistUpTo DEF Inv
<1>5. Fresh => Answer(dist) = Answer(scene)
  <2> SUFFICES ASSUME Fresh PROVE Answer(dist) = Answer(scene)
    OBVIOUS
  <2>1. Taken = 3
    BY <1>1 DEF Inv, TypeOK, Taken
  <2>2. \A i \in 1 .. 3 : samples[i] \in Nat /\ Answer(samples[i]) = Answer(scene)
    BY <1>1, <2>1, SamplesAreNumbers DEF Inv, Fresh
  <2>3. CASE Answer(scene) = "FOLLOW_BACK"
    <3>1. \A i \in 1 .. 3 : samples[i] <= AVG_DIST_UM
      BY <2>2, <2>3 DEF Answer
    <3>2. QED
      BY <1>4, <2>3, <3>1 DEF TwoUpTo, Answer
  <2>4. CASE Answer(scene) = "FOLLOW_GO"
    <3>1. \A i \in 1 .. 3 : ~(samples[i] <= AVG_DIST_UM) /\ samples[i] <= MAX_DIST_UM
      BY <2>2, <2>4 DEF Answer
    <3>2. QED
      BY <1>4, <2>4, <3>1 DEF TwoUpTo, Answer
  <2>5. CASE Answer(scene) = "ROTATE"
    <3>1. \A i \in 1 .. 3 : ~(samples[i] <= AVG_DIST_UM) /\ ~(samples[i] <= MAX_DIST_UM)
      BY <2>2, <2>5 DEF Answer
    <3>2. QED
      BY <1>4, <2>5, <3>1 DEF TwoUpTo, Answer
  <2>6. QED
    BY <2>3, <2>4, <2>5 DEF Answer
<1> HIDE DEF dist
<1>6. \/ /\ Answer(dist) # "ROTATE" /\ mode' = Answer(dist)
         /\ pc' = IF mode = Answer(dist) THEN "read" ELSE "write_left"
      \/ /\ Answer(dist) = "ROTATE" /\ mode = "ROTATE" /\ mode' = mode /\ pc' = "read"
         /\ UNCHANGED num_far_values
      \/ /\ Answer(dist) = "ROTATE" /\ mode # "ROTATE" /\ mode' = mode /\ pc' = "read"
         /\ num_far_values' = num_far_values + 1
      \/ /\ Answer(dist) = "ROTATE" /\ mode # "ROTATE" /\ mode' = "ROTATE"
         /\ pc' = "write_left" /\ num_far_values' = NUM_FAR_VALUES
  <2>1. CASE dist <= AVG_DIST_UM
    BY <1>3, <2>1, DecideNear DEF Answer
  <2>2. CASE AVG_DIST_UM < dist /\ dist <= MAX_DIST_UM
    BY <1>3, <2>2, DecideInSight DEF Answer
  <2>3. CASE MAX_DIST_UM < dist
    <3>1. Answer(dist) = "ROTATE"
      BY <1>3, <2>3, FollowAssumption DEF Answer
    <3>2. QED
      BY <1>3, <2>3, <3>1, DecideFar
  <2>4. QED
    BY <1>3, <2>1, <2>2, <2>3
<1>7. StepsOfRound' \in 0 .. 6
  BY <1>2, <1>6 DEF StepsOfRound
<1>8. left = LeftOf(mode) /\ right = RightOf(mode)
  BY <1>1 DEF Inv, MotorsMatchMode
<1>9. Answer(scene)' = Answer(scene)
  BY <1>1 DEF Answer
<1>10. num_far_values \in 0 .. NUM_FAR_VALUES /\ NUM_FAR_VALUES \in Nat \ {0}
       /\ num_far_values' \in 0 .. NUM_FAR_VALUES
  BY FollowAssumption, DecideInv DEF Inv, TypeOK
<1>11. MostRounds' = MostRounds /\ MostRounds \in 1 .. NUM_FAR_VALUES
  BY <1>9, <1>10 DEF MostRounds
<1>12. mode # "ROTATE" => num_far_values < NUM_FAR_VALUES
  BY DEF Inv, FarCounter
<1>13. CASE ~Fresh
  <2>1. RoundsLeft = 1 + MostRounds
    BY <1>13 DEF RoundsLeft
  <2>2. RoundsLeft' \in 0 .. MostRounds
    <3>1. CASE mode' = Answer(scene)
      BY <1>2, <1>9, <1>11, <3>1 DEF RoundsLeft
    <3>2. CASE mode' # Answer(scene) /\ Answer(scene) = "ROTATE"
      <4> DEFINE k == num_far_values'
      <4>1. RoundsLeft' = NUM_FAR_VALUES - k /\ MostRounds = NUM_FAR_VALUES
        BY <1>2, <1>9, <3>2 DEF RoundsLeft, MostRounds
      <4>2. k \in 0 .. NUM_FAR_VALUES
        BY <1>10
      <4> HIDE DEF k
      <4>3. QED
        BY <1>10, <4>1, <4>2
    <3>3. CASE mode' # Answer(scene) /\ Answer(scene) # "ROTATE"
      <4>1. RoundsLeft' = 1 /\ MostRounds = 1
        BY <1>2, <1>9, <3>3 DEF RoundsLeft, MostRounds
      <4>2. QED
        BY <4>1
    <3>4. QED
      BY <3>1, <3>2, <3>3
  <2>3. QED
    BY <1>2, <1>7, <1>11, <2>1, <2>2
<1>14. CASE Fresh /\ mode = Answer(scene)
  <2>1. RoundsLeft = 0
    BY <1>14 DEF RoundsLeft
  <2>2. Answer(dist) = mode
    BY <1>5, <1>14
  <2>3. mode' = mode /\ pc' = "read"
    BY <1>6, <2>2
  <2>4. QED
    BY <1>1, <1>2, <1>7, <1>8, <1>9, <1>14, <2>1, <2>3 DEF Settled, Doing, LeftOf, RightOf
<1>15. CASE Fresh /\ mode # Answer(scene) /\ Answer(scene) # "ROTATE"
  <2>1. RoundsLeft = 1 /\ RoundsLeft' = 0
    BY <1>2, <1>5, <1>6, <1>9, <1>15 DEF RoundsLeft
  <2>2. QED
    BY <1>2, <1>7, <2>1
<1>16. CASE Fresh /\ mode # Answer(scene) /\ Answer(scene) = "ROTATE"
  <2>1. RoundsLeft = NUM_FAR_VALUES - num_far_values /\ RoundsLeft \in 1 .. NUM_FAR_VALUES
    BY <1>10, <1>12, <1>16 DEF RoundsLeft
  <2>2. CASE mode' = "ROTATE"
    <3>1. RoundsLeft' = 0
      BY <1>2, <1>9, <1>16, <2>2 DEF RoundsLeft
    <3>2. QED
      BY <1>2, <1>7, <2>1, <3>1
  <2>3. CASE mode' # "ROTATE"
    <3> DEFINE k == num_far_values'
    <3>1. k = num_far_values + 1
      BY <1>5, <1>6, <1>16, <2>3
    <3>2. RoundsLeft' = NUM_FAR_VALUES - k
      BY <1>2, <1>9, <1>16, <2>3 DEF RoundsLeft
    <3> HIDE DEF k
    <3>3. QED
      BY <1>2, <1>7, <1>10, <2>1, <3>1, <3>2
  <2>4. QED
    BY <2>2, <2>3
<1>17. QED
  BY <1>13, <1>14, <1>15, <1>16

(* With an echo ahead, the rover is never further than this from settling: *)
(* 15 calls from backing off or following, and as many full rounds as far  *)
(* measurements are counted, and one that began too early, from turning.   *)
SettlesSoon ==
  scene \in Distances /\ pc # "exit" => StepsLeft \in 0 .. 6 * MostRounds + 9

(* Every call the program makes in front of an echo brings it nearer, and  *)
(* a rover that has settled stays so.                                      *)
SettlesStepByStep ==
  [][Program /\ scene \in Distances =>
       \/ pc' = "exit"
       \/ Settled /\ Settled'
       \/ ~Settled /\ StepsLeft' < StepsLeft]_vars

(* Whatever the rover was doing, and however the distance varies between   *)
(* the limits, once the scene calls for something the rover does it after  *)
(* a bounded number of reads, decisions and writes, and goes on doing it:  *)
(* without the assumption that the program goes on, this is what remains   *)
(* of SettlesOnScene.                                                      *)
THEOREM FollowSettlesStepByStep == Spec => []SettlesSoon /\ SettlesStepByStep
<1>1. Inv => SettlesSoon
  <2> SUFFICES ASSUME Inv, CountsInRange, scene \in Distances, pc # "exit", ~Settled
               PROVE  6 * RoundsLeft + StepsOfRound \in 0 .. 6 * MostRounds + 9
    BY CountsAreNumbers DEF SettlesSoon, StepsLeft, CountsInRange
  <2>1. CASE Fresh
    BY <2>1, FollowAssumption DEF CountsInRange
  <2>2. CASE ~Fresh
    <3>1. StepsOfRound \in 0 .. 3
      <4>1. Taken # 0
        BY <2>2 DEF Fresh
      <4>2. pc \in {"read", "decide"}
        <5>1. samples # <<>>
          BY <4>1 DEF Taken
        <5>2. QED
          BY <5>1 DEF Inv, TypeOK, NoneMeasured
      <4>3. QED
        BY <4>1, <4>2 DEF StepsOfRound, CountsInRange
    <3>2. RoundsLeft = 1 + MostRounds /\ MostRounds \in Nat
      BY <2>2, FollowAssumption DEF CountsInRange
    <3>3. QED
      BY <3>1, <3>2
  <2>3. QED
    BY <2>1, <2>2
<1>2. Inv /\ [Next]_vars =>
        [Program /\ scene \in Distances =>
           \/ pc' = "exit"
           \/ Settled /\ Settled'
           \/ ~Settled /\ StepsLeft' < StepsLeft]_vars
  <2> SUFFICES ASSUME Inv, Program, scene \in Distances, pc' # "exit", CountsInRange'
               PROVE  (Settled /\ Settled') \/ (~Settled /\ StepsLeft' < StepsLeft)
    <3>1. Inv' => CountsInRange'
      BY CountsAreNumbers, PTL
    <3>2. QED
      BY <3>1, NextInv
  <2> DEFINE r == RoundsLeft    q == RoundsLeft'
             s == StepsOfRound  t == StepsOfRound'
  <2>1. r \in Nat /\ s \in Nat /\ q \in Nat /\ t \in Nat
    <3>1. CountsInRange /\ NUM_FAR_VALUES \in Nat
      BY CountsAreNumbers, FollowAssumption
    <3>2. r \in Nat /\ s \in Nat
      BY <3>1 DEF CountsInRange
    <3> DEFINE m == MostRounds'  fresh == Fresh'
    <3>3. /\ m \in 1 .. NUM_FAR_VALUES /\ t \in 0 .. 7
          /\ fresh => q \in 0 .. m
          /\ ~fresh => q = 1 + m
      BY DEF CountsInRange
    <3> HIDE DEF m, fresh, q, t
    <3>4. QED
      BY <3>1, <3>2, <3>3
  <2>2. /\ ~Settled => StepsLeft = 6 * r + s
        /\ Settled' => StepsLeft' = 0
        /\ ~Settled' => StepsLeft' = 6 * q + t
    BY DEF StepsLeft
  <2>3. CASE ~Decide
    <3>1. q = r /\ t = s - 1 /\ (Settled => Settled')
      BY <2>3, RoundGoesOn
    <3> HIDE DEF q, r, s, t
    <3>2. CASE Settled
      BY <3>1, <3>2
    <3>3. CASE ~Settled /\ Settled'
      BY <2>1, <2>2, <3>1, <3>3
    <3>4. CASE ~Settled /\ ~Settled'
      BY <2>1, <2>2, <3>1, <3>4
    <3>5. QED
      BY <3>2, <3>3, <3>4
  <2>4. CASE Decide
    <3>1. /\ t \in 0 .. 6
          /\ r = 0 => Settled /\ Settled'
          /\ r # 0 => q < r
      BY <2>4, DecisionIsARound
    <3>2. s = 1
      BY <2>4 DEF Decide, StepsOfRound
    <3>3. r # 0 => ~Settled
      BY <2>4 DEF RoundsLeft, Settled, Doing
    <3> HIDE DEF q, r, s, t
    <3>4. CASE r = 0
      BY <3>1, <3>4
    <3>5. CASE r # 0 /\ Settled'
      BY <2>1, <2>2, <3>2, <3>3, <3>5
    <3>6. CASE r # 0 /\ ~Settled'
      BY <2>1, <2>2, <3>1, <3>2, <3>3, <3>6
    <3>7. QED
      BY <3>4, <3>5, <3>6
  <2>5. QED
    BY <2>3, <2>4
<1>3. QED
  BY InitInv, NextInv, <1>1, <1>2, PTL DEF Spec, SettlesStepByStep
=============================================================================
