--------------------------- MODULE StableDistance ---------------------------
(***************************************************************************)
(* get_distance and get_stable_distance_med3 of raspi/follow/follow.c over *)
(* the read of the sensor driver: a read that fails is made again until    *)
(* one succeeds, and the median of three distances is what decides.        *)
(*                                                                         *)
(* A read that follows a failed one may measure the echo that the failed   *)
(* one gave up waiting for.  The program can be killed between two reads,  *)
(* and what reads next, it or another one, inherits the sensor as it is.   *)
(***************************************************************************)
EXTENDS SensorRead, Sequences, Median

VARIABLES
  samples,   \* the distances of this round, and whose echoes they were
  errors     \* history: how many failed reads those may have followed

stableVars == <<vars, samples, errors>>

(* More errors than a round has samples are not told apart.                *)
MaxErrors == 3

StableInit == Init /\ samples = <<>> /\ errors = 0

Returns == pc # "idle" /\ pc' = "idle"

AddError == errors' = UpTo(MaxErrors, errors + 1)

(* A bug the code does not have: the result of read is ignored, and the    *)
(* local keeps what the last call left on the stack.                       *)
GetDistanceOnce ==
  /\ Len(samples) < 3
  /\ DriverRead
  /\ IF Returns
     THEN samples' = Append(samples,
            [um |-> distance', of |-> IF result' = "EIO" THEN "stale" ELSE result'])
     ELSE UNCHANGED samples
  /\ IF Returns /\ result' = "EIO" THEN AddError ELSE UNCHANGED errors

(* A step of read, and when it returns its error or its distance.          *)
GetDistance ==
  /\ Len(samples) < 3
  /\ DriverRead
  /\ IF Returns /\ result' # "EIO"
     THEN samples' = Append(samples, [um |-> distance', of |-> result'])
     ELSE UNCHANGED samples
  /\ IF Returns /\ result' = "EIO" THEN AddError ELSE UNCHANGED errors

Dist == median3(samples[1].um, samples[2].um, samples[3].um)

(* main makes use of Dist, and goes on to the next round.                  *)
UseDistance ==
  /\ Len(samples) = 3
  /\ samples' = <<>> /\ errors' = 0
  /\ UNCHANGED vars

(* The program is killed between two reads, and some program starts that   *)
(* reads the sensor next.                                                  *)
AnotherProgram ==
  /\ pc = "idle"
  /\ samples' = <<>>
  /\ errors' = IF result = "EIO" THEN 1 ELSE 0
  /\ UNCHANGED vars

StableNext ==
  \/ GetDistance \/ UseDistance \/ AnotherProgram
  \/ Tick /\ UNCHANGED <<samples, errors>>

StableSpec == StableInit /\ [][StableNext]_stableVars

(* The clock does not stop, and a read that has begun is scheduled again.  *)
StableFairSpec ==
  StableSpec /\ WF_stableVars(Tick /\ UNCHANGED <<samples, errors>>)
             /\ WF_stableVars(pc # "idle" /\ GetDistance)
-----------------------------------------------------------------------------
IsStale(i) == IF i <= Len(samples) /\ samples[i].of = "stale" THEN 1 ELSE 0

(* A failed read costs at most one sample: of the three distances of a     *)
(* round no more are those of old echoes than reads have failed in the     *)
(* round, or just before the program was started.                          *)
OneStalePerError == IsStale(1) + IsStale(2) + IsStale(3) <= errors

(* With one failed read the median is still what the sound has measured in *)
(* this round: it lies between two distances of own echoes.                *)
OneErrorNeverDecides ==
  Len(samples) = 3 /\ errors <= 1 =>
    \E i, j \in 1 .. 3 :
      /\ i # j /\ samples[i].of = "own" /\ samples[j].of = "own"
      /\ samples[i].um <= Dist /\ Dist <= samples[j].um
=============================================================================
