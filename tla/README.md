# A TLA+ model of the rover's drivers and controller

The repository holds a small rover built on a Raspberry Pi: kernel drivers for
its two motors and its ultrasonic sensor, a program that follows whatever the
sensor sees, a remote control, and the exercise drivers of the course it grew out
of (plus two vendored BusyBox trees and the scripts that build the images). This
directory specifies the parts that run concurrently or decide something, checks
them with TLC on small instances, and proves the main safety properties with
TLAPS for every instance.

## 1. Inventory

| Part | State it keeps | Operations | Talks to | What is hard |
|---|---|---|---|---|
| Motor driver `raspi/treiber/rpi2_motor.c` | the pins in each open file's `private_data`; the pin claims and levels in the kernel | `driver_open`, `driver_write`, `driver_close` | GPIO library; used by follow and drive | no lock of its own: opens and closes of one motor race for two pins; error returns that keep a claim; two `gpio_set_value` calls per write |
| `raspi/treiber/set_gpios.sh` | none; claims four pins through sysfs | run by hand | the same pins as the motor driver | may run at any time, ignores errors, never unexports |
| Sensor driver `raspi/treiber/sensor_treiber/sensor_treiber.c` | `driver_lock`, the pins of the open file | `driver_open`, `driver_close`, `driver_read` | GPIO library; used by follow and sensor_test | the counter is given up before the pins; error returns keep the counter; busy-waiting for a pulse |
| Controller `raspi/follow/follow.c` | `mode`, `num_far_values`, three samples | one loop: measure three times, decide, `set_mode` | sensor (read), motors (write) | the scene changes between reads; two writes per decision; retry for ever when there is no echo |
| Remote control `raspi/treiber/drive/drive.c` | two values | read a key, one-second pulse, stop | motors | stops with a faulting write; may be killed in the pulse; end of input |
| Hello device `treiber/mod2/mod2.c` | `driver_lock` | open, close, read | - | two-step refusal |
| modcontrol `treiber/modcontrol/modcontrol.c` | a buffer and an atomic count | read (blocking), write | wait queue | count read, data copied and count changed in separate steps without a lock |
| Sensor test `raspi/treiber/sensor_treiber/test/sensor_test.c` | none | open, one read | sensor | ends after a failed read as after any other |
| zero and null devices | none | read, write | - | copying loop that goes on after a fault |
| `mod_init`/`mod_exit` of every driver, also `treiber/old/3` | device numbers, cdev, class, device | load, unload | kernel, udev | unwinding after an error, programs that open the device while `mod_init` runs |
| scripts, BusyBox, images | files | build and boot | - | not modelled, see section 7 |

What makes each part correct: a device that is open belongs to exactly one user,
who owns its pins until it closes (motor, sensor); a refusal has a reason and
nothing stays locked (sensor, hello); a motor does what was written last and its
bridge is never left with both inputs high (motor); the controller decides from
the majority of its samples, turns only after a full count of far measurements,
and its motors agree with its mode whenever it waits (follow); what is written is
read once (modcontrol); a measured distance is that of the echo the read itself has
triggered (sensor); the remote control's rover moves only for as long as a command
lasts (drive); the controller and a remote control never both drive, and whoever is
killed leaves nothing claimed (rover); a load that fails leaves nothing behind, and a driver stays while one
of its files is open (`mod_init`, `mod_exit`).

## 2. Modules

| Module | Models | Remarks |
|---|---|---|
| `ExclusiveOpen` | abstract: a device with one user at a time | the specification that three drivers implement |
| `ByteStack` | abstract: what is written last is read first, once | the specification of modcontrol |
| `GpioLib` | the claim of a pin (`gpio_request`, `gpio_free`) | external: modelled from how the drivers use it |
| `HelloOpen` | open and close of mod2.c | the access counter alone |
| `SensorOpen` | open and close of sensor_treiber.c | the same counter plus two pin claims |
| `SensorRead` | read of sensor_treiber.c, and the sensor | time in ticks |
| `MotorDriver` | rpi2_motor.c and set_gpios.sh | claims and levels of four pins |
| `Drive` | drive.c | EXTENDS `MotorDriver`: its programs make the driver's calls |
| `Median` | median3 of follow.c | shared by `Follow` and `StableDistance` |
| `StableDistance` | get_distance and the three reads of a round | EXTENDS `SensorRead`: the reads are its steps |
| `Rover` | follow.c, drive.c and sensor_test.c over both drivers | EXTENDS `Drive`; INSTANCEs `SensorOpen` and `Follow` |
| `DevZero` | driver_read of mydevzero.c | one read; nothing is shared between reads |
| `ModControl` | read and write of modcontrol.c | shared buffer, count, wait queue |
| `ChrdevInit` | mod_init and mod_exit of seven drivers | one shape, a record per driver |
| `Follow` | follow.c | controller, with the scene as its environment |
| `MC...` | instances for TLC | values for the constants, restricted next-state relations |
| `...Proofs` | theorems | one per component; `RoverProofs` is about `Drive` and `Rover`, `SensorReadProofs` about `SensorRead` and `StableDistance`, `ChrdevInitProofs` about `ChrdevInit` and `DevZero` |

### HelloOpen and SensorOpen

One program counter per `struct file`. `TryOpen` is `atomic_inc_and_test`, `Deny`
the `atomic_dec` of the refused branch: two steps, because other files run in
between. In `SensorOpen` every `gpio_request` and `gpio_free` is a step of its own
as well, in the order of the code; in particular `CloseUnlock` (the `atomic_dec` of
`driver_close`) comes before `CloseEcho` and `CloseTrig`. `ReturnEIO` is the end of
a permitted open that fails, which keeps its increment; the history variable
`abandoned` remembers which file did so. `Reload` is removing and inserting the
module: the counter starts afresh, claims of pins do not.

### MotorDriver

A file goes through `Open`, `Request1`, `Request2`, `SetDirections` to `open`, and
from there through `Write`, `SetFirst`, `SetSecond`, or `Close`, `CloseFirst`,
`CloseSecond`. A failed request leaves what was claimed claimed, as in the code.
`level` is what a pin drives; after `gpio_free` it either stays or becomes
`Undriven`, since that is the pin controller's business. `SignOf` is the conversion
of the bytes written to the sign of the driver's local: little-endian, missing bytes
0, so that two or three bytes never give a negative number. `set_gpios.sh` is a
sequential process of twelve commands (`line`), each ignoring its error.

### SensorRead

`driver_read` is one process, the sensor another, and `Tick` lets a unit of time pass
between any two steps, since the driver's busy loops can be preempted. A pulse on the
trigger pin (`Trigger`) makes a quiet sensor raise the echo pin after one of `Delays`
ticks and lower it after one of `Widths`; a busy sensor ignores the pulse, and what it
then shows is the `stale` echo of an earlier read. The first loop is `PollForEcho` and
`CompareTimeout`: the clock is read and compared, and the pin is not looked at again
before the read gives up. The second loop, `PollForEnd`, has no timeout. `Distance` is
the code's product in an unsigned long of `ULONG` values. The history variable `lost`
counts the ticks of a read in which the driver slept although it would have seen something
new: in its two loops it is faster than a tick, so a tick that finds it there
(`LoopingOrIdle`) costs nothing. `delay` and `width` remember the sensor's answer. Reads do not overlap: the
device is open for one program at a time (`SensorOpen`).

### Drive

Each program has the place of its last system call (`at`) and the two motor values
(`want`). A system call is the first step of one of `MotorDriver`'s handlers, and the
program's next step waits until that handler has returned (`At`). The stop after the
one-second pulse is a write from the address 0, that is a write of which nothing can be
copied. `Kill` ends a program between any two calls, `CloseOnExit` is the kernel closing
its files, `Restart` the next run. How long the pulse lasts is left out.

`refused` is a history variable: has a `gpio_request` ever failed, that is, have two users
met at a pin?

### StableDistance

One round of the controller's measuring. `GetDistance` is a step of the driver's read; when
the read returns a distance it becomes a sample, and when it returns -EIO it is made again,
since the next `GetDistance` starts with a trigger. `AnotherProgram` is the end of the program
between two reads and the start of another one, the sensor's test program for example, which
inherits whatever echo is still to come. `errors` counts the failed reads that the samples of
the round may have followed.

### Rover

Everything that runs on the rover at a time. The motors, the remote control and
`set_gpios.sh` are `Drive`'s; the sensor's handlers are those of `SensorOpen`, under the
names `S!...`, with the controller and the test program as its files; the decisions of the
controller are `Follow`'s (`F(scene)!...`), whose `left` and `right` are the values that
its two motor files hold. What is new is `main` of follow.c up to its loop: three opens
one after the other whatever the last one returned (`OpenDevices`), one check
(`CheckDevices`), and the two writes of `set_mode`, whose bytes go through `driver_write`
(`TellLeft`, `TellRight`). As in `Drive`, a program goes on when its handler has returned,
and can be killed between any two calls. `MeasureOnce` is a read that finds some distance:
a read without an echo changes nothing here.

### DevZero

A read begins with any count and any set of mapped bytes behind the user's pointer.
`CopyChunk` is the body of the loop; `copy_to_user` reaches the bytes up to the first one
that is not mapped (`Reached`). After `ReturnCount` the read is over, which is why this run
does not look for deadlocks.

### ModControl

`driver_read` is `CheckOrSleep` (the wait, which the kernel makes one step), `ReadSize`,
`CopyOut`, `Sub`; `driver_write` is `Write` (which reads the count), `CopyIn`, `Add`, `Wake`.
Each is a step because nothing locks the buffer, and each call works with the count it
read first (`local`). A copy may fault and do only a part. The model is exact while the
count stays within the buffer, which is what `InBounds` says; memory outside the
buffer does not exist in it. `SerialSpec` is the same device under calls that do not
overlap: a process goes on only while no other one works on the buffer.

### ChrdevInit

`pc` is the call that comes next in `mod_init` or `mod_exit`. The drivers differ in what
the records `Motor`, `Sensor`, `Hello`, ... say: the minors, whether `device_create` is
checked (the motor and the sensor driver go on, and log through the error pointer:
`Finish`), and whether the `goto` after `class_create` is inside an `if` (not in
`treiber/old/3`: its `mod_init` always fails with the class registered). The labels at
the end of `mod_init` are `FreeClass`, `FreeCdev`, `FreeRegion`; `FreeCdev` is
`kobject_put` without `cdev_del`, and `stale` remembers drivers whose added cdev was
released that way. `Open` is possible as soon as udev has made a device file, also while
`mod_init` runs, and not any more once `mod_exit` has begun.

### Follow

`pc` is the place in `main`; `samples` the distances read so far in the round; `left`
and `right` the last value each motor accepted. `set_mode` assigns the mode, then
`WriteLeft` and `WriteRight` are steps of their own. `Found`, `Far`, `TooNear` and
`Retreated` are the branches of the loop in its order, `NoChange` is no branch.
`scene` is the environment: the distance ahead, or `NoEcho`, in which a read returns
-EIO and is tried again. It changes at any time, between two samples too, which is
also how a wrong sample is represented.

## 3. Properties

* `LockCount` (HelloOpen, SensorOpen): the counter is exact in every interleaving.
* `DenialJustified` (SensorOpen): -EBUSY always has a culprit: a file that is
  permitted or being refused, or a failed open since the module was loaded.
* `OpenOwnsPins`, `ClaimEndsByItsOwner` (SensorOpen, MotorDriver): `gpio_free` does
  not check who claimed a pin, so the order of the handlers has to; an open file
  keeps its pins whatever others do.
* `ImplementsExclusiveOpen`, `LeftIsExclusive`: each device refines `ExclusiveOpen`. For
  the motors the holder is the file between its second successful request and its first
  free: the claims do what a lock would do. (Two opens of one motor can each get one pin
  and both fail, and then nobody can open it: the refinement says nobody is admitted
  wrongly, not that somebody is admitted.)
* `MotorObeysLastWrite`, `BothHighOnlyWhenReversing` (MotorDriver): the pins of a
  motor at rest encode the last write; both inputs are high only inside a write
  that turns backwards into forwards (gpio_1 is raised before gpio_2 is lowered).
* `ErrorWithinLost` (SensorRead): wherever the driver is preempted, the echo it has
  measured is off by at most the time it lost, in either direction; a driver that lost
  nothing reports exactly how far the sound travelled, unless the product wraps.
* `ErrorInMicrometers` (SensorRead): the same of what the program is told, for any echo: the
  distance is never more than what the echo and the lost time together allow, and it is less
  than they allow only if `343 * echo_delay_us` does not fit into an unsigned long. (The code
  does wrap then, and a wall that is too far away looks near: the run has such echoes.)
* `GivesUpWithReason` (SensorRead): -EIO is returned only if the sensor was still busy with
  an older trigger, did not answer, answered too late by more than the driver's own
  delay, or was over before the driver looked. (The driver reads the clock after the pin
  and does not look again: that is where its own delay comes in.)
* `StaleOnlyAfterTimeout` (SensorRead): however late the sensor and however preempted the
  driver, an echo that is not the read's own is measured only right after a read that
  returned -EIO, so never by two of the three reads of `follow.c` in a row without an
  error in between.
* `OneStalePerError`, `OneErrorNeverDecides` (StableDistance): a failed read costs at most
  one sample, whether it was the same program's or that of the one before; and with one
  failed read in a round, the median still lies between two distances of own echoes.
* `ReadReturns` (SensorRead, liveness): every read returns, although its second loop has
  no timeout.
* `PulseAsCommanded`, `StandsStillAtPrompt` (Drive): during a command both motors do what
  its key says, and while a program asks for the next one both stand still; the latter
  rests on `driver_write` starting from the value 0, since the program's stop always faults.
* `OneDriver` (Drive): of several programs at most one gets past its two opens.
* `NothingLeftClaimed` (Drive, Rover): as long as no two users met at a pin, nobody leaves a
  claim behind, however often programs failed half-way, were killed in the middle of a
  command and were started again. (If two did meet, an open that failed keeps what it got.)
* `PinsMatchMode` (Rover): while the controller measures, the four pins are as its mode
  says, whatever the other programs try. It needs the claims of two drivers, the
  conversion in `driver_write` and the order of `set_mode`.
* `OneAtTheWheel` (Rover): the controller and a remote control are never both past the check of
  their opens, although each opens the motors one by one.
* `LoopHasSensor`, `SensorGivenBack` (Rover): in its loop the controller owns the sensor
  and its pins; and the sensor is as it was when nobody has it, wherever a program was
  killed, unless users met at a pin (then see Findings).
* `RunsFollow` (Rover): every step of the controller over the real drivers is a step of
  `Follow`, the end of the program, or its next start. So what is proved of the
  steps of the controller alone holds on the rover.
* `InBounds` (ModControl): with one reader and one writer the count and the copies stay
  within the buffer, although each call uses a count that may be old. (Two readers can
  make the count negative, two writers push it past the buffer.)
* `SleepersWillBeWoken`, `WaitingReadReturns` (ModControl): no reader sleeps on data unless a
  write is about to wake it, and a reader that waits while there is data returns.
* `ImplementsByteStack` (ModControl): when calls do not overlap and copies do not fault,
  the device is a stack of bytes: nothing is lost and nothing comes twice. (A fault in
  `copy_to_user` loses a byte that was not delivered: the first bytes of the chunk arrive
  and the last ones are taken off the count.)
* `NothingLeftBehind` (ChrdevInit): whichever call fails, a driver that is not loaded has
  no number, cdev, device file or class; the exceptions are named in it.
* `DeviceFilesWork`, `OpenDriverStays`, `LoadedHasDevice` (ChrdevInit): a device file leads
  to its driver at every moment of loading and unloading; no load fails after a program
  has opened the device; a loaded driver's handlers have a device to log through even
  where `device_create` is not checked.
* `ZeroesWhatItReturns` (DevZero): the read zeroes nothing behind what it was asked for and
  returns how many bytes it zeroed, although it goes on after a fault; if what is not
  mapped lies behind what is, these are the first ones.
* `UnlockedWhenIdle` (SensorOpen): see Findings.
* `TwoSamplesDecide`, `FarCounter`, `MotorsMatchMode` (Follow): the decision of a
  round follows from any two agreeing samples; a lost target costs exactly
  `NUM_FAR_VALUES` far measurements; the motors do what the mode says during
  every measurement (checked on the real drivers, as `PinsMatchMode`).
* `SettlesOnScene` (Follow, liveness): a scene that stays is answered for good.

The type invariants (`TypeOK`) are shown by the theorems for every instance, and not among
the properties of the runs.

Every property of a passing run has a mutant: an operator in the module, labelled
"a bug the code does not have", whose use in place of the mapped definition makes
TLC find the property violated.

## 4. Runs and bounds

| Run | Instance | Why it is enough |
|---|---|---|
| `hello_open` | 5 files | two can refuse each other while a third closes and a fourth is admitted |
| `sensor_open` | 3 files, all faults, reloads | one closes, one is admitted meanwhile, one is refused |
| `sensor_leak` | 2 files, no faults | the finding, expected to be violated |
| `motor_left` | 3 files on the left motor, five payloads, all faults, the script | one owner and two that race for what it frees; the motors share no pin, and `Drive` has both |
| `sensor_read` | `StableDistance` with timeout 2, echoes after 1, 3 or 5 ticks and 1 or 4 long, or none; preempted anywhere | in time, just past the timeout and far past it; two failed reads and a stale one fit into a round; 1200 values hold the products of up to 3 ticks (343 * 3) but not of 4, so that the long echo wraps, unless the driver starts it late, and the short one wraps when the driver ends it late |
| `drive` | 2 programs (symmetric), both motors, the script, failing directions, faulting copies | two programs can each get one motor; each restarts for ever |
| `rover` | the controller, a remote control, the test program; two limits and a distance on each side, a count of 2 far values | each pair of programs meets at a device; `set_gpios.sh` and pins that keep their level are in `drive`, failing calls of the sensor driver in `sensor_open` |
| `modcontrol_pair` | a reader, a writer, buffer of 3, chunks of 1 and 2, faults, signals | the buffer fills, empties and is hit in the middle of a chunk |
| `modcontrol_serial` | 2 readers, a writer, buffer of 3, no faults | one reader can take what another was woken for |
| `chrdev` | the motor, sensor and hello drivers and the third exercise, every call failing at times | all four shapes of `mod_init`, two of them with the same class name |
| `devzero` | reads of up to 8 bytes in chunks of 3, 10 bytes of memory | no chunk up to three with every rest, faults in none, one or several of them |
| `follow` | the limits of the code, one distance on each side of each limit, the count of the code (10) | only the comparisons with the two limits matter |

All state spaces are finite with these constants; the only bounds that are not in the
code are `MaxClock`, from where times are not told apart (well past the timeout), `MaxErrors`
(a round has three samples). Symmetry is used in `drive`, which checks only invariants. Programs
write one of `MCPayloads`: the ints 1, 0 and -1, one text byte, nothing, and with the
fault "copy" any shorter prefix of these.

## 5. Fairness

Three runs assume weak fairness:

* `follow`: of the controller's steps (`WF_vars(Program)`). `main` is one thread that waits
  for nothing but a read with an echo, and `ReadDistance` is enabled only while there is
  one, so the assumption is that the scheduler runs the process, and that a read of a
  sensor with an echo returns (`ReadReturns`). The formulas promise something only for
  scenes that give an echo from some time on.
* `sensor_read`: of `Tick`, as time does not stop, and of the steps of a read that has
  begun, which busy-waits and is scheduled again.
* `modcontrol_pair`: of the steps of calls that have begun, per process. Nothing obliges
  a process to begin a call, and a sleeping reader has no fair step until it is woken.

## 6. Proofs

TLAPS proves, for any finite set of files (any set, for the motors), any faults and
payloads, any limits with AVG <= MAX, any set of distances, any timeout, delays and widths:

* `HelloOpenProofs`: `LockCount`, `TypeOK`, and the refinement of `ExclusiveOpen`.
* `SensorOpenProofs`: `LockCount`, `TypeOK`, `DenialJustified` and the refinement from
  `LockInv`; `OpenOwnsPins` and `ClaimEndsByItsOwner` from `PinInv`. And
  `SensorLockedByFailure`: with every file closed the sensor is unlocked exactly when no open
  has failed since the module was loaded, and only a reload unlocks it again. A failed
  open, as in the finding, is therefore the only thing that locks it for good.
* `SensorReadProofs`: `TypeOK`, `StaleOnlyAfterTimeout`, `GivesUpWithReason`,
  `ErrorWithinLost` and `ErrorInMicrometers`, for an unsigned long of any width and for echoes
  of any length; and over them `OneStalePerError` and `OneErrorNeverDecides` of
  `StableDistance`.
* `MotorDriverProofs`: `TypeOK`, `OpenOwnsPins`, `ClaimEndsByItsOwner`,
  `MotorObeysLastWrite`, `BothHighOnlyWhenReversing` and the refinement for both motors;
  `MotorGoesByTheInt`: the direction of a write is the sign of the little-endian int that
  the bytes it copied make.
* `RoverProofs`: `DriveSpec` implements `MotorDriver`'s `Spec`, and `RoverSpec` implements both
  that and `SensorOpen`'s, so that all theorems about the drivers hold under any number of
  programs; from the motor driver's invariant the properties of `drive`, and all the
  properties of `rover` including `RunsFollow`, which refines the controller. The theorems
  about the parts hold for the whole: `RoverSharesTheMotors` and `RoverSharesTheSensor` for
  the drivers, `RoverFarCounter` and `RoverTwoSamplesDecide` for the controller's decisions.
* `ModControlProofs`: `SleepersWillBeWoken` for any readers and writers; `InBounds` for at most
  one of each and any size of the buffer. Of its two halves, the lower bound needs one
  reader but any writers (`OneReaderNeverUnderruns`), the upper one a single writer but any
  readers (`OneWriterNeverOverfills`); with two readers, or two writers, TLC finds the bound
  broken. Both say what the calls' arithmetic does to the count: what a copy outside the
  buffer overwrites is not in the model. `SerialCallsImplementByteStack`: calls that do
  not overlap, with copies that do not fault and counts other than 0, implement `ByteStack`,
  for any number of processes.
* `ChrdevInitProofs`: the four properties of the run, for any set of the drivers and of
  failing calls; `ZeroesWhatItReturns` for any size of the buffer, count and memory.
* `FollowProofs`: `median3` is the median and symmetric (C does not fix the order of
  the three reads), `TypeOK`, `FarCounter`, `MotorsMatchMode`, `TwoSamplesDecide`; and
  `FollowSettlesStepByStep`, the safety half of `SettlesOnScene`: while the distance ahead
  stays, every step of the program brings it nearer to its answer, of which there are at most
  `6 * MostRounds + 9`, and once there it stays.

The arguments. *Counter*: exclusiveness alone is not inductive, because the admission
test looks at the counter and not at the other files; the exact count turns "the
increment gave 0" into "nobody is counted". `AbandonedForGood` is needed in addition for
the sensor: after a lost increment nobody is permitted, so there is never a second one.
*Pins*: `PinInv` lists, for each place of a file, the pins it owns there. A request
never changes an existing claim and a file frees only what `PinInv` says it owns, so
each file's part is preserved by the steps of the others. For the motors the levels
follow, since a level changes only by the claimant of the pin. *Sensor*: a stale echo
needs a sensor that was busy at the trigger, and the invariants say when it can be:
after a read that measured an echo to its end it is not (`QuietUnlessTimedOut`). For the
error, `Owed` says at each place of the read how far the clock may be behind or ahead of
the sensor: by what was lost and no more. *Three reads*: a failed read is pending until
the next one succeeds (`Pending`), so that stale samples and the pending failure
together never exceed the errors. *Programs*: a program at a given place knows where its
files are in their handlers and what they have written; the rest is the drivers' own
invariants. For the claims, `ClaimInv` says where a program's files can be at all: only
a refused request could leave the handlers with something kept, and `refused` remembers
that. The controller needs in addition that what it has told a motor is what the file
holds (`FollowerInv`). *modcontrol*: with one process on each side the count only falls
under the writer and only rises under the reader, so an old count errs to the safe side
(`ReadsFit` for a single reader, `WritesFit` for a single writer). Without overlap at most
one process is in a call (`Alone`), the count it has read is still the count, and its copy
works (`SerialInv`): `Sub` and `Add` are then the pop and the push of the stack, and every
other step a stutter. *Registration*: the invariant lists what a driver holds at each place, and
no driver touches another one's. *Zero device*: the bytes zeroed and those not copied
add up to how far the loop has come (`ZeroInv`). *Controller*: `FarCounter` needs that
nothing was counted before the devices are open, `MotorsMatchMode` that the left motor
has been told when the right one is written. Settling has a rank, `StepsLeft`: the rounds
still to be measured in front of this distance, six steps each, and what is left of the
present one. *The whole rover*: a step of `RoverNext` is a step of the part or leaves its
variables alone, so the invariant of `Follow` is one of the composition (`FollowInvariant`,
through the instance `FP`), and `SensorOpen`'s specification is implemented (`SP`).

The proofs rest on the named assumptions of the modules (`HelloAssumption`,
`SensorAssumption`, `SensorReadAssumption`, `MotorAssumption`, `DriveAssumption`,
`RoverAssumption`, `ModControlAssumption`, `ChrdevAssumption`, `DevZeroAssumption`, `FollowAssumption`), which TLC
evaluates in the runs. Only model-checked is
liveness (`SettlesOnScene`, `ReadReturns`, `WaitingReadReturns`), which is out of the
prover's reach; of the first, everything but the fairness argument is proved. That settling
also holds over the real drivers is not proved, since its rank depends on the scene,
which `Rover` does not have as a variable.

## 7. What is not modelled

* The memory of `struct instance_data`, lost by failed opens.
* What a freed pin does: whether a motor whose program was killed goes on.
* The copy of the distance to the user: all callers ask for the whole of it.
* The wait queue of modcontrol before `init_waitqueue_head`, which comes after
  `device_create`: a program that reads in between uses it uninitialised.
* Device files made by hand, and two drivers that get the same device number because
  one of them left a stale cdev.
* Two threads writing to one open motor file: the programs of the repository have one
  thread each and share no file.
* Holes in the memory that a read of the zero device is given: what is returned is then
  the number of zeroes but not where they are.
* How long anything takes other than a read of the sensor: the second of drive.c's pulse, for
  example.
* `get_stable_distance`, `MIN_DIST_UM` and `FOLLOW_STOP` of follow.c: nothing uses them.
* Logging and what programs print, the uninitialised distance of sensor_test.c included.
* `start_el.sh` and the scripts that build images: sequences of commands of other programs
  (tunctl, iptables, QEMU, mkimage), without a decision of their own.
* Kernel images, and BusyBox: two vendored copies of the same release, used unchanged. They
  are all but about 1240 of the half million lines of C and shell in the repository, so that
  the share of all lines that is modelled says little; of the repository's own code
  it is more than half, and the rest is includes, logging and the scripts above.

## 8. Findings

*The sensor can stay locked* (run `sensor_leak`). `driver_close` logs "device unlocked"
and gives `driver_lock` up before it frees the pins. A file that opens in between is
permitted, fails on `gpio_request`, and returns -EIO without giving the counter back:
with all files closed, every further open returns -EBUSY.

## 9. Plan

Done: all modules of section 2, with proofs for every component. What could
still be added:

1. `ModControl` with several readers and writers: by how much the count can leave the buffer.
2. A second writer to one open motor file, and the wait queue of modcontrol in `ChrdevInit`,
   if a program of the repository ever has two threads or opens modcontrol early.
3. A bound on how long a read of the sensor takes, in ticks, and a rank for it as for
   the controller.
4. The settling of the controller over the real drivers.
