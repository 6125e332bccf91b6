-------------------------- MODULE SensorOpenProofs --------------------------
(***************************************************************************)
(* The sensor's exclusive access, for any finite set of files and any set  *)
(* of possible faults.  Two inductive invariants that do not need each     *)
(* other: LockInv about the counter, PinInv about the claims of the pins.  *)
(***************************************************************************)
EXTENDS SensorOpen, FiniteSetTheorems, TLAPS

TypeInv ==
  /\ driver_lock \in Int
  /\ owner \in [Pins -> Files \cup {Free}]
  /\ pc \in [Files -> Places]
  /\ err1 \in [Files -> BOOLEAN]
  /\ abandoned \in Files \cup {Free}

AtMostOnePermitted ==
  \A f, g \in Files : pc[f] \in Permitted /\ pc[g] \in Permitted => f = g

AbandonedForGood ==
  abandoned # Free => \A f \in Files : pc[f] \notin Permitted

LockInv == TypeInv /\ LockCount /\ AtMostOnePermitted /\ AbandonedForGood

(* Which pins a file owns at each place of its handlers.                   *)
PinInv ==
  \A f \in Files :
    /\ pc[f] = "request_trig" /\ ~err1[f] => owner["echo"] = f
    /\ pc[f] \in {"direction", "undo_trig", "open", "close_echo"} =>
         owner["echo"] = f /\ owner["trig"] = f
    /\ pc[f] = "undo_echo" => owner["echo"] = f
    /\ pc[f] = "close_trig" => owner["trig"] = f

LEMMA CountedFinite ==
  /\ IsFiniteSet(Counted)
  /\ Cardinality(Counted) \in Nat
  /\ Cardinality(Counted) <= Cardinality(Files)
<1>1. Counted \in SUBSET Files
  BY DEF Counted
<1>2. QED
  BY <1>1, SensorAssumption, FS_Subset, FS_CardinalityType

LEMMA InitLockInv == Init => LockInv
<1> SUFFICES ASSUME Init PROVE LockInv
  OBVIOUS
<1>1. Counted = {}
  BY DEF Init, Counted, Permitted
<1>2. LockCount
  BY <1>1, FS_EmptySet DEF Init, LockCount
<1>3. QED
  BY <1>2 DEF Init, LockInv, TypeInv, AtMostOnePermitted, AbandonedForGood,
              Places, Permitted

LEMMA NextTypeInv == TypeInv /\ [Next]_vars => TypeInv'
<1> SUFFICES ASSUME TypeInv, [Next]_vars PROVE TypeInv'
  OBVIOUS
<1> USE DEF TypeInv, Goto, Places, Permitted, Closing
<1>1. ASSUME NEW f \in Files, TryOpen(f) \/ Deny(f) PROVE TypeInv'
  BY <1>1 DEF TryOpen, Deny
<1>2. ASSUME NEW f \in Files, Kmalloc(f) \/ SetDirections(f) PROVE TypeInv'
  BY <1>2 DEF Kmalloc, SetDirections, ReturnEIO
<1>3. ASSUME NEW f \in Files, RequestEcho(f) PROVE TypeInv'
  BY <1>3 DEF RequestEcho, GpioRequest, Requested, Pins
<1>4. ASSUME NEW f \in Files, RequestTrig(f) PROVE TypeInv'
  BY <1>4 DEF RequestTrig, GpioRequest, Requested, Pins, ReturnEIO
<1>5. ASSUME NEW f \in Files, UndoTrig(f) \/ UndoEcho(f) PROVE TypeInv'
  BY <1>5 DEF UndoTrig, UndoEcho, GpioFree, Pins, ReturnEIO
<1>6. ASSUME NEW f \in Files, DriverClose(f) PROVE TypeInv'
  BY <1>6 DEF DriverClose, CloseUnlock, CloseEcho, CloseTrig, GpioFree, Pins
<1>7. CASE Reload
  BY <1>7 DEF Reload
<1>8. CASE UNCHANGED vars
  BY <1>8 DEF vars
<1>9. QED
  BY <1>1, <1>2, <1>3, <1>4, <1>5, <1>6, <1>7, <1>8 DEF Next, DriverOpen

(* A step inside the permitted section, or inside driver_close after the   *)
(* atomic_dec, that neither ends the section nor touches the counter.      *)
LEMMA InsideStep ==
  ASSUME LockInv, TypeInv', NEW f \in Files, NEW place,
         Goto(f, place), UNCHANGED <<driver_lock, abandoned>>,
         pc[f] # "deny", place # "deny",
         pc[f] \in Permitted <=> place \in Permitted
  PROVE  LockInv'
<1> USE DEF LockInv, TypeInv, Goto
<1>1. Counted' = Counted
  BY DEF Counted
<1>2. LockCount'
  BY <1>1 DEF LockCount
<1>3. QED
  BY <1>2 DEF AtMostOnePermitted, AbandonedForGood

(* A failed open: the increment moves from the file to the history.        *)
LEMMA EIOStep ==
  ASSUME LockInv, TypeInv', NEW f \in Files, ReturnEIO(f),
         UNCHANGED driver_lock, pc[f] \in Permitted
  PROVE  LockInv'
<1> USE DEF LockInv, TypeInv, ReturnEIO, Goto
<1>1. Counted' = Counted \ {f} /\ f \in Counted
  BY DEF Counted, Permitted
<1>2. Cardinality(Counted)' = Cardinality(Counted) - 1
  BY <1>1, CountedFinite, FS_RemoveElement
<1>3. abandoned = Free /\ abandoned' # Free
  BY SensorAssumption DEF AbandonedForGood
<1>4. LockCount'
  BY <1>2, <1>3, CountedFinite DEF LockCount
<1>5. QED
  BY <1>4 DEF AtMostOnePermitted, AbandonedForGood, Permitted

(* A file that gives its increment back.                                   *)
LEMMA DecrementStep ==
  ASSUME LockInv, TypeInv', NEW f \in Files, NEW place,
         Goto(f, place), driver_lock' = driver_lock - 1, UNCHANGED abandoned,
         f \in Counted, place \notin Permitted \cup {"deny"}
  PROVE  LockInv'
<1> USE DEF LockInv, TypeInv, Goto
<1>1. Counted' = Counted \ {f}
  BY DEF Counted
<1>2. Cardinality(Counted)' = Cardinality(Counted) - 1
  BY <1>1, CountedFinite, FS_RemoveElement
<1>3. LockCount'
  BY <1>2, CountedFinite DEF LockCount
<1>4. QED
  BY <1>3 DEF AtMostOnePermitted, AbandonedForGood

(* The admission test: only a counter at -1 admits, and then the exact     *)
(* count says that nobody is permitted and no increment is lost.           *)
LEMMA TryOpenStep ==
  ASSUME LockInv, TypeInv', NEW f \in Files, TryOpen(f)
  PROVE  LockInv'
<1> USE DEF LockInv, TypeInv, TryOpen, Goto
<1>1. Counted' = Counted \cup {f} /\ f \notin Counted
  BY DEF Counted, Permitted
<1>2. Cardinality(Counted)' = Cardinality(Counted) + 1
  BY <1>1, CountedFinite, FS_AddElement
<1>3. LockCount'
  BY <1>2, CountedFinite DEF LockCount
<1>4. CASE driver_lock + 1 = 0
  <2>1. Cardinality(Counted) = 0 /\ abandoned = Free
    BY <1>4, CountedFinite DEF LockCount
  <2>2. Counted = {}
    BY <2>1, CountedFinite, FS_EmptySet
  <2>3. \A g \in Files : pc[g] \notin Permitted
    BY <2>2 DEF Counted
  <2>4. AtMostOnePermitted'
    BY <2>3 DEF AtMostOnePermitted
  <2>5. AbandonedForGood'
    BY <2>1 DEF AbandonedForGood
  <2>6. QED
    BY <1>3, <2>4, <2>5
<1>5. CASE driver_lock + 1 # 0
  BY <1>3, <1>5 DEF AtMostOnePermitted, AbandonedForGood, Permitted
<1>6. QED
  BY <1>4, <1>5

LEMMA NextLockInv == LockInv /\ [Next]_vars => LockInv'
<1> SUFFICES ASSUME LockInv, [Next]_vars PROVE LockInv'
  OBVIOUS
<1>0. TypeInv'
  BY NextTypeInv DEF LockInv
<1>1. ASSUME NEW f \in Files, TryOpen(f) PROVE LockInv'
  BY <1>0, <1>1, TryOpenStep
<1>2. ASSUME NEW f \in Files, Deny(f) PROVE LockInv'
  <2>1. f \in Counted
    BY <1>2 DEF Deny, Counted
  <2>2. QED
    BY <1>0, <1>2, <2>1, DecrementStep DEF Deny, Permitted
<1>3. ASSUME NEW f \in Files, Kmalloc(f) PROVE LockInv'
  <2>1. CASE Goto(f, "request_echo") /\ UNCHANGED abandoned
    BY <1>0, <1>3, <2>1, InsideStep DEF Kmalloc, Permitted
  <2>2. CASE ReturnEIO(f)
    BY <1>0, <1>3, <2>2, EIOStep DEF Kmalloc, Permitted
  <2>3. QED
    BY <1>3, <2>1, <2>2 DEF Kmalloc
<1>4. ASSUME NEW f \in Files, RequestEcho(f) PROVE LockInv'
  BY <1>0, <1>4, InsideStep DEF RequestEcho, Permitted
<1>5. ASSUME NEW f \in Files, RequestTrig(f) PROVE LockInv'
  <2>1. CASE ReturnEIO(f)
    BY <1>0, <1>5, <2>1, EIOStep DEF RequestTrig, Permitted
  <2>2. CASE Goto(f, "direction") /\ UNCHANGED abandoned
    BY <1>0, <1>5, <2>2, InsideStep DEF RequestTrig, Permitted
  <2>3. QED
    BY <1>5, <2>1, <2>2 DEF RequestTrig
<1>6. ASSUME NEW f \in Files, SetDirections(f) PROVE LockInv'
  <2>1. PICK place \in {"open", "undo_trig"} : Goto(f, place)
    BY <1>6 DEF SetDirections
  <2>2. QED
    BY <1>0, <1>6, <2>1, InsideStep DEF SetDirections, Permitted
<1>7. ASSUME NEW f \in Files, UndoTrig(f) PROVE LockInv'
  BY <1>0, <1>7, InsideStep DEF UndoTrig, Permitted
<1>8. ASSUME NEW f \in Files, UndoEcho(f) PROVE LockInv'
  BY <1>0, <1>8, EIOStep DEF UndoEcho, Permitted
<1>9. ASSUME NEW f \in Files, CloseUnlock(f) PROVE LockInv'
  <2>1. f \in Counted
    BY <1>9 DEF CloseUnlock, Counted, Permitted
  <2>2. QED
    BY <1>0, <1>9, <2>1, DecrementStep DEF CloseUnlock, Permitted
<1>10. ASSUME NEW f \in Files, CloseEcho(f) \/ CloseTrig(f) PROVE LockInv'
  <2>1. PICK place \in {"close_trig", "idle"} : Goto(f, place)
    BY <1>10 DEF CloseEcho, CloseTrig
  <2>2. QED
    BY <1>0, <1>10, <2>1, InsideStep DEF CloseEcho, CloseTrig, Permitted
<1>11. CASE Reload
  <2>1. Counted' = {}
    BY <1>11 DEF Reload, Counted, Permitted
  <2>2. LockCount'
    BY <1>11, <2>1, FS_EmptySet DEF Reload, LockCount
  <2>3. QED
    BY <1>0, <1>11, <2>2
    DEF Reload, LockInv, AtMostOnePermitted, AbandonedForGood, Permitted
<1>12. CASE UNCHANGED vars
  BY <1>12 DEF vars, LockInv, TypeInv, LockCount, Counted, AtMostOnePermitted,
               AbandonedForGood
<1>13. QED
  BY <1>1, <1>2, <1>3, <1>4, <1>5, <1>6, <1>7, <1>8, <1>9, <1>10, <1>11, <1>12
  DEF Next, DriverOpen, DriverClose

-----------------------------------------------------------------------------
(* The exact count survives every interleaving of opens, refusals, faults  *)
(* and closes: driver_lock of sensor_treiber.c loses at most the one       *)
(* increment that a failed open keeps.                                     *)
THEOREM SensorLockCount == Spec => []LockCount
<1>1. LockInv => LockCount
  BY DEF LockInv
<1>2. QED
  BY InitLockInv, NextLockInv, <1>1, PTL DEF Spec

(* When exactly the log line "device unlocked" is true: with every file    *)
(* closed the device is unlocked unless an open has failed since the       *)
(* module was loaded, and then nobody is permitted, ...                    *)
LockedByFailure ==
  /\ (\A f \in Files : pc[f] = "idle") => (driver_lock = -1 <=> abandoned = Free)
  /\ abandoned # Free => driver_lock >= 0 /\ \A f \in Files : pc[f] \notin Permitted

(* ... for as long as the module is not loaded again.                      *)
OnlyReloadUnlocks == [][abandoned # Free => UNCHANGED abandoned \/ Reload]_vars

(* What one failed driver_open costs: the device, until the next insmod,   *)
(* and nothing else ever costs it.                                         *)
THEOREM SensorLockedByFailure == Spec => []LockedByFailure /\ OnlyReloadUnlocks
<1>1. LockInv => LockedByFailure
  <2> SUFFICES ASSUME LockInv PROVE LockedByFailure
    OBVIOUS
  <2>1. (\A f \in Files : pc[f] = "idle") => Cardinality(Counted) = 0
    <3>1. (\A f \in Files : pc[f] = "idle") => Counted = {}
      BY DEF Counted, Permitted
    <3>2. QED
      BY <3>1, FS_EmptySet
  <2>2. QED
    BY <2>1, CountedFinite DEF LockInv, LockCount, AbandonedForGood, LockedByFailure
<1>2. LockInv /\ [Next]_vars => [abandoned # Free => UNCHANGED abandoned \/ Reload]_vars
  <2> SUFFICES ASSUME LockInv, Next, abandoned # Free, ~Reload PROVE UNCHANGED abandoned
    OBVIOUS
  <2>1. \A f \in Files : pc[f] \notin Permitted
    BY DEF LockInv, AbandonedForGood
  <2>2. QED
    BY <2>1
    DEF Next, DriverOpen, DriverClose, TryOpen, Deny, Kmalloc, RequestEcho, RequestTrig,
        SetDirections, UndoTrig, UndoEcho, CloseUnlock, CloseEcho, CloseTrig, Permitted
<1>3. QED
  BY InitLockInv, NextLockInv, <1>1, <1>2, PTL DEF Spec, OnlyReloadUnlocks

(* The types, with the bounds of the counter: the lost increment and all   *)
(* openers at once are never in it together with a permitted file.         *)
THEOREM SensorTypeOK == Spec => []TypeOK
<1>1. LockInv => TypeOK
  <2> SUFFICES ASSUME LockInv PROVE TypeOK
    OBVIOUS
  <2>1. Cardinality(Files) \in Nat
    BY SensorAssumption, FS_CardinalityType
  <2>2. QED
    BY <2>1, CountedFinite DEF LockInv, TypeInv, TypeOK, LockCount
<1>2. QED
  BY InitLockInv, NextLockInv, <1>1, PTL DEF Spec

-----------------------------------------------------------------------------
LEMMA InitPinInv == Init => PinInv
BY DEF Init, PinInv

LEMMA NextPinInv == TypeInv /\ PinInv /\ [Next]_vars => PinInv'
<1> SUFFICES ASSUME TypeInv, PinInv, [Next]_vars PROVE PinInv'
  OBVIOUS
<1> USE DEF TypeInv, PinInv, Goto, Pins
<1>1. ASSUME NEW f \in Files, TryOpen(f) \/ Deny(f) \/ Kmalloc(f) PROVE PinInv'
  BY <1>1 DEF TryOpen, Deny, Kmalloc, ReturnEIO
<1>2. ASSUME NEW f \in Files, RequestEcho(f) PROVE PinInv'
  BY <1>2, SensorAssumption DEF RequestEcho, GpioRequest, Requested
<1>3. ASSUME NEW f \in Files, RequestTrig(f) PROVE PinInv'
  BY <1>3, SensorAssumption DEF RequestTrig, GpioRequest, Requested, ReturnEIO
<1>4. ASSUME NEW f \in Files, SetDirections(f) PROVE PinInv'
  BY <1>4 DEF SetDirections
<1>5. ASSUME NEW f \in Files, UndoTrig(f) PROVE PinInv'
  BY <1>5 DEF UndoTrig, GpioFree
<1>6. ASSUME NEW f \in Files, UndoEcho(f) PROVE PinInv'
  BY <1>6 DEF UndoEcho, GpioFree, ReturnEIO
<1>7. ASSUME NEW f \in Files, CloseUnlock(f) PROVE PinInv'
  BY <1>7 DEF CloseUnlock
<1>8. ASSUME NEW f \in Files, CloseEcho(f) PROVE PinInv'
  BY <1>8 DEF CloseEcho, GpioFree
<1>9. ASSUME NEW f \in Files, CloseTrig(f) PROVE PinInv'
  BY <1>9 DEF CloseTrig, GpioFree
<1>10. CASE Reload
  BY <1>10 DEF Reload
<1>11. CASE UNCHANGED vars
  BY <1>11 DEF vars
<1>12. QED
  BY <1>1, <1>2, <1>3, <1>4, <1>5, <1>6, <1>7, <1>8, <1>9, <1>10, <1>11
  DEF Next, DriverOpen, DriverClose

(* A file whose driver_open returned 0 owns the echo and the trigger pin   *)
(* until its driver_close frees them.                                      *)
THEOREM SensorOpenOwnsPins == Spec => []OpenOwnsPins
<1>1. PinInv => OpenOwnsPins
  BY DEF PinInv, OpenOwnsPins, Pins
<1>2. LockInv => TypeInv
  BY DEF LockInv
<1>3. QED
  BY InitLockInv, NextLockInv, InitPinInv, NextPinInv, <1>1, <1>2, PTL DEF Spec

(* gpio_free is only ever called for a pin that the calling file claimed.  *)
THEOREM SensorClaimEndsByItsOwner == Spec => ClaimEndsByItsOwner
<1> DEFINE Step ==
      \A p \in Pins :
        owner[p] # Free /\ owner'[p] # owner[p] =>
          pc[owner[p]] \in Releasing /\ pc'[owner[p]] # pc[owner[p]]
<1>1. TypeInv /\ PinInv /\ [Next]_vars => [Step]_vars
  <2> SUFFICES ASSUME TypeInv, PinInv, Next, NEW p \in Pins,
                      owner[p] # Free, owner'[p] # owner[p]
               PROVE  pc[owner[p]] \in Releasing /\ pc'[owner[p]] # pc[owner[p]]
    BY DEF vars
  <2> USE DEF TypeInv, PinInv, Goto, Pins, Releasing
  <2>1. CASE Reload
    BY <2>1 DEF Reload
  <2>2. ASSUME NEW f \in Files, DriverOpen(f)
        PROVE  pc[owner[p]] \in Releasing /\ pc'[owner[p]] # pc[owner[p]]
    <3>1. CASE TryOpen(f) \/ Deny(f) \/ Kmalloc(f) \/ SetDirections(f)
      BY <3>1 DEF TryOpen, Deny, Kmalloc, SetDirections
    <3>2. CASE RequestEcho(f) \/ RequestTrig(f)
      BY <3>2 DEF RequestEcho, RequestTrig, GpioRequest, Requested
    <3>3. CASE UndoTrig(f)
      BY <3>3 DEF UndoTrig, GpioFree
    <3>4. CASE UndoEcho(f)
      BY <3>4 DEF UndoEcho, GpioFree, ReturnEIO
    <3>5. QED
      BY <2>2, <3>1, <3>2, <3>3, <3>4 DEF DriverOpen
  <2>3. ASSUME NEW f \in Files, DriverClose(f)
        PROVE  pc[owner[p]] \in Releasing /\ pc'[owner[p]] # pc[owner[p]]
    BY <2>3 DEF DriverClose, CloseUnlock, CloseEcho, CloseTrig, GpioFree
  <2>4. QED
    BY <2>1, <2>2, <2>3 DEF Next
<1>2. LockInv => TypeInv
  BY DEF LockInv
<1>3. QED
  BY InitLockInv, NextLockInv, InitPinInv, NextPinInv, <1>1, <1>2, PTL
  DEF Spec, ClaimEndsByItsOwner

(* A refusal always has a culprit: a file that is permitted, a refusal     *)
(* that has not returned yet, or the increment lost by a failed open.      *)
THEOREM SensorDenialJustified == Spec => DenialJustified
<1> DEFINE Step ==
      \A f \in Files :
        pc[f] = "idle" /\ pc'[f] = "deny" =>
          \/ abandoned # Free
          \/ \E g \in Files \ {f} : pc[g] \in Permitted \cup {"deny"}
<1>1. LockInv /\ [Next]_vars => [Step]_vars
  <2> SUFFICES ASSUME LockInv, Next, NEW f \in Files, abandoned = Free,
                      pc[f] = "idle", pc'[f] = "deny"
               PROVE  \E g \in Files \ {f} : pc[g] \in Permitted \cup {"deny"}
    BY DEF vars
  <2> USE DEF LockInv, TypeInv, Goto
  <2>1. PICK g \in Files : DriverOpen(g) \/ DriverClose(g)
    BY DEF Next, Reload
  <2>2. TryOpen(g) /\ g = f
    BY <2>1 DEF DriverOpen, DriverClose, TryOpen, Deny, Kmalloc, RequestEcho,
      RequestTrig, SetDirections, UndoTrig, UndoEcho, CloseUnlock, CloseEcho,
      CloseTrig, ReturnEIO
  <2>3. driver_lock + 1 # 0
    BY <2>2 DEF TryOpen
  <2>4. Cardinality(Counted) # 0
    BY <2>3, CountedFinite DEF LockCount
  <2>5. Counted # {}
    BY <2>4, FS_EmptySet
  <2>6. QED
    BY <2>5 DEF Counted, Permitted
<1>2. QED
  BY InitLockInv, NextLockInv, <1>1, PTL DEF Spec, DenialJustified

-----------------------------------------------------------------------------
(* The holder named by the refinement mapping.                             *)
LEMMA HolderIsPermitted ==
  ASSUME AtMostOnePermitted, NEW f \in Files, pc[f] \in Permitted
  PROVE  Holder = f
BY DEF AtMostOnePermitted, Holder

LEMMA HolderOfNobody ==
  ASSUME \A f \in Files : pc[f] \notin Permitted
  PROVE  Holder = abandoned
BY DEF Holder

(* A step that leaves the abandoned increment and everybody's membership   *)
(* of the permitted section alone is a stutter of the abstract device.     *)
LEMMA SameHolder ==
  ASSUME LockInv, LockInv', NEW f \in Files, NEW place, Goto(f, place),
         UNCHANGED abandoned, pc[f] \in Permitted <=> place \in Permitted
  PROVE  Holder' = Holder
<1>1. \A g \in Files : pc'[g] \in Permitted <=> pc[g] \in Permitted
  BY DEF LockInv, TypeInv, Goto
<1>2. CASE \E g \in Files : pc[g] \in Permitted
  <2>1. PICK g \in Files : pc[g] \in Permitted
    BY <1>2
  <2>2. Holder = g
    BY <2>1, HolderIsPermitted DEF LockInv
  <2>3. Holder' = g
    BY <2>1, <1>1 DEF LockInv, AtMostOnePermitted, Holder
  <2>4. QED
    BY <2>2, <2>3
<1>3. CASE \A g \in Files : pc[g] \notin Permitted
  BY <1>1, <1>3 DEF Holder
<1>4. QED
  BY <1>2, <1>3

(* A failed open: the file that was permitted becomes the one whose        *)
(* increment is lost, so the abstract holder stays.                        *)
LEMMA SameHolderEIO ==
  ASSUME LockInv, LockInv', NEW f \in Files, ReturnEIO(f), pc[f] \in Permitted
  PROVE  Holder' = Holder
<1>1. Holder = f
  BY HolderIsPermitted DEF LockInv
<1>2. abandoned' = f /\ f # Free
  BY SensorAssumption DEF ReturnEIO
<1>3. \A g \in Files : pc'[g] \notin Permitted
  BY <1>2 DEF LockInv, AbandonedForGood
<1>4. QED
  BY <1>1, <1>2, <1>3 DEF Holder

(* sensor_treiber.c implements the exclusive device: a step permits a file *)
(* when nobody holds the device, gives the device up, or changes nothing.  *)
THEOREM SensorRefines == Spec => ImplementsExclusiveOpen
<1>1. Init => Exclusive!Init
  BY HolderOfNobody DEF Init, Exclusive!Init, Permitted
<1>2. LockInv /\ LockInv' /\ [Next]_vars => [Exclusive!Next]_Holder
  <2> SUFFICES ASSUME LockInv, LockInv', [Next]_vars
               PROVE  [Exclusive!Next]_Holder
    OBVIOUS
  <2>1. ASSUME NEW f \in Files, TryOpen(f) PROVE [Exclusive!Next]_Holder
    <3>1. CASE driver_lock + 1 = 0
      <4>1. Cardinality(Counted) = 0 /\ abandoned = Free
        BY <3>1, CountedFinite DEF LockInv, LockCount
      <4>2. Counted = {}
        BY <4>1, CountedFinite, FS_EmptySet
      <4>3. Holder = Free
        BY <4>1, <4>2, HolderOfNobody DEF Counted
      <4>4. pc'[f] \in Permitted
        BY <2>1, <3>1 DEF TryOpen, Goto, LockInv, TypeInv, Permitted
      <4>5. Holder' = f
        BY <4>4 DEF LockInv, AtMostOnePermitted, Holder
      <4>6. QED
        BY <4>3, <4>5 DEF Exclusive!Next, Exclusive!Acquire
    <3>2. CASE driver_lock + 1 # 0
      BY <2>1, <3>2, SameHolder DEF TryOpen, Permitted
    <3>3. QED
      BY <3>1, <3>2
  <2>2. ASSUME NEW f \in Files, Deny(f) PROVE [Exclusive!Next]_Holder
    BY <2>2, SameHolder DEF Deny, Permitted
  <2>3. ASSUME NEW f \in Files, Kmalloc(f) PROVE [Exclusive!Next]_Holder
    BY <2>3, SameHolder, SameHolderEIO DEF Kmalloc, Permitted
  <2>4. ASSUME NEW f \in Files, RequestEcho(f) PROVE [Exclusive!Next]_Holder
    BY <2>4, SameHolder DEF RequestEcho, Permitted
  <2>5. ASSUME NEW f \in Files, RequestTrig(f) PROVE [Exclusive!Next]_Holder
    BY <2>5, SameHolder, SameHolderEIO DEF RequestTrig, Permitted
  <2>6. ASSUME NEW f \in Files, SetDirections(f) PROVE [Exclusive!Next]_Holder
    BY <2>6, SameHolder DEF SetDirections, Permitted
  <2>7. ASSUME NEW f \in Files, UndoTrig(f) PROVE [Exclusive!Next]_Holder
    BY <2>7, SameHolder DEF UndoTrig, Permitted
  <2>8. ASSUME NEW f \in Files, UndoEcho(f) PROVE [Exclusive!Next]_Holder
    BY <2>8, SameHolderEIO DEF UndoEcho, Permitted
  <2>9. ASSUME NEW f \in Files, CloseUnlock(f) PROVE [Exclusive!Next]_Holder
    <3>1. Holder = f /\ abandoned = Free
      BY <2>9, HolderIsPermitted
      DEF CloseUnlock, LockInv, AbandonedForGood, Permitted
    <3>2. \A g \in Files : pc'[g] \notin Permitted
      BY <2>9 DEF CloseUnlock, Goto, LockInv, TypeInv, AtMostOnePermitted, Permitted
    <3>3. Holder' = Free
      BY <2>9, <3>1, <3>2 DEF Holder, CloseUnlock
    <3>4. QED
      BY <3>1, <3>3 DEF Exclusive!Next, Exclusive!Release
  <2>10. ASSUME NEW f \in Files, CloseEcho(f) \/ CloseTrig(f)
         PROVE  [Exclusive!Next]_Holder
    BY <2>10, SameHolder DEF CloseEcho, CloseTrig, Permitted
  <2>11. CASE Reload
    <3>1. Holder = abandoned /\ Holder' = Free
      BY <2>11 DEF Reload, Holder, Permitted
    <3>2. abandoned \in Files \cup {Free}
      BY DEF LockInv, TypeInv
    <3>3. QED
      BY <3>1, <3>2 DEF Exclusive!Next, Exclusive!Release
  <2>12. CASE UNCHANGED vars
    BY <2>12 DEF vars, Holder
  <2>13. QED
    BY <2>1, <2>2, <2>3, <2>4, <2>5, <2>6, <2>7, <2>8, <2>9, <2>10, <2>11, <2>12
    DEF Next, DriverOpen, DriverClose
<1>3. QED
  BY InitLockInv, NextLockInv, <1>1, <1>2, PTL
  DEF Spec, ImplementsExclusiveOpen, Exclusive!Spec
=============================================================================
