-------------------------- MODULE ChrdevInitProofs --------------------------
(***************************************************************************)
(* Registration, for any drivers and any failing calls.  The inductive     *)
(* invariant lists what a driver holds at each place of mod_init and       *)
(* mod_exit; no driver's part of it is touched by the others.  After it    *)
(* the read of the zero device, for any count, buffer and memory.          *)
(***************************************************************************)
EXTENDS ChrdevInit, DevZero, FiniteSetTheorems, TLAPS

HasDevice == {"device_create_2", "finish", "loaded", "oops", "device_destroy_2", "device_destroy"}
HasClass == {"device_create", "free_class", "class_destroy"} \cup HasDevice
HasCdev == {"class_create", "cdev_del"} \cup HasClass
NoCdev == {"out", "cdev_alloc", "free_region", "unregister"}

Places == HasCdev \cup NoCdev \cup {"cdev_add", "free_cdev"}

TypeInv ==
  /\ pc \in [Drivers -> Places]
  /\ cdev \in [Drivers -> {"none", "allocated", "live"}]
  /\ dev \in [Drivers -> {"null", "valid", "error"}]
  /\ nodes \in [Drivers -> SUBSET {0, 1}]
  /\ files \in [Drivers -> SUBSET {0, 1}]

(* The number and the cdev.                                                *)
CdevInv ==
  \A d \in Drivers :
    /\ d \in region <=> pc[d] # "out"
    /\ pc[d] \in NoCdev => cdev[d] = "none"
    /\ pc[d] \in HasCdev => cdev[d] = "live"

(* The class; a driver whose goto lacks its braces never gets past it.     *)
ClassInv ==
  \A d \in Drivers :
    /\ pc[d] \in HasClass => d \in class /\ d.braced
    /\ pc[d] \notin HasClass /\ d \in class => ~d.braced

(* The devices, their files and the files that are open.                   *)
DeviceInv ==
  \A d \in Drivers :
    /\ nodes[d] # {} => pc[d] \in HasDevice
    /\ pc[d] = "device_destroy" => nodes[d] \subseteq {0}
    /\ pc[d] = "device_create_2" \/ 1 \in nodes[d] => 1 \in d.minors
    /\ files[d] \subseteq nodes[d]
    /\ pc[d] \in Exiting => files[d] = {}
    /\ pc[d] = "loaded" => dev[d] = "valid" /\ 0 \in nodes[d]
    /\ pc[d] \in {"device_create_2", "finish"} =>
         \/ dev[d] = "valid" /\ 0 \in nodes[d]
         \/ dev[d] = "error" /\ ~d.checked

Inv == TypeInv /\ CdevInv /\ ClassInv /\ DeviceInv

LEMMA InitInv == Init => Inv
BY DEF Init, Inv, TypeInv, CdevInv, ClassInv, DeviceInv, Places, HasCdev,
       HasClass, HasDevice, NoCdev, Exiting

LEMMA NextTypeInv == TypeInv /\ [Next]_vars => TypeInv'
<1> SUFFICES ASSUME TypeInv, [Next]_vars PROVE TypeInv'
  OBVIOUS
<1> USE DEF TypeInv, Goto, Places, HasCdev, HasClass, HasDevice, NoCdev
<1>1. ASSUME NEW d \in Drivers, AllocRegion(d) \/ CdevAlloc(d) \/ CdevAdd(d) PROVE TypeInv'
  BY <1>1 DEF AllocRegion, CdevAlloc, CdevAdd
<1>2. ASSUME NEW d \in Drivers, ClassCreate(d) \/ Finish(d) PROVE TypeInv'
  BY <1>2 DEF ClassCreate, Finish
<1>3. ASSUME NEW d \in Drivers, DeviceCreate(d) PROVE TypeInv'
  BY <1>3 DEF DeviceCreate, FirstDevice, AfterFirstDevice
<1>4. ASSUME NEW d \in Drivers, DeviceCreate2(d) PROVE TypeInv'
  BY <1>4 DEF DeviceCreate2, SecondDevice
<1>5. ASSUME NEW d \in Drivers, FreeClass(d) \/ FreeCdev(d) \/ FreeRegion(d) PROVE TypeInv'
  BY <1>5 DEF FreeClass, FreeCdev, FreeRegion, Unregister
<1>6. ASSUME NEW d \in Drivers, ModExit(d) PROVE TypeInv'
  BY <1>6 DEF ModExit, Rmmod, StartExit, DeviceDestroy2, DeviceDestroy, ClassDestroy,
              CdevDel, UnregisterRegion, Unregister
<1>7. ASSUME NEW d \in Drivers, Open(d) \/ Close(d) PROVE TypeInv'
  BY <1>7 DEF Open, Close
<1>8. CASE UNCHANGED vars
  BY <1>8 DEF vars
<1>9. QED
  BY <1>1, <1>2, <1>3, <1>4, <1>5, <1>6, <1>7, <1>8 DEF Next, ModInit

LEMMA NextCdevInv == TypeInv /\ CdevInv /\ [Next]_vars => CdevInv'
<1> SUFFICES ASSUME TypeInv, CdevInv, [Next]_vars PROVE CdevInv'
  OBVIOUS
<1> USE DEF TypeInv, CdevInv, Goto, HasCdev, HasClass, HasDevice, NoCdev
<1>1. ASSUME NEW d \in Drivers, AllocRegion(d) \/ CdevAlloc(d) \/ CdevAdd(d) PROVE CdevInv'
  <2>1. CASE AllocRegion(d)
    BY <2>1 DEF AllocRegion
  <2>2. CASE CdevAlloc(d)
    BY <2>2 DEF CdevAlloc
  <2>3. CASE CdevAdd(d)
    BY <2>3 DEF CdevAdd
  <2>4. QED
    BY <1>1, <2>1, <2>2, <2>3
<1>2. ASSUME NEW d \in Drivers, ClassCreate(d) \/ Finish(d) PROVE CdevInv'
  BY <1>2 DEF ClassCreate, Finish
<1>3. ASSUME NEW d \in Drivers, DeviceCreate(d) PROVE CdevInv'
  BY <1>3 DEF DeviceCreate, FirstDevice, AfterFirstDevice
<1>4. ASSUME NEW d \in Drivers, DeviceCreate2(d) PROVE CdevInv'
  BY <1>4 DEF DeviceCreate2, SecondDevice
<1>5. ASSUME NEW d \in Drivers, FreeClass(d) \/ FreeCdev(d) \/ FreeRegion(d) PROVE CdevInv'
  BY <1>5 DEF FreeClass, FreeCdev, FreeRegion, Unregister
<1>6. ASSUME NEW d \in Drivers, ModExit(d) PROVE CdevInv'
  BY <1>6 DEF ModExit, Rmmod, StartExit, DeviceDestroy2, DeviceDestroy, ClassDestroy,
              CdevDel, UnregisterRegion, Unregister
<1>7. ASSUME NEW d \in Drivers, Open(d) \/ Close(d) PROVE CdevInv'
  BY <1>7 DEF Open, Close
<1>8. CASE UNCHANGED vars
  BY <1>8 DEF vars
<1>9. QED
  BY <1>1, <1>2, <1>3, <1>4, <1>5, <1>6, <1>7, <1>8 DEF Next, ModInit

LEMMA NextClassInv == TypeInv /\ ClassInv /\ [Next]_vars => ClassInv'
<1> SUFFICES ASSUME TypeInv, ClassInv, [Next]_vars PROVE ClassInv'
  OBVIOUS
<1> USE DEF TypeInv, ClassInv, Goto, HasClass, HasDevice
<1>1. ASSUME NEW d \in Drivers, AllocRegion(d) \/ CdevAlloc(d) \/ CdevAdd(d) PROVE ClassInv'
  BY <1>1 DEF AllocRegion, CdevAlloc, CdevAdd
<1>2. ASSUME NEW d \in Drivers, ClassCreate(d) \/ Finish(d) PROVE ClassInv'
  BY <1>2 DEF ClassCreate, Finish
<1>3. ASSUME NEW d \in Drivers, DeviceCreate(d) PROVE ClassInv'
  BY <1>3 DEF DeviceCreate, FirstDevice, AfterFirstDevice
<1>4. ASSUME NEW d \in Drivers, DeviceCreate2(d) PROVE ClassInv'
  BY <1>4 DEF DeviceCreate2, SecondDevice
<1>5. ASSUME NEW d \in Drivers, FreeClass(d) \/ FreeCdev(d) \/ FreeRegion(d) PROVE ClassInv'
  BY <1>5 DEF FreeClass, FreeCdev, FreeRegion, Unregister
<1>6. ASSUME NEW d \in Drivers, ModExit(d) PROVE ClassInv'
  BY <1>6 DEF ModExit, Rmmod, StartExit, DeviceDestroy2, DeviceDestroy, ClassDestroy,
              CdevDel, UnregisterRegion, Unregister
<1>7. ASSUME NEW d \in Drivers, Open(d) \/ Close(d) PROVE ClassInv'
  BY <1>7 DEF Open, Close
<1>8. CASE UNCHANGED vars
  BY <1>8 DEF vars
<1>9. QED
  BY <1>1, <1>2, <1>3, <1>4, <1>5, <1>6, <1>7, <1>8 DEF Next, ModInit

LEMMA NextDeviceInv == TypeInv /\ DeviceInv /\ [Next]_vars => DeviceInv'
<1> SUFFICES ASSUME TypeInv, DeviceInv, [Next]_vars PROVE DeviceInv'
  OBVIOUS
<1> USE DEF TypeInv, DeviceInv, Goto, HasDevice, Exiting
<1>1. ASSUME NEW d \in Drivers, AllocRegion(d) \/ CdevAlloc(d) \/ CdevAdd(d) PROVE DeviceInv'
  BY <1>1 DEF AllocRegion, CdevAlloc, CdevAdd
<1>2. ASSUME NEW d \in Drivers, ClassCreate(d) \/ Finish(d) PROVE DeviceInv'
  BY <1>2 DEF ClassCreate, Finish
<1>3. ASSUME NEW d \in Drivers, DeviceCreate(d) PROVE DeviceInv'
  BY <1>3 DEF DeviceCreate, FirstDevice, AfterFirstDevice
<1>4. ASSUME NEW d \in Drivers, DeviceCreate2(d) PROVE DeviceInv'
  BY <1>4 DEF DeviceCreate2, SecondDevice
<1>5. ASSUME NEW d \in Drivers, FreeClass(d) \/ FreeCdev(d) \/ FreeRegion(d) PROVE DeviceInv'
  BY <1>5 DEF FreeClass, FreeCdev, FreeRegion, Unregister
<1>6. ASSUME NEW d \in Drivers, ModExit(d) PROVE DeviceInv'
  BY <1>6 DEF ModExit, Rmmod, StartExit, DeviceDestroy2, DeviceDestroy, ClassDestroy,
              CdevDel, UnregisterRegion, Unregister
<1>7. ASSUME NEW d \in Drivers, Open(d) \/ Close(d) PROVE DeviceInv'
  BY <1>7 DEF Open, Close
<1>8. CASE UNCHANGED vars
  BY <1>8 DEF vars
<1>9. QED
  BY <1>1, <1>2, <1>3, <1>4, <1>5, <1>6, <1>7, <1>8 DEF Next, ModInit

LEMMA NextInv == Inv /\ [Next]_vars => Inv'
BY NextTypeInv, NextCdevInv, NextClassInv, NextDeviceInv DEF Inv
-----------------------------------------------------------------------------
(* A driver that is not loaded has nothing registered, whichever call of   *)
(* its mod_init failed (but for the class of the exercise without braces,  *)
(* and a cdev that was released without cdev_del).                         *)
THEOREM ChrdevNothingLeft == Spec => []NothingLeftBehind
<1>1. Inv => NothingLeftBehind
  BY DEF Inv, CdevInv, ClassInv, DeviceInv, NothingLeftBehind, HasClass, HasDevice, NoCdev
<1>2. QED
  BY InitInv, NextInv, <1>1, PTL DEF Spec

(* The device files of udev lead to a driver with its cdev, number and     *)
(* class, at every moment of loading and unloading.                        *)
THEOREM ChrdevFilesWork == Spec => []DeviceFilesWork
<1>1. Inv => DeviceFilesWork
  BY DEF Inv, CdevInv, ClassInv, DeviceInv, DeviceFilesWork, HasCdev, HasClass, HasDevice
<1>2. QED
  BY InitInv, NextInv, <1>1, PTL DEF Spec

(* No mod_init fails, and no mod_exit begins, while a file is open.        *)
THEOREM ChrdevOpenDriverStays == Spec => []OpenDriverStays
<1>1. Inv => OpenDriverStays
  BY DEF Inv, DeviceInv, OpenDriverStays, HasDevice, Unwinding, Exiting
<1>2. QED
  BY InitInv, NextInv, <1>1, PTL DEF Spec

(* A loaded driver has a device to log through, checked or not.            *)
THEOREM ChrdevLoadedHasDevice == Spec => []LoadedHasDevice
<1>1. Inv => LoadedHasDevice
  BY DEF Inv, DeviceInv, LoadedHasDevice
<1>2. QED
  BY InitInv, NextInv, <1>1, PTL DEF Spec
-----------------------------------------------------------------------------
(* The read of the zero device.  Done is how far the loop has come; every  *)
(* byte up to there has been zeroed or is among those not copied.          *)
Done == IF buf_offset <= count THEN buf_offset ELSE count

ZeroTypes ==
  count \in Nat /\ mapped \subseteq Nat /\ buf_offset \in Nat /\ not_copied \in Int

(* Is nothing mapped behind the first byte that is not?                    *)
NoHole == \A b \in mapped : 0 .. b \subseteq mapped

ZeroInv ==
  /\ ZeroTypes
  /\ zeroed \subseteq 0 .. Done - 1
  /\ Cardinality(zeroed) + not_copied = Done
  /\ NoHole => zeroed = {b \in mapped : b < Done}
  /\ result # -1 => result = count - not_copied /\ buf_offset >= count

LEMMA ZeroInitInv == ZeroInit => ZeroInv
<1> SUFFICES ASSUME ZeroInit PROVE ZeroInv
  OBVIOUS
<1>1. ZeroTypes /\ Done = 0
  BY DevZeroAssumption DEF ZeroInit, AnyRead, ZeroTypes, Done
<1>2. Cardinality(zeroed) = 0 /\ not_copied = 0
  BY FS_EmptySet DEF ZeroInit
<1>3. zeroed = {} /\ result = -1
  BY DEF ZeroInit
<1>4. \A b \in mapped : ~(b < Done)
  BY <1>1 DEF ZeroTypes
<1>5. {b \in mapped : b < Done} = {}
  BY <1>4
<1>6. Cardinality(zeroed) + not_copied = Done
  BY <1>1, <1>2
<1>7. QED
  BY <1>1, <1>3, <1>5, <1>6 DEF ZeroInv

LEMMA ZeroNextInv == ZeroInv /\ [ZeroNext]_zeroVars => ZeroInv'
<1> SUFFICES ASSUME ZeroInv, [ZeroNext]_zeroVars PROVE ZeroInv'
  OBVIOUS
<1>1. CASE CopyChunk
  <2>1. ZeroTypes /\ ToCopy \in Nat /\ Done = buf_offset /\ Done' = Done + ToCopy
    BY <1>1, DevZeroAssumption DEF ZeroInv, ZeroTypes, CopyChunk, ToCopy, Done
  <2>2. Reached \subseteq Done .. Done' - 1
    BY <2>1 DEF Reached, ZeroTypes
  <2>3. IsFiniteSet(Reached) /\ Cardinality(Reached) \in Nat
    <3>1. Done \in Int /\ Done' - 1 \in Int
      BY <2>1 DEF ZeroTypes
    <3>2. QED
      BY <2>2, <3>1, FS_Interval, FS_Subset, FS_CardinalityType
  <2>4. IsFiniteSet(zeroed) /\ Cardinality(zeroed) \in Nat
    <3>1. 0 \in Int /\ Done - 1 \in Int
      BY <2>1 DEF ZeroTypes
    <3>2. QED
      BY <3>1, FS_Interval, FS_Subset, FS_CardinalityType DEF ZeroInv
  <2>5. zeroed \cap Reached = {}
    BY <2>1, <2>2 DEF ZeroInv, ZeroTypes
  <2>6. Cardinality(zeroed') = Cardinality(zeroed) + Cardinality(Reached)
    BY <1>1, <2>3, <2>4, <2>5, FS_Union, FS_EmptySet DEF CopyChunk
  <2>7. not_copied' \in Int /\ Cardinality(zeroed') + not_copied' = Done'
    BY <1>1, <2>1, <2>3, <2>4, <2>6 DEF CopyChunk, ZeroInv, ZeroTypes
  <2>8. zeroed' \subseteq 0 .. Done' - 1
    BY <1>1, <2>1, <2>2 DEF CopyChunk, ZeroInv, ZeroTypes
  <2>9. ASSUME NoHole PROVE zeroed' = {b \in mapped : b < Done'}
    <3>1. ASSUME NEW b \in Nat PROVE b \in Reached <=> b \in mapped /\ Done <= b /\ b < Done'
      <4>1. Done .. b \subseteq 0 .. b /\ (Done <= b => b \in Done .. b)
        BY <2>1, <3>1 DEF ZeroTypes
      <4>2. b \in Done .. Done' - 1 => (b \in mapped <=> Done .. b \subseteq mapped)
        BY <2>9, <4>1 DEF NoHole
      <4>3. b \in Reached <=> b \in Done .. Done' - 1 /\ Done .. b \subseteq mapped
        BY <2>1 DEF Reached, ZeroTypes
      <4>4. b \in Done .. Done' - 1 <=> Done <= b /\ b < Done'
        BY <2>1, <3>1 DEF ZeroTypes
      <4>5. QED
        BY <4>2, <4>3, <4>4
    <3>2. Reached \subseteq Nat /\ mapped \subseteq Nat /\ Done \in Nat /\ Done' \in Nat /\ Done <= Done'
      BY <2>1, <2>2 DEF ZeroTypes
    <3>3. zeroed = {b \in mapped : b < Done} /\ zeroed' = zeroed \cup Reached
      BY <1>1, <2>9 DEF CopyChunk, ZeroInv
    <3>4. \A b \in Nat : b < Done' <=> b < Done \/ (Done <= b /\ b < Done')
      BY <3>2
    <3>5. zeroed' \subseteq Nat
      BY <3>2, <3>3
    <3>6. \A b \in Nat : b \in zeroed' <=> b \in mapped /\ b < Done'
      <4> SUFFICES ASSUME NEW b \in Nat PROVE b \in zeroed' <=> b \in mapped /\ b < Done'
        OBVIOUS
      <4>1. b \in zeroed' <=> (b \in mapped /\ b < Done) \/ b \in Reached
        BY <3>3
      <4>2. b < Done' <=> b < Done \/ (Done <= b /\ b < Done')
        BY <3>4
      <4>3. QED
        BY <3>1, <4>1, <4>2
    <3> DEFINE end == Done'
    <3> HIDE DEF end
    <3>7. zeroed' = {b \in mapped : b < end}
      BY <3>2, <3>5, <3>6 DEF end
    <3>8. QED
      BY <3>7 DEF end
  <2>10. ZeroTypes' /\ NoHole' = NoHole /\ mapped' = mapped /\ result' = -1
    BY <1>1, <2>1, <2>7, DevZeroAssumption DEF CopyChunk, ZeroTypes, NoHole
  <2>11. QED
    BY <2>7, <2>8, <2>9, <2>10 DEF ZeroInv
<1>2. CASE ReturnCount
  BY <1>2 DEF ReturnCount, ZeroInv, ZeroTypes, NoHole, Done
<1>3. CASE UNCHANGED zeroVars
  BY <1>3 DEF zeroVars, ZeroInv, ZeroTypes, NoHole, Done
<1>4. QED
  BY <1>1, <1>2, <1>3 DEF ZeroNext

(* A set that has with each number all the smaller ones has the first ones.*)
LEMMA InitialSegment ==
  ASSUME NEW S \in SUBSET Nat, IsFiniteSet(S), \A b \in S : 0 .. b \subseteq S
  PROVE  S = 0 .. Cardinality(S) - 1
<1> DEFINE n == Cardinality(S)
<1>1. n \in Nat
  BY FS_CardinalityType
<1>2. IsFiniteSet(0 .. n - 1) /\ Cardinality(0 .. n - 1) = n
  BY <1>1, FS_Interval
<1>3. ASSUME NEW b \in S PROVE b < n
  <2>1. IsFiniteSet(0 .. b) /\ Cardinality(0 .. b) = b + 1
    BY FS_Interval
  <2>2. b + 1 <= n
    BY <2>1, FS_Subset
  <2>3. QED
    BY <1>1, <2>2
<1>4. S \subseteq 0 .. n - 1
  BY <1>1, <1>3
<1>5. QED
  BY <1>2, <1>4, FS_Subset

(* A read returns how many bytes it has zeroed, none of them behind those  *)
(* it was asked for, and they are the first ones if the memory has no hole:*)
(* for every size of the buffer, every count and all that can be mapped.   *)
THEOREM ZeroReadReturnsZeroes == ZeroSpec => []ZeroesWhatItReturns
<1>1. ZeroInv => ZeroesWhatItReturns
  <2> SUFFICES ASSUME ZeroInv, result # -1
               PROVE  /\ zeroed \subseteq 0 .. count - 1
                      /\ result = Cardinality(zeroed)
                      /\ NoHole => zeroed = 0 .. result - 1
    BY DEF ZeroesWhatItReturns, NoHole
  <2>1. Done = count /\ count \in Nat /\ zeroed \subseteq 0 .. count - 1
    BY DEF ZeroInv, ZeroTypes, Done
  <2>2. IsFiniteSet(zeroed) /\ Cardinality(zeroed) \in Nat
    <3>1. 0 \in Int /\ count - 1 \in Int
      BY <2>1
    <3>2. QED
      BY <2>1, <3>1, FS_Interval, FS_Subset, FS_CardinalityType
  <2>3. result = Cardinality(zeroed)
    BY <2>1, <2>2 DEF ZeroInv, ZeroTypes
  <2>4. ASSUME NoHole PROVE \A b \in zeroed : 0 .. b \subseteq zeroed
    BY <2>1, <2>4 DEF ZeroInv, ZeroTypes, NoHole
  <2>5. QED
    BY <2>1, <2>2, <2>3, <2>4, InitialSegment
<1>2. QED
  BY ZeroInitInv, ZeroNextInv, <1>1, PTL DEF ZeroSpec
=============================================================================
