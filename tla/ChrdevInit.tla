----------------------------- MODULE ChrdevInit -----------------------------
(***************************************************************************)
(* mod_init and mod_exit of the character device drivers: a device number, *)
(* a cdev, a class and one or two devices are acquired one after the other *)
(* and given back in the opposite order, by mod_exit or when a call fails. *)
(* All drivers are loaded and unloaded concurrently; the names of classes  *)
(* are shared.  As soon as a device exists udev makes its device file, and *)
(* programs can open it while mod_init still runs.                         *)
(*                                                                         *)
(* The drivers share one shape and differ in what the records below say.   *)
(* Device files are those of udev: a node made by hand is not modelled.    *)
(***************************************************************************)
EXTENDS FiniteSets

CONSTANTS
  Drivers,  \* records, see Shapes
  Faults    \* the calls that may fail by themselves, see Calls

(* What each mod_init registers; whether it checks device_create or goes   *)
(* on to log through the device; and whether the goto after class_create   *)
(* is taken only on an error.                                              *)
Motor == [class |-> "motor", minors |-> {0, 1}, checked |-> FALSE, braced |-> TRUE]
Sensor == [class |-> "sensor", minors |-> {0}, checked |-> FALSE, braced |-> TRUE]
Hello == [class |-> "Hello", minors |-> {0}, checked |-> TRUE, braced |-> TRUE]
Modcontrol == [class |-> "modcontrol", minors |-> {0}, checked |-> TRUE, braced |-> TRUE]
Mydevzero == [class |-> "mydevzero", minors |-> {0}, checked |-> TRUE, braced |-> TRUE]
Mydevnull == [class |-> "Mydevnull", minors |-> {0}, checked |-> TRUE, braced |-> TRUE]
Exercise3 == [class |-> "Hello", minors |-> {0}, checked |-> TRUE, braced |-> FALSE]

Shapes == {Motor, Sensor, Hello, Modcontrol, Mydevzero, Mydevnull, Exercise3}

Calls == {"cdev_alloc", "cdev_add", "class_create", "device_create"}

ASSUME ChrdevAssumption == Drivers \subseteq Shapes /\ Faults \subseteq Calls

VARIABLES
  pc,      \* where each driver is in mod_init or mod_exit
  region,  \* the drivers that have reserved their device numbers
  cdev,    \* each driver's cdev: "none", "allocated" or "live" (added)
  stale,   \* the drivers of which a cdev was released without cdev_del
  class,   \* the drivers whose class is registered
  dev,     \* the driver's pointer to its device: "null", "valid", "error"
  nodes,   \* the minors of each driver that have a device file
  files    \* the minors of each driver that are open

vars == <<pc, region, cdev, stale, class, dev, nodes, files>>

Init ==
  /\ pc = [d \in Drivers |-> "out"]
  /\ region = {}
  /\ cdev = [d \in Drivers |-> "none"]
  /\ stale = {}
  /\ class = {}
  /\ dev = [d \in Drivers |-> "null"]
  /\ nodes = [d \in Drivers |-> {}]
  /\ files = [d \in Drivers |-> {}]

Goto(d, place) == pc' = [pc EXCEPT ![d] = place]

Fails(call) == call \in Faults
-----------------------------------------------------------------------------
(* mod_init                                                                *)

(* insmod, and alloc_chrdev_region; if that fails nothing has happened.    *)
AllocRegion(d) ==
  /\ pc[d] = "out"
  /\ region' = region \cup {d}
  /\ Goto(d, "cdev_alloc")
  /\ UNCHANGED <<cdev, stale, class, dev, nodes, files>>

CdevAlloc(d) ==
  /\ pc[d] = "cdev_alloc"
  /\ \/ cdev' = [cdev EXCEPT ![d] = "allocated"] /\ Goto(d, "cdev_add")
     \/ Fails("cdev_alloc") /\ Goto(d, "free_region") /\ UNCHANGED cdev
  /\ UNCHANGED <<region, stale, class, dev, nodes, files>>

CdevAdd(d) ==
  /\ pc[d] = "cdev_add"
  /\ \/ cdev' = [cdev EXCEPT ![d] = "live"] /\ Goto(d, "class_create")
     \/ Fails("cdev_add") /\ Goto(d, "free_cdev") /\ UNCHANGED cdev
  /\ UNCHANGED <<region, stale, class, dev, nodes, files>>

NameTaken(d) == \E e \in class : e.class = d.class

(* The exercise without braces leaves even with its class created.         *)
ClassCreate(d) ==
  /\ pc[d] = "class_create"
  /\ \/ /\ ~NameTaken(d)
        /\ class' = class \cup {d}
        /\ Goto(d, IF d.braced THEN "device_create" ELSE "free_cdev")
     \/ /\ NameTaken(d) \/ Fails("class_create")
        /\ Goto(d, "free_cdev")
        /\ UNCHANGED class
  /\ UNCHANGED <<region, cdev, stale, dev, nodes, files>>

AfterFirstDevice(d) == IF 1 \in d.minors THEN "device_create_2" ELSE "finish"

(* device_create for the minor 0, with on_error being done if it fails.  A *)
(* file opened before the pointer is assigned would find it null, as which *)
(* it can be logged through: not told apart.                               *)
FirstDevice(d, on_error) ==
  /\ pc[d] = "device_create"
  /\ \/ /\ nodes' = [nodes EXCEPT ![d] = {0}]
        /\ dev' = [dev EXCEPT ![d] = "valid"]
        /\ Goto(d, AfterFirstDevice(d))
     \/ /\ Fails("device_create")
        /\ dev' = [dev EXCEPT ![d] = "error"]
        /\ Goto(d, on_error)
        /\ UNCHANGED nodes
  /\ UNCHANGED <<region, cdev, stale, class, files>>

(* A bug the code does not have: the class is not given back.              *)
DeviceCreateKeepsClass(d) ==
  FirstDevice(d, IF d.checked THEN "free_cdev" ELSE AfterFirstDevice(d))

(* A bug the code does not have: no driver checks for an error.            *)
DeviceCreateUnchecked(d) == FirstDevice(d, AfterFirstDevice(d))

DeviceCreate(d) ==
  FirstDevice(d, IF d.checked THEN "free_class" ELSE AfterFirstDevice(d))

(* The motor driver's second device.                                       *)
SecondDevice(d, on_error) ==
  /\ pc[d] = "device_create_2"
  /\ \/ nodes' = [nodes EXCEPT ![d] = @ \cup {1}] /\ Goto(d, "finish")
     \/ Fails("device_create") /\ Goto(d, on_error) /\ UNCHANGED nodes
  /\ UNCHANGED <<region, cdev, stale, class, dev, files>>

(* A bug the code does not have: mod_init gives up after the first device  *)
(* has got its device file.                                                *)
DeviceCreate2Unwinds(d) == SecondDevice(d, "free_class")

DeviceCreate2(d) == SecondDevice(d, "finish")

(* return 0.  The drivers that have not checked log through the device     *)
(* first: an error pointer there ends insmod for good.                     *)
Finish(d) ==
  /\ pc[d] = "finish"
  /\ Goto(d, IF ~d.checked /\ dev[d] = "error" THEN "oops" ELSE "loaded")
  /\ UNCHANGED <<region, cdev, stale, class, dev, nodes, files>>

FreeClass(d) ==
  /\ pc[d] = "free_class"
  /\ class' = class \ {d}
  /\ Goto(d, "free_cdev")
  /\ UNCHANGED <<region, cdev, stale, dev, nodes, files>>

(* kobject_put, but no cdev_del: a cdev that was added stays registered.   *)
FreeCdev(d) ==
  /\ pc[d] = "free_cdev"
  /\ stale' = IF cdev[d] = "live" THEN stale \cup {d} ELSE stale
  /\ cdev' = [cdev EXCEPT ![d] = "none"]
  /\ Goto(d, "free_region")
  /\ UNCHANGED <<region, class, dev, nodes, files>>

(* unregister_chrdev_region at the end of mod_init and of mod_exit; the    *)
(* module's static data goes with it.                                      *)
Unregister(d) ==
  /\ region' = region \ {d}
  /\ dev' = [dev EXCEPT ![d] = "null"]
  /\ Goto(d, "out")
  /\ UNCHANGED <<cdev, stale, class, nodes, files>>

FreeRegion(d) == pc[d] = "free_region" /\ Unregister(d)
-----------------------------------------------------------------------------
(* mod_exit                                                                *)

(* rmmod of a driver of which no file is open: the files count as users of *)
(* the module (owner), and from here on no file can be opened.             *)
StartExit(d, place) ==
  /\ pc[d] = "loaded"
  /\ files[d] = {}
  /\ Goto(d, place)
  /\ UNCHANGED <<region, cdev, stale, class, dev, nodes, files>>

(* A bug the code does not have: the second device is not destroyed.       *)
RmmodForgetsSecond(d) == StartExit(d, "device_destroy")

Rmmod(d) == StartExit(d, IF 1 \in d.minors THEN "device_destroy_2" ELSE "device_destroy")

DeviceDestroy2(d) ==
  /\ pc[d] = "device_destroy_2"
  /\ nodes' = [nodes EXCEPT ![d] = @ \ {1}]
  /\ Goto(d, "device_destroy")
  /\ UNCHANGED <<region, cdev, stale, class, dev, files>>

DeviceDestroy(d) ==
  /\ pc[d] = "device_destroy"
  /\ nodes' = [nodes EXCEPT ![d] = @ \ {0}]
  /\ Goto(d, "class_destroy")
  /\ UNCHANGED <<region, cdev, stale, class, dev, files>>

ClassDestroy(d) ==
  /\ pc[d] = "class_destroy"
  /\ class' = class \ {d}
  /\ Goto(d, "cdev_del")
  /\ UNCHANGED <<region, cdev, stale, dev, nodes, files>>

CdevDel(d) ==
  /\ pc[d] = "cdev_del"
  /\ cdev' = [cdev EXCEPT ![d] = "none"]
  /\ Goto(d, "unregister")
  /\ UNCHANGED <<region, stale, class, dev, nodes, files>>

UnregisterRegion(d) == pc[d] = "unregister" /\ Unregister(d)
-----------------------------------------------------------------------------
(* Programs that use the device files.                                     *)

Unwinding == {"free_class", "free_cdev", "free_region"}
Exiting == {"device_destroy_2", "device_destroy", "class_destroy", "cdev_del", "unregister"}

Open(d) ==
  /\ pc[d] \notin Exiting
  /\ \E m \in nodes[d] \ files[d] : files' = [files EXCEPT ![d] = @ \cup {m}]
  /\ UNCHANGED <<pc, region, cdev, stale, class, dev, nodes>>

(* driver_close logs through the device first: with an error pointer there *)
(* it never gets to the end.                                               *)
Close(d) ==
  /\ dev[d] # "error"
  /\ \E m \in files[d] : files' = [files EXCEPT ![d] = @ \ {m}]
  /\ UNCHANGED <<pc, region, cdev, stale, class, dev, nodes>>
-----------------------------------------------------------------------------
ModInit(d) ==
  \/ AllocRegion(d) \/ CdevAlloc(d) \/ CdevAdd(d) \/ ClassCreate(d)
  \/ DeviceCreate(d) \/ DeviceCreate2(d) \/ Finish(d)
  \/ FreeClass(d) \/ FreeCdev(d) \/ FreeRegion(d)

ModExit(d) ==
  \/ Rmmod(d) \/ DeviceDestroy2(d) \/ DeviceDestroy(d) \/ ClassDestroy(d)
  \/ CdevDel(d) \/ UnregisterRegion(d)

Next == \E d \in Drivers : ModInit(d) \/ ModExit(d) \/ Open(d) \/ Close(d)

Spec == Init /\ [][Next]_vars
-----------------------------------------------------------------------------
(* A driver that is not loaded has nothing registered, whichever call of   *)
(* mod_init has failed, but for the class of the exercise without braces.  *)
(* (A cdev that was added before another call failed does stay: stale.)    *)
NothingLeftBehind ==
  \A d \in Drivers : pc[d] = "out" =>
    /\ d \notin region
    /\ cdev[d] = "none"
    /\ nodes[d] = {}
    /\ d \in class => ~d.braced

(* A device file that exists leads to its driver: cdev, number and class   *)
(* are there from before it is made until after it is gone.                *)
DeviceFilesWork ==
  \A d \in Drivers : nodes[d] # {} =>
    cdev[d] = "live" /\ d \in region /\ d \in class

(* However early a program opens a device, mod_init does not fail after    *)
(* it, nor mod_exit begin before the file is closed: while a file is open  *)
(* its driver stays.                                                       *)
OpenDriverStays ==
  \A d \in Drivers : files[d] # {} => pc[d] \notin {"out"} \cup Unwinding \cup Exiting

(* What a loaded driver's handlers and mod_exit log through is a device,   *)
(* also in the drivers that do not check.                                  *)
LoadedHasDevice ==
  \A d \in Drivers : pc[d] = "loaded" => dev[d] = "valid" /\ 0 \in nodes[d]
=============================================================================
