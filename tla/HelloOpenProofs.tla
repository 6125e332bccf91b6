-------------------------- MODULE HelloOpenProofs --------------------------
(***************************************************************************)
(* The hello device is an exclusive device, for any finite set of openers. *)
(* The argument is the count: a permitted open finds the counter at -1,    *)
(* which the exact count turns into "nobody is open or being refused".     *)
(***************************************************************************)
EXTENDS HelloOpen, FiniteSetTheorems, TLAPS

(* The inductive invariant: the exact count gives the admission test its   *)
(* meaning, and the admission test keeps the open file unique.             *)
Inv ==
  /\ driver_lock \in Int
  /\ pc \in [Files -> {"idle", "deny", "open"}]
  /\ LockCount
  /\ AtMostOneOpen

LEMMA CountedFinite ==
  /\ IsFiniteSet(Counted)
  /\ Cardinality(Counted) \in Nat
  /\ Cardinality(Counted) <= Cardinality(Files)
<1>1. Counted \in SUBSET Files
  BY DEF Counted
<1>2. QED
  BY <1>1, HelloAssumption, FS_Subset, FS_CardinalityType

LEMMA InitInv == Init => Inv
<1> SUFFICES ASSUME Init PROVE Inv
  OBVIOUS
<1>1. Counted = {}
  BY DEF Init, Counted
<1>2. LockCount
  BY <1>1, FS_EmptySet DEF Init, LockCount
<1>3. QED
  BY <1>2 DEF Init, Inv, AtMostOneOpen

LEMMA NextInv == Inv /\ [Next]_vars => Inv'
<1> SUFFICES ASSUME Inv, [Next]_vars PROVE Inv'
  OBVIOUS
<1> USE DEF Inv
<1>1. ASSUME NEW f \in Files, TryOpen(f) PROVE Inv'
  <2>1. Counted' = Counted \cup {f} /\ f \notin Counted
    BY <1>1 DEF TryOpen, Goto, Counted
  <2>2. Cardinality(Counted)' = Cardinality(Counted) + 1
    BY <2>1, CountedFinite, FS_AddElement
  <2>3. LockCount'
    BY <1>1, <2>2, CountedFinite DEF TryOpen, LockCount
  <2>4. CASE driver_lock + 1 = 0
    <3>1. Counted = {}
      BY <2>4, CountedFinite, FS_EmptySet DEF LockCount
    <3>2. AtMostOneOpen'
      BY <1>1, <3>1 DEF TryOpen, Goto, AtMostOneOpen, Counted
    <3>3. QED
      BY <1>1, <2>3, <3>2 DEF TryOpen, Goto
  <2>5. CASE driver_lock + 1 # 0
    BY <1>1, <2>3, <2>5 DEF TryOpen, Goto, AtMostOneOpen
  <2>6. QED
    BY <2>4, <2>5
<1>2. ASSUME NEW f \in Files, Deny(f) \/ Close(f) PROVE Inv'
  <2>1. Counted' = Counted \ {f} /\ f \in Counted
    BY <1>2 DEF Deny, Close, Goto, Counted
  <2>2. Cardinality(Counted)' = Cardinality(Counted) - 1
    BY <2>1, CountedFinite, FS_RemoveElement
  <2>3. LockCount'
    BY <1>2, <2>2, CountedFinite DEF Deny, Close, LockCount
  <2>4. QED
    BY <1>2, <2>3 DEF Deny, Close, Goto, AtMostOneOpen
<1>3. CASE UNCHANGED vars
  BY <1>3 DEF vars, LockCount, Counted, AtMostOneOpen
<1>4. QED
  BY <1>1, <1>2, <1>3 DEF Next

(* No interleaving of opens, refusals and closes makes the counter of      *)
(* mod2.c inexact, so a device that nobody uses is never left locked.      *)
THEOREM HelloLockCount == Spec => []LockCount
<1>1. Inv => LockCount
  BY DEF Inv
<1>2. QED
  BY InitInv, NextInv, <1>1, PTL DEF Spec

(* The types, with the bounds of the counter, for any number of openers.   *)
THEOREM HelloTypeOK == Spec => []TypeOK
<1>1. Inv => TypeOK
  <2> SUFFICES ASSUME Inv PROVE TypeOK
    OBVIOUS
  <2>1. Cardinality(Files) \in Nat
    BY HelloAssumption, FS_CardinalityType
  <2>2. QED
    BY <2>1, CountedFinite DEF Inv, TypeOK, LockCount
<1>2. QED
  BY InitInv, NextInv, <1>1, PTL DEF Spec

(* The holder named by the refinement mapping is the one open file.        *)
LEMMA HolderIsOpen ==
  ASSUME AtMostOneOpen, NEW f \in Files, pc[f] = "open"
  PROVE  Holder = f
BY DEF AtMostOneOpen, Holder

LEMMA NoHolder ==
  ASSUME \A f \in Files : pc[f] # "open"
  PROVE  Holder = Free
BY DEF Holder

(* mod2.c implements the exclusive device: every step of its handlers is   *)
(* an acquisition of the free device, a release by its holder, or nothing. *)
THEOREM HelloRefines == Spec => ImplementsExclusiveOpen
<1>1. Init => Exclusive!Init
  BY NoHolder DEF Init, Exclusive!Init
<1>2. Inv /\ Inv' /\ [Next]_vars => [Exclusive!Next]_Holder
  <2> SUFFICES ASSUME Inv, Inv', [Next]_vars PROVE [Exclusive!Next]_Holder
    OBVIOUS
  <2>1. ASSUME NEW f \in Files, TryOpen(f) PROVE [Exclusive!Next]_Holder
    <3>1. CASE driver_lock + 1 = 0
      <4>1. Counted = {}
        BY <3>1, CountedFinite, FS_EmptySet DEF Inv, LockCount
      <4>2. Holder = Free
        BY <4>1, NoHolder DEF Counted
      <4>3. pc'[f] = "open"
        BY <2>1, <3>1 DEF TryOpen, Goto, Inv
      <4>4. Holder' = f
        BY <4>3 DEF Inv, AtMostOneOpen, Holder
      <4>5. QED
        BY <4>2, <4>4 DEF Exclusive!Next, Exclusive!Acquire
    <3>2. CASE driver_lock + 1 # 0
      BY <2>1, <3>2 DEF TryOpen, Goto, Inv, Holder
    <3>3. QED
      BY <3>1, <3>2
  <2>2. ASSUME NEW f \in Files, Deny(f) PROVE [Exclusive!Next]_Holder
    BY <2>2 DEF Deny, Goto, Inv, Holder
  <2>3. ASSUME NEW f \in Files, Close(f) PROVE [Exclusive!Next]_Holder
    <3>1. Holder = f
      BY <2>3, HolderIsOpen DEF Close, Inv
    <3>2. \A g \in Files : pc'[g] # "open"
      BY <2>3 DEF Close, Goto, Inv, AtMostOneOpen
    <3>3. Holder' = Free
      BY <3>2 DEF Holder
    <3>4. QED
      BY <3>1, <3>3 DEF Exclusive!Next, Exclusive!Release
  <2>4. CASE UNCHANGED vars
    BY <2>4 DEF vars, Holder
  <2>5. QED
    BY <2>1, <2>2, <2>3, <2>4 DEF Next
<1>3. QED
  BY InitInv, NextInv, <1>1, <1>2, PTL DEF Spec, ImplementsExclusiveOpen, Exclusive!Spec
=============================================================================
