SPECIFICATION Spec
CONSTANTS
  Files = {f1, f2, f3}
  Free = free
  Faults = {"kmalloc", "direction"}
INVARIANTS
  LockCount
  OpenOwnsPins
PROPERTIES
  ClaimEndsByItsOwner
  DenialJustified
  ImplementsExclusiveOpen
