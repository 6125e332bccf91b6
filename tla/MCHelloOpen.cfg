SPECIFICATION Spec
CONSTANTS
  Files = {f1, f2, f3, f4, f5}
  Free = free
INVARIANTS
  LockCount
PROPERTIES
  ImplementsExclusiveOpen
