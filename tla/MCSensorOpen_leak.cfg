SPECIFICATION Spec
CONSTANTS
  Files = {f1, f2}
  Free = free
  Faults = {}
INVARIANTS
  UnlockedWhenIdle
