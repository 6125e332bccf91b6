SPECIFICATION Spec
CONSTANTS
  Motors = {"left"}
  Files = {f1, f2, f3}
  Free = free
  Script = script
  Undriven = undriven
  Payloads <- MCPayloads
  Faults = {"direction", "copy"}
INVARIANTS
  OpenOwnsPins
  MotorObeysLastWrite
  BothHighOnlyWhenReversing
PROPERTIES
  ClaimEndsByItsOwner
  LeftIsExclusive
