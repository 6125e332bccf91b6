SPECIFICATION DriveSpec
CONSTANTS
  d1 = d1
  d2 = d2
  Programs = {d1, d2}
  Motors = {"left", "right"}
  Files <- MCFiles
  Script = script
  Free = free
  Undriven = undriven
  Payloads <- MCPayloads
  Faults = {"direction", "copy"}
SYMMETRY MCSymmetry
INVARIANTS
  PulseAsCommanded
  StandsStillAtPrompt
  OneDriver
  NothingLeftClaimed
