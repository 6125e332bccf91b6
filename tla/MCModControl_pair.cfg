SPECIFICATION FairSpec
CONSTANTS
  BUFSIZE = 3
  Readers = {r1}
  Writers = {w1}
  Inputs <- MCInputs
  Counts = {1, 2}
  Faults = {"copy"}
  None = None
INVARIANTS
  InBounds
  SleepersWillBeWoken
PROPERTIES
  WaitingReadReturns
