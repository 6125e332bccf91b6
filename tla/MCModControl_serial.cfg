SPECIFICATION SerialSpec
CONSTANTS
  BUFSIZE = 3
  Readers = {r1, r2}
  Writers = {w1}
  Inputs <- MCInputs
  Counts = {1, 2}
  Faults = {}
  None = None
PROPERTIES
  ImplementsByteStack
