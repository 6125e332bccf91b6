SPECIFICATION ZeroSpec
CONSTANTS
  BUFSIZE = 3
  Counts <- MCCounts
  Memory <- MCMemory
INVARIANTS
  ZeroesWhatItReturns
CHECK_DEADLOCK FALSE
