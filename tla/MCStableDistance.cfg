SPECIFICATION StableFairSpec
CONSTANTS
  TIMEOUT = 2
  Delays = {1, 3, 5}
  Widths = {1, 4}
  Faults = {"silence"}
  USEC = 1
  ULONG = 1200
  MaxClock = 4
INVARIANTS
  OneStalePerError
  OneErrorNeverDecides
PROPERTIES
  ErrorWithinLost
  ErrorInMicrometers
  GivesUpWithReason
  StaleOnlyAfterTimeout
  ReadReturns
