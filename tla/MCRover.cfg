SPECIFICATION MCRoverSpec
CONSTANTS
  Programs = {d1}
  Follower = follower
  Tester = tester
  Motors = {"left", "right"}
  Files <- MCFiles
  Script = script
  Free = free
  Undriven = undriven
  Payloads <- MCPayloads
  Faults = {"copy"}
  SensorFaults = {}
  AVG_DIST_UM = 1
  MAX_DIST_UM = 2
  NUM_FAR_VALUES = 2
  Distances <- MCDistances
  NoEcho = noecho
INVARIANTS
  PinsMatchMode
  OneAtTheWheel
  LoopHasSensor
  SensorGivenBack
PROPERTIES
  RunsFollow
