SPECIFICATION FairSpec
CONSTANTS
  AVG_DIST_UM = 250000
  MAX_DIST_UM = 600000
  NUM_FAR_VALUES = 10
  Distances <- MCDistances
  NoEcho = noecho
INVARIANTS
  FarCounter
PROPERTIES
  TwoSamplesDecide
  SettlesOnScene
