SPECIFICATION Spec
CONSTANTS
  Saves <- ManySaves
  StartPlots = 1
  Cols = 2
  IdleTimeout = 2
  ClockSteps = {1}
  DevMode = TRUE
PROPERTY RewardIsShown
