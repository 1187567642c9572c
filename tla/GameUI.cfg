SPECIFICATION FairSpec
CONSTANTS
  Saves <- ManySaves
  StartPlots = 1
  Cols = 2
  IdleTimeout = 2
  ClockSteps = {1}
  DevMode = TRUE
INVARIANTS
  ChainsAreSingle
  PlotCallsAreInRange
  NoModalTraps
PROPERTIES
  ResetsAreConfirmed
  WinsAreAnnounced
  EvictedLeaves
