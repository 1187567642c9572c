\* Two plots, three crops, the festival on, over and on again.
SPECIFICATION Spec
CONSTANTS
  NPlots = 2
  Seed <- MCSeed
  Sell <- MCSell
  Growth <- MCGrowth
  Festival = {2}
  FestivalDays = {0, 3, 4}
  BatchCap = 2
  OnlineThreshold = 2
  EventPct = 50
  EventLasts = 1
  HarvestPrice <- MCHarvestPrice
  SowPrice = 2
  CrowPrice <- MCCrowPrice
  DropCoins <- MCDropCoins
  DropInterval = 2
  OfflineSlowdown = 2
  StartCoins = 1
  Horizon = 4
INVARIANTS
  AbsencesAddUp
PROPERTIES
  CursorCountsHarvests
  PlotsAreKeptSown
