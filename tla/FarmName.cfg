\* One farm with any of four v1 names or none, and two denylists.
SPECIFICATION FairSpec
CONSTANTS
  RUDE = RUDE
  Rude = Rude
  BORING = BORING
  relic = relic
  Spellings = {RUDE, Rude, BORING}
  Normal <- UpperCase
  Malformed = {relic}
  Lists <- NoOrRude
  Fixture = {}
  Unnamed = Unnamed
  Generated = Generated
  Forced = BORING
  Closed = Closed
INVARIANTS
  ColumnIsExplained
  LockStopsRenames
PROPERTIES
  DeniedNamesVanish
  AcceptedNameIsShown
