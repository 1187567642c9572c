\* The same farm under an operator that forces its name.
SPECIFICATION Spec
CONSTANTS
  RUDE = RUDE
  Rude = Rude
  BORING = BORING
  relic = relic
  Spellings = {RUDE, Rude, BORING}
  Normal <- UpperCase
  Malformed = {relic}
  Lists <- NoOrRude
  Fixture = {}
  Unnamed = Unnamed
  Generated = Generated
  Forced = BORING
  Closed = Closed
PROPERTY
  ForcedNameStays
