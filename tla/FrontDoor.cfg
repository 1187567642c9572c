SPECIFICATION FairSpec
CONSTANTS
  Transports = {"t1", "t2"}
  Shells = {"s1", "s2", "s3", "s4"}
  TransportOf <- ShellsOfTwo
  MaxGlobal = 3
  MaxPerKey = 2
  MaxSlotLen = 2
  DefaultSlot <- Plain
  Keys = {"k1", "k2"}
  GuestIds = {"g1"}
  Dials <- Callers
  AllowGuests = TRUE
  Policy = "takeover"
INVARIANTS
  PlacesMatch
  ShellsKeepTheirFarm
  FarmsByPlayer
PROPERTY
  PlacesComeBack
