\* Two connections and one farm: the liveness of the manager.
SPECIFICATION FairSpec
CONSTANTS
  c1 = c1
  c2 = c2
  c3 = c3
  k1 = k1
  c4 = c4
  g1 = g1
  None = None
  Conns = {c1, c2}
  Saves = {k1}
  Guests = {}
  KeyOf <- OneFarm
  Policy = "takeover"
  MaxVersion = 2
PROPERTIES
  KickedSessionsLeave
  ShutdownDrains
  ChangesAreWritten
  ImplementsFarmSeats
