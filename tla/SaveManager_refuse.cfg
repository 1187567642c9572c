\* Two connections on a keyed farm and two of one guest, newcomers refused.
SPECIFICATION Spec
CONSTANTS
  c1 = c1
  c2 = c2
  c3 = c3
  c4 = c4
  k1 = k1
  g1 = g1
  None = None
  Conns = {c1, c2, c3, c4}
  Saves = {k1}
  Guests = {g1}
  KeyOf <- GuestsBesideFarm
  Policy = "refuse"
  MaxVersion = 2
INVARIANT
  GuestsAreNotStored
PROPERTY
  ImplementsFarmSeats
