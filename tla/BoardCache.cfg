\* Three viewers over two versions of the table; no symmetry with liveness.
SPECIFICATION FairSpec
CONSTANTS
  v1 = v1
  v2 = v2
  v3 = v3
  Viewers = {v1, v2, v3}
  MaxVersion = 1
  None = None
  Error = Error
INVARIANTS
  BoardNeverGoesBack
PROPERTIES
  EveryGetReturns
  BoardsCatchUp
