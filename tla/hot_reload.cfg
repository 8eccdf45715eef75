CONSTANTS
  w1 = w1
  w2 = w2
  v1 = v1
  None = None
  Watchers = {w1, w2}
  OpVersions = {v1}
  MaxUpdates = 2
  MTimes = {1, 2, 3}
  MaxTime = 1
SPECIFICATION FairSpec
INVARIANTS
  TypeOK
  CurrentIsLoaded
  RetiredInactive
PROPERTIES
  UpdateServed
