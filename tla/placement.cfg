CONSTANTS
  Workers = {w1, w2}
  Handlers = {h1}
  Devices <- MCDevices
  Sets = 2
  BricksInSet = 2
  None = None
SPECIFICATION FairSpec
INVARIANT OfferedOnce
PROPERTY PlacementEnds
CHECK_DEADLOCK FALSE
