SPECIFICATION RegionSpec
CONSTANTS
  w1 = w1
  w2 = w2
  clothing = clothing
  processStop = processStop
  Warehouse <- MCWarehouse
  Category <- MCCategory
  Call <- MCCall
  Lifetime = 7
  Margin = 5
  RefreshTimeout = 1
  CallTimeout = 2
  Delay = 1
  MaxTime = 10
INVARIANTS RegionTypeOK TokensLive RegionWhole
PROPERTY RegionAnswered
CHECK_DEADLOCK FALSE
