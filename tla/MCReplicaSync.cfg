SPECIFICATION FairSpec
CONSTANTS
  Tables = {BillOfLading, LineEntry}
  Writers = {w1, w2}
  MaxVersion = 2
  None = None
  Empty = Empty
INVARIANTS
  TypeOK
  StaleImpliesOwed
  HeldItemsCurrentOrOwed
PROPERTIES
  ReadsAreMonotonic
  CatchesUp
