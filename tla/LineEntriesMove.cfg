SPECIFICATION Spec
CONSTANTS
  Location = {a, b, c}
  Entries = 2
  Call = {c1}
  MaxSaves = 3
  Empty = Empty
INVARIANT MovesKeepGoods
