SPECIFICATION Spec
CONSTANTS
  Location = {a, b, c}
  Entries = 2
  Call = {c1, c2}
  MaxSaves = 3
  Empty = Empty
SYMMETRY Symmetry
INVARIANTS TypeOK MovedOnceUnlessStale
PROPERTIES DeletedStayDeleted ProcessedStays
