SPECIFICATION Spec
CONSTANTS
  Sku = {s, t}
  Warehouse = {o, w, x}
  Origin = o
  Repeats = FALSE
  MinQty <- MCMinQty
  MaxQty = 2
  MaxStock = 2
  MaxStores = 2
  MaxExtra = 2
  MaxDepots = 1
SYMMETRY Symmetry
CHECK_DEADLOCK FALSE
INVARIANTS TypeOK PlansValidate LoadsInStock RefusedExactlyWhenShort FallbackOnlyForZero LinesBalance
