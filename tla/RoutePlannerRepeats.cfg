SPECIFICATION Spec
CONSTANTS
  Sku = {s, t}
  Warehouse = {o, w}
  Origin = o
  Repeats = TRUE
  MinQty = 0
  MaxQty = 2
  MaxStock = 2
  MaxStores = 2
  MaxExtra = 1
  MaxDepots = 1
SYMMETRY Symmetry
CHECK_DEADLOCK FALSE
INVARIANT PlansValidate
