SPECIFICATION Spec
CONSTANTS
  Req = {r1, r2}
  Bol = {b1}
  Unit = {u1}
  Driver = {d1}
  None = None
  Ops = {"plan", "claim", "commit", "load", "create", "depart", "return", "log"}
  RouteLength = 3
  MaxStops = 4
  MaxBills = 2
  MaxRecords = 0
  MaxRuns = 1
  Start = "absent"
SYMMETRY Symmetry
CHECK_DEADLOCK FALSE
INVARIANTS TypeOK BillBeforeTruck LastStopNoticed
