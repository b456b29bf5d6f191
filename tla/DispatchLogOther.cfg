SPECIFICATION Spec
CONSTANTS
  Req = {r1}
  Bol = {b1, b2}
  Unit = {u1, u2}
  Driver = {d1, d2}
  None = None
  Ops = {"create", "depart", "log"}
  RouteLength = 2
  MaxStops = 2
  MaxBills = 1
  MaxRecords = 0
  MaxRuns = 2
  Start = "validated"
CHECK_DEADLOCK FALSE
INVARIANT LogFulfillsItsRun
