SPECIFICATION Spec
CONSTANTS
  Req = {r1, r2}
  Bol = {b1}
  Unit = {u1, u2}
  Driver = {d1}
  None = None
  Ops = {"create", "depart", "transfer", "fulfill"}
  RouteLength = 1
  MaxStops = 3
  MaxBills = 1
  MaxRecords = 0
  MaxRuns = 2
  Start = "validated"
SYMMETRY Symmetry
CHECK_DEADLOCK FALSE
INVARIANTS CustodyHeld HandoffRecorded
