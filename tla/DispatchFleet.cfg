SPECIFICATION Spec
CONSTANTS
  Req = {r1, r2}
  Bol = {b1}
  Unit = {u1}
  Driver = {d1}
  None = None
  Ops = {"create", "depart", "fulfill", "deadhead", "pair", "maintain", "break", "resolve"}
  RouteLength = 1
  MaxStops = 1
  MaxBills = 1
  MaxRecords = 2
  MaxRuns = 1
  Start = "validated"
SYMMETRY Symmetry
CHECK_DEADLOCK FALSE
INVARIANTS OutOfServiceHasRecord WindowMeansFulfilled AssignedMeansRun HandlersOK
