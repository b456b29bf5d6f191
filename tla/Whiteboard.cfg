SPECIFICATION BoardSpec
CONSTANTS
  Req = {r1, r2}
  Bol = {b1}
  Unit = {u1}
  Driver = {d1}
  None = None
  Ops = {"plan", "claim", "commit", "load", "create", "depart", "fulfill", "deadhead", "pair"}
  RouteLength = 1
  MaxStops = 1
  MaxBills = 1
  MaxRecords = 0
  MaxRuns = 1
  Start = "absent"
SYMMETRY Symmetry
CHECK_DEADLOCK FALSE
INVARIANTS BoardTypeOK DuePlansShown NoDriverTwice MilestoneOrder
