SPECIFICATION Spec
CONSTANTS
  Driver = {d1}
  Call = {c1, c2}
  None = None
  BreakAfter = 2
  MaxTime = 2
  MaxHours = 4
  MaxSeed = 5
  Limits <- MCLimits
  Warning = 1
SYMMETRY Symmetry
INVARIANTS TypeOK BreakBeforeEight DailyWithinWeekly HoursCountedOnce RestEndsLegal CardsMatchCheck
