CONSTANTS
  Sessions = {s1}
  None = None
  Workers = {w1, w2}
  Hours = 3
  FirstWeekday = 4
  MaxTime = 5
  MaxRuns = 2
  MaxFaults = 1
  Offset <- MCOffset
  Daily <- MCDaily
  Weekly <- MCWeekly
SPECIFICATION Spec
SYMMETRY Symmetry
CHECK_DEADLOCK FALSE
INVARIANTS TypeOK OncePerPeriod SuppressedIsLate LeftBehindHasCause
