CONSTANTS
  Clicks = {c1}
  Admins = {a1, a2}
  Workers = {w1, w2}
  None = None
  Faults = {"stall", "callError", "crash"}
  MaxStalls = 1
  MaxCrashes = 1
SPECIFICATION FairSpec
CHECK_DEADLOCK FALSE
INVARIANTS TypeOK OneRunPerTask
PROPERTIES DecisionStands ClickDecides
