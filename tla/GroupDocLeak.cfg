SPECIFICATION Spec
CONSTANTS
  Runs = {r1, r2}
  None = None
  Paths = {"confirmed"}
  Faults = {}
  Slots = 1
  MaxRequests = 0
  MaxCrashes = 0
INVARIANTS LockReleasedAtEnd
CHECK_DEADLOCK FALSE
