SPECIFICATION Spec
CONSTANTS
  Runs = {r1, r2}
  None = None
  Paths = {"interactive", "api"}
  Faults = {"expire", "disable", "submitError"}
  Slots = 1
  MaxRequests = 1
  MaxCrashes = 0
SYMMETRY Symmetry
INVARIANTS SessionOwned
PROPERTIES LegalStatus
CHECK_DEADLOCK FALSE
