SPECIFICATION Spec
CONSTANTS
  Runs = {r1, r2}
  None = None
  Paths = {"interactive", "confirmed"}
  Faults = {"workerCrash", "apiCrash", "callError"}
  Slots = 2
  MaxRequests = 0
  MaxCrashes = 1
SYMMETRY Symmetry
INVARIANTS TypeOK TokenNamesRun ExclusiveRun
PROPERTIES TakesTurns
CHECK_DEADLOCK FALSE
