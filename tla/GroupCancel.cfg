SPECIFICATION Spec
CONSTANTS
  Runs = {r1, r2}
  None = None
  Paths = {"confirmed"}
  Faults = {"cancel", "workerCrash"}
  Slots = 2
  MaxRequests = 1
  MaxCrashes = 1
SYMMETRY Symmetry
INVARIANTS AbortingRunKeepsChat
PROPERTIES SubmissionKeepsChat
CHECK_DEADLOCK FALSE
