SPECIFICATION FairSpec
CONSTANTS
  Runs = {r1}
  None = None
  Paths = {"interactive", "confirmed", "api"}
  Faults = {"cancel", "workerCrash", "stall"}
  Slots = 2
  MaxRequests = 1
  MaxCrashes = 1
INVARIANTS AtMostOnce
PROPERTIES RunEnds SessionFreed
CHECK_DEADLOCK FALSE
