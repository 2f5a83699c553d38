CONSTANTS
  Runs = {r1}
  Decisions = {d1, d2}
  Places = {here, there}
  None = None
  MaxFaults = 1
SPECIFICATION FairSpec
CHECK_DEADLOCK FALSE
INVARIANTS TypeOK SucceededIsWhole OrphanHasCause
PROPERTY CalledOffEnds
