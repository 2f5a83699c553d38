CONSTANTS
  Repos = {a, b}
  None = None
  Workers = {w1, w2}
  Updates = {q1}
  Triggers = {q2}
  GroupEdits = {q3}
  Runs = {r1}
  MaxFaults = 1
SPECIFICATION FairSpec
CHECK_DEADLOCK FALSE
INVARIANTS TypeOK ReadyIsCurrent ReadyIsOnDisk StartsUndisturbed
PROPERTY SyncingEnds
