CONSTANTS
  Projects = {p1, p2}
  None = None
  Mentions = {m1}
  Confirms = {c1, c2}
  Privates = {d1}
  Notices = {n1}
  Additions = {a1}
  Unbinds = {u1}
  Deletes = {x1}
  Resets = {x2}
  Edits = {e1}
  MaxBusy = 2
  MaxRequests = 3
  MaxFaults = 1
SPECIFICATION Spec
CHECK_DEADLOCK FALSE
INVARIANTS TypeOK ReopenedByCrossing RunsInItsEnvironment RefusedWhileUnsettled LockIsOwned
