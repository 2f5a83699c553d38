CONSTANTS
  Messages = {m1, m2}
  Wakeups = {k1}
  Profiles = {alice, bob}
  None = None
  Window = 3
  Logged = {0, 2, 4}
  MaxFaults = 1
SPECIFICATION Spec
SYMMETRY Symmetry
CHECK_DEADLOCK FALSE
INVARIANTS TypeOK TurnInv KnownCollisions TurnAnswers
