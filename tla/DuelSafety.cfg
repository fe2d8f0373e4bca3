CONSTANTS
  Session = {a, b, c}
  Fd = {f1, f2, f3}
  FightId = {i1}
  Leaving = {a, b, c}
  Answering = {}
  MaxRequests = 2
  CHECK_TIME = 1
  None = none
SYMMETRY Symmetry
SPECIFICATION Spec
INVARIANTS TypeOK FightingIsOwned OneFightAtATime
PROPERTIES ImplementsChallenge
CHECK_DEADLOCK FALSE
