CONSTANTS
  Slot = {s, t}
  User = {u, v}
  FightId = {i}
  None = none
  MaxXP = 1
  MaxRequests = 2
  MaxUnlucky = 1
  HP = 1
  POINTS_PER_LEVEL = 1
  XP_PER_MONSTER_LEVEL = 1
SYMMETRY Symmetry
SPECIFICATION Spec
INVARIANTS NothingUnearned NothingLost SessionIsClients
CHECK_DEADLOCK FALSE
