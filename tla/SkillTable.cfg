CONSTANTS
  RANGE = 4
  Skills = 2
  RequiredLevel <- Levels
  MaxProbability = 4
  Level = {1, 2, 3}
SPECIFICATION FairSpec
INVARIANTS SharesAreExact
PROPERTIES TableIsFilled AttackIsFound
CHECK_DEADLOCK FALSE
