CONSTANTS
  Map = {1, 2, 3}
  MonsterList <- Monsters
  RequiredLevel <- Levels
  MaxEquipId = 2
  Rate = {0, 2, 4}
  Ratio = {1, 2}
  MaxXP = 5
  POINTS_PER_LEVEL = 3
  XP_PER_MONSTER_LEVEL = 1
  ADD_HP_PER_LEVEL = 1
  ADD_AGILITY_PER_LEVEL = 1
  ADD_STRENGTH_PER_LEVEL = 1
SPECIFICATION FairSpec
INVARIANTS TypeOK LevelsArePaid NothingEarnedIsLost EquipmentOnce MapsTold
PROPERTIES FightEnds
CHECK_DEADLOCK FALSE
