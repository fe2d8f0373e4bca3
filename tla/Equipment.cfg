CONSTANTS
  Equip = {1, 2, 3, 4}
  TypeOf <- Types
  Bonus <- Bonuses
  SentType <- Sent
  MaxConnections = 4
  MaxBusy = 2
SPECIFICATION Spec
INVARIANTS AttachIsWorn OneWornPerType ListIsTable EnoughConnections
