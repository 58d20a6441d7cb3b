SPECIFICATION Spec
CONSTANTS
  orders = orders
  p1 = p1
  p2 = p2
  p3 = p3
  gift = gift
  Database = {orders}
  Level = {"OWNER", "RW"}
  Password = {p1, p2, p3}
  ProvidedPassword = gift
  NoPassword = NoPassword
  Breaks <- EveryStep
  Meddling = {"password", "secret", "role", "objects", "database", "group", "remake", "setRole", "instance"}
  Hasty = FALSE
  MaxBreaks = 1
  MaxEdits = 2
  MaxMeddling = 1
INVARIANTS
  NoLingeringAccess
  DroppedClean
PROPERTIES
  NoGapInAccess
  NoNeedlessReset
  Settles
  DeletionEnds
