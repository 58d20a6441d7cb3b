SPECIFICATION Spec
CONSTANTS
  orders = orders
  p1 = p1
  p2 = p2
  p3 = p3
  gift = gift
  Database = {orders}
  Level = {"OWNER", "RW"}
  Password = {p1, p2, p3}
  ProvidedPassword = gift
  NoPassword = NoPassword
  Breaks = {}
  Meddling = {"grant"}
  Hasty = FALSE
  MaxBreaks = 0
  MaxEdits = 2
  MaxMeddling = 1
PROPERTY
  GrantsOfOthersKept
