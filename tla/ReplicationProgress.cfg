SPECIFICATION Spec
CONSTANTS
  p1 = p1
  p2 = p2
  p3 = p3
  p4 = p4
  gift = gift
  ProvidedPassword = gift
  NoPassword = NoPassword
  Password <- Passwords3
  Strangers = {}
  Overlap = FALSE
  Budgets <- Retries
PROPERTIES
  FinalizerEnds
  Converges
