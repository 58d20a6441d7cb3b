SPECIFICATION Spec
CONSTANTS
  p1 = p1
  p2 = p2
  p3 = p3
  p4 = p4
  gift = gift
  ProvidedPassword = gift
  NoPassword = NoPassword
  Password <- MCPassword
  Strangers = {"login", "slot"}
  Overlap = TRUE
  Budgets <- Crashes
SYMMETRY PasswordSymmetry
INVARIANT
  CredentialsMatch
PROPERTIES
  OthersUntouched
  SecretOutlivesLogin
