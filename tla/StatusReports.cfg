SPECIFICATION Spec
CONSTANTS
  MaxErrors = 1
  Budgets <- MCBudgets
INVARIANTS
  LossIsReal
PROPERTIES
  LossSticks
  StateSettles
  PhaseSettles
