SPECIFICATION Spec
CONSTANTS
  Replication = {"a", "b"}
  NameOrder <- MCNameOrder
  Table = {"t"}
  Instance = {"i", "j", "k"}
  TargetOf <- MCTargetOf
  Budgets <- MCBudgets
INVARIANTS
  RestIsRight
PROPERTIES
  OneWriter
  Served
