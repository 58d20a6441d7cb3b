SPECIFICATION Spec
CONSTANTS
  Replication = {"ab", "bc", "ca", "ba"}
  Database = {"a", "b", "c", "a2", "b2"}
  Place <- MCPlace
  Name <- MCName
  Site <- MCSite
  NoSite = NoSite
  NoEdge = NoEdge
  Ends <- MCEnds
  ServerOf <- MCServer
  Origins <- Home
  Movable = {"b"}
  Budgets <- MCBudgets
INVARIANTS
  LoopsHaveALapse
PROPERTIES
  LoopReported
  ChainsAttach
