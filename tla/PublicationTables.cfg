SPECIFICATION Spec
CONSTANTS
  NoFilter = NoFilter
  Relation <- MCRelation
  Column <- MCColumn
  Filter <- MCFilter
  FilterColumns <- MCFilterColumns
  SourceCatalogs <- Sources
  TargetCatalogs <- Targets
  InitialSources <- Healthy
  InitialTargets <- Awaiting
  Specs <- MCSpecs
  GeneratedChecked = FALSE
  Claimable = {"u"}
  Loadable = {"u"}
  Refusable = {"add"}
  Edits = {"source", "target", "rows", "publication", "spec", "claims"}
  MaxEdits = 3
  MaxBreaks = 1
  MaxRefusals = 1
INVARIANTS
  FilterHonoured
  WritesAccepted
  ReportedOrFlowing
PROPERTIES
  Converges
