SPECIFICATION Spec
CONSTANTS
  app = app
  plpgsql = plpgsql
  Schema = {app}
  Extension = {plpgsql}
  Template = {plpgsql}
  Baseline = {plpgsql}
  Available = {plpgsql}
  Home <- HomeNone
  Breaks <- StepsButReopen
  Stops <- StepsOpen
  Meddling = {"object", "database", "role", "elsewhere", "session", "replication", "instance"}
  Hasty = FALSE
  MaxBreaks = 1
  MaxEdits = 2
  MaxMeddling = 1
INVARIANTS
  OrphansTracked
  ReplicationIntact
  RetainedReachable
  DroppedClean
PROPERTIES
  Settles
  DeletionEnds
