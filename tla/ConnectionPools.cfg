SPECIFICATION PoolsSpec
CONSTANTS
  Pass = {"t1", "t2"}
  Database = {"maintenance", "app"}
  Credential = {"old", "new"}
  Pool <- MCPool
  Nobody = Nobody
  Connects = 1
  MaxChanges = 2
  MaxCloses = 1
INVARIANTS
  NoPoolLost
PROPERTIES
  Recovers
