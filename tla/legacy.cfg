SPECIFICATION Spec
CONSTANTS
  Address = {a1, a2}
  Attempts = 2
  MaxPorts = 2
  PageSize = 1
CHECK_DEADLOCK FALSE
INVARIANTS
  RowsBounded
  DownloadIsWhole
PROPERTIES
  JobCompletes
