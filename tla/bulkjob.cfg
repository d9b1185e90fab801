SPECIFICATION FairSpec
CONSTANTS
  a = a
  b = b
  c = c
  known = known
  Address = {a, b}
  Outcome = {known}
  NoResult = NoResult
  Width = 2
  PageSize = 1
  MaxIds = 3
  MaxFailures = 1
INVARIANTS
  AnswerMeansAccepted
  StoppedShowsAll
  ShownIsStored
  DownloadConsistent
PROPERTIES
  PageFinishes
CHECK_DEADLOCK FALSE
