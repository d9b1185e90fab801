SPECIFICATION Spec
CONSTANTS
  w1 = w1
  w2 = w2
  bulk1 = bulk1
  single1 = single1
  junk = junk
  NoTask = NoTask
  NoResult = NoResult
  Worker = {w1, w2}
  Msg = {1, 2}
  Task = {bulk1}
  Bulk = {bulk1}
  Single = {}
  Untagged = {}
  Concurrency = 1
  MaxStorageAttempts = 2
  MaxLosses = 0
  BrokerMayNack = TRUE
INVARIANTS
  UnpublishedCopyRedelivers
SYMMETRY MCPermutations
CHECK_DEADLOCK FALSE
