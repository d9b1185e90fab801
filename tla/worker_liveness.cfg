SPECIFICATION FairSpec
CONSTANTS
  w1 = w1
  w2 = w2
  bulk1 = bulk1
  single1 = single1
  junk = junk
  NoTask = NoTask
  NoResult = NoResult
  Worker = {w1}
  Msg = {1, 2, 3, 4}
  Task = {bulk1, junk}
  Bulk = {bulk1}
  Single = {}
  Untagged = {bulk1}
  Concurrency = 1
  MaxStorageAttempts = 1
  MaxLosses = 1
  BrokerMayNack = TRUE
PROPERTIES
  LedgerProgress
  QueueDrains
CHECK_DEADLOCK FALSE
