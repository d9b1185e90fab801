SPECIFICATION Spec
CONSTANTS
  w1 = w1
  w2 = w2
  bulk1 = bulk1
  single1 = single1
  junk = junk
  NoTask = NoTask
  NoResult = NoResult
  Worker = {w1, w2}
  Msg = {1, 2}
  Task = {bulk1, single1}
  Bulk = {bulk1}
  Single = {single1}
  Untagged = {}
  Concurrency = 1
  MaxStorageAttempts = 2
  MaxLosses = 2
  BrokerMayNack = FALSE
INVARIANTS
  NotifiedAfterStored
  OwnedDeliveries
  NoLostTask
  OneRowPerTask
  OneReplyPerCaller
PROPERTIES
  LedgerSafe
SYMMETRY MCPermutations
CHECK_DEADLOCK FALSE
