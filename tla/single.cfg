SPECIFICATION FairSpec
CONSTANTS
  c1 = c1
  c2 = c2
  b1 = b1
  Caller = {c1, c2}
  Bulk = {b1}
  Concurrency = 2
  Slots = 1
  MaxFailures = 1
INVARIANTS
  StoredBeforeAnswered
  CountedPerRun
PROPERTY
  EveryoneAnswered
CHECK_DEADLOCK FALSE
