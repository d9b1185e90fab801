SPECIFICATION Spec
CONSTANTS
  r1 = r1
  r2 = r2
  t1 = t1
  t2 = t2
  u1 = u1
  u2 = u2
  Request <- MCRequests
  User <- MCUsers
  OldToken <- MCTokens
  Earlier = Earlier
  Connections = 2
  MaxSessions = 2
  CodeCount = 1
  MaxCharges = 1
  ChargeWindow = 1
  VerifiedLife = 3
  HalfLife = 1
  SetupLife = 1
  MaxTime = 1
  None = None
INVARIANTS
  SessionsBounded
  SessionsCurrent
  CodesOnce
  AttemptsBounded
  NoStandstill
SYMMETRY MCPermutations
CHECK_DEADLOCK FALSE
