SPECIFICATION Spec
CONSTANTS
  Windows = 3
  Length <- MCLength
  Limited <- MCLimited
  Limit <- MCLimit
  MaxTime = 11
INVARIANTS
  SlidingBound
  RefusalJustified
PROPERTIES
  NoEarlyAdmission
CHECK_DEADLOCK FALSE
