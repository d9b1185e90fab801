SPECIFICATION ProbeSpec
INVARIANTS
  ComplaintsDecideNothing
  ProbesAgree
CHECK_DEADLOCK FALSE
