SPECIFICATION Spec
CONSTANTS
  Lines <- MCLines
  MaxLines = 5
  MaxWithRare = 3
INVARIANTS
  BlocksStayPut
  PlanKeepsTheOrder
  BoundAsWritten
  MergedAlike
CHECK_DEADLOCK FALSE
