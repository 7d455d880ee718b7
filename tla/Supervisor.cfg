SPECIFICATION FairExecSpec
CONSTANTS
  Conditions <- MCConditions
  Declared <- MCDeclared
  MaxFlips = 3
INVARIANTS
  NothingOutlivesIt
PROPERTIES
  EndsOrServes
  StopEnds
CHECK_DEADLOCK FALSE
