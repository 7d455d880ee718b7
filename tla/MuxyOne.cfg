SPECIFICATION Spec
CONSTANTS
  NumSteps = 1
  PayloadNames = {1}
  StepId <- OwnIds
  HasTimeout <- AllSteps
  HasGuard <- NoSteps
  HasEnv <- AllSteps
  HasSecrets <- AllSteps
  Policy = "auto"
  KeepOnCancel = FALSE
  ContinueOnError = FALSE
  SupportsEnv = TRUE
  AmbiguousInput = FALSE
  QueueCap = 2
  MaxCuts = 2
INVARIANTS
  TypeOK
  AtMostOnce
  Truthful
  LeavesNothingBehind
PROPERTIES
  InterruptStops
  DeadlineStops
