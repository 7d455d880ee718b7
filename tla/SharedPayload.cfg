SPECIFICATION Spec
CONSTANTS
  NumSteps = 2
  PayloadNames = {1}
  StepId <- SharedIds
  HasTimeout <- AllSteps
  HasGuard <- NoSteps
  HasEnv <- NoSteps
  HasSecrets <- NoSteps
  Policy = "auto"
  KeepOnCancel = FALSE
  ContinueOnError = TRUE
  SupportsEnv = TRUE
  AmbiguousInput = FALSE
  QueueCap = 1
  MaxCuts = 2
INVARIANTS
  LivePayloadKept
