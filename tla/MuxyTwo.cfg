SPECIFICATION Spec
CONSTANTS
  NumSteps = 2
  PayloadNames = {1, 2}
  StepId <- OwnIds
  HasTimeout <- AllSteps
  HasGuard <- FirstStep
  HasEnv <- NoSteps
  HasSecrets <- NoSteps
  Policy = "muxy"
  KeepOnCancel = TRUE
  ContinueOnError = TRUE
  SupportsEnv = TRUE
  AmbiguousInput = FALSE
  QueueCap = 1
  MaxCuts = 1
INVARIANTS
  LivePayloadKept
PROPERTIES
  KeepsPromise
