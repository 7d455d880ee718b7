SPECIFICATION Spec
CONSTANTS
  h1 = h1
  h2 = h2
  ctl = ctl
  Hosts <- MCHosts
  Controller = ctl
  Plans <- DeployPlans
  Parallel = 2
  ContinueOnError = FALSE
  Faults = {"host"}
  TeardownBudget = 1
  CleanupBudget = 2
  InterruptGrace = 3
INVARIANTS
  SuccessIsComplete
  FailFastStops
  TornDownTruthful
  CopiedHostsSwept
  SweepAfterSteps
  SweepWithinGrace
