SPECIFICATION FairSpec
CONSTANTS
  h1 = h1
  h2 = h2
  ctl = ctl
  Hosts <- MCHosts
  Controller = ctl
  Plans <- MixedPlans
  Parallel = 1
  ContinueOnError = TRUE
  Faults = {"host", "executor", "handler"}
  TeardownBudget = 1
  CleanupBudget = 2
  InterruptGrace = 3
INVARIANTS
  FirstFailureWins
PROPERTIES
  InterruptEnds
