SPECIFICATION FairSpec
CONSTANTS
  Verbs <- MCVerbs
  Kinds = {"simple", "notify", "oneshot"}
  Enabled = {"enabled", "disabled", "generated", "missing"}
  MaxMeddle = 1
INVARIANTS
  StoppedStaysStopped
  ReadyIsTheNewOne
  TimeoutMeansPending
PROPERTIES
  VerbEnds
CHECK_DEADLOCK FALSE
