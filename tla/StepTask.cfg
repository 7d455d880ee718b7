SPECIFICATION FairSpec
CONSTANTS
  Jobs <- AllJobs
  Lines = 2
  PipeCap = 1
  Deploys = 2
INVARIANTS
  NothingLeft
  
  TreeIsWhole
PROPERTY StepEnds
