SPECIFICATION Spec
CONSTANTS
  d1 = d1
  Deployers = {d1}
  Paths <- MCPaths
  Callers = {"root", "sudo", "plain"}
  Seals = {TRUE, FALSE}
  Keeps <- MCKeeps
  MaxStamp = 3
  MaxVerbs = 3
INVARIANTS
  DstWhole
  SealLeavesNoPlaintext
  
  
CHECK_DEADLOCK FALSE
