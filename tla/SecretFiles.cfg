SPECIFICATION Spec
CONSTANTS
  ann = ann
  bob = bob
  Operators = {ann, bob}
  Hosts <- MCHosts
  Plains <- MCPlains
  Missing <- MCMissing
  First <- MCFirst
  Playbooks <- MCPlaybooks
  p1 = p1
  p2 = p2
  Procs = {p1, p2}
  MaxJobs = 3
  MaxLosses = 1
SYMMETRY MCSymmetry
INVARIANTS
  CanStillRead
  HostHasItsOwn
CHECK_DEADLOCK FALSE
