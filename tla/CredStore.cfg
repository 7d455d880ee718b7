SPECIFICATION Spec
CONSTANTS
  A = A
  B = B
  v1 = v1
  v2 = v2
  Keys <- MCKeys
  Values <- MCValues
  Short = {}
  MaxInstalls = 2
  MaxRotations = 1
SYMMETRY MCSymmetry
INVARIANTS
  StoreIsOneRequest
  CurrentIsTrue
  StoreIsKept
CHECK_DEADLOCK FALSE
