\* Once the deployment stands and the faults are spent, nothing is left to do.
CHECK_DEADLOCK FALSE
SPECIFICATION Spec
SYMMETRY Alike
CONSTANTS
  c1 = c1
  c2 = c2
  v1 = v1
  v2 = v2
  ClusterIds = {c1, c2}
  VcnIds = {v1, v2}
  NoId = NoId
  Attempts = 2
  MaxFaults = 2
INVARIANTS
  GoneTakesContext
