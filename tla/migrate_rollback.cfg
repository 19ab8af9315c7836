SPECIFICATION Spec
CONSTANTS
  N = 2
  Keyspaces = {k1, k2}
  Addresses = {a1, a2, a3}
  Unmigratable = {k2}
  Commands = {"migrate", "rollback"}
  ForceChoices = {TRUE, FALSE}
  RestartMode = "k8s"
  MaxFaults = 3
  MaxDisruptions = 1
  None = None
  k1 = k1
  k2 = k2
  a1 = a1
  a2 = a2
  a3 = a3
INVARIANTS
  TypeOK
  FinalizeOnlyConverted
  RollbackOnlyReverted
  NoStaleMark
  NoAbandonedDrain
PROPERTIES
  PreparesOnlyMigratable
SYMMETRY Symmetry
