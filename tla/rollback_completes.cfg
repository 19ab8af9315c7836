SPECIFICATION RollbackSpec
CONSTANTS
  N = 3
  Keyspaces = {k1}
  Addresses = {a1, a2, a3, a4}
  Unmigratable = {}
  Commands = {"rollback"}
  ForceChoices = {FALSE}
  RestartMode = "manual"
  MaxFaults = 1
  MaxDisruptions = 0
  None = None
  k1 = k1
  a1 = a1
  a2 = a2
  a3 = a3
  a4 = a4
PROPERTIES
  RollbackCompletes
