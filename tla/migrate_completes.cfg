SPECIFICATION MigrateSpec
CONSTANTS
  N = 2
  Keyspaces = {k1, k2}
  Addresses = {a1, a2, a3}
  Unmigratable = {}
  Commands = {"migrate"}
  ForceChoices = {FALSE}
  RestartMode = "k8s"
  MaxFaults = 1
  MaxDisruptions = 1
  None = None
  k1 = k1
  k2 = k2
  a1 = a1
  a2 = a2
  a3 = a3
PROPERTIES
  MigrationCompletes
