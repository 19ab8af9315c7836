SPECIFICATION Spec
CONSTANTS
  N = 2
  Keyspaces = {k1}
  Addresses = {a1, a2, a3}
  Unmigratable = {}
  Commands = {"migrate", "rollback"}
  ForceChoices = {FALSE}
  RestartMode = "k8s"
  MaxFaults = 2
  MaxDisruptions = 0
  None = None
  k1 = k1
  a1 = a1
  a2 = a2
  a3 = a3
INVARIANTS
  OneMarkAtATime
