SPECIFICATION Spec
CONSTANTS
  N = 3
  Keyspaces = {k1, k2}
  Addresses = {a1, a2, a3, a4}
  Unmigratable = {}
  Commands = {"migrate"}
  ForceChoices = {FALSE}
  RestartMode = "k8s"
  MaxFaults = 2
  MaxDisruptions = 0
  None = None
  k1 = k1
  k2 = k2
  a1 = a1
  a2 = a2
  a3 = a3
  a4 = a4
INVARIANTS
  OneNodeOut
  OneMarkAtATime
  RequestsReachTheirNode
PROPERTIES
  NoNeedlessRestart
  ImplementsRolling
