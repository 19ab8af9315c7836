SPECIFICATION Spec
CONSTANTS
  N = 3
  Keyspaces = {k1, k2}
  Addresses = {a1, a2, a3}
  k1 = k1
  k2 = k2
  a1 = a1
  a2 = a2
  a3 = a3
  Unmigratable = {k2}
  MaxDisruptions = 1
  MaxFaults = 3
SYMMETRY Alike
INVARIANTS
  TypeOK
  FinalizeOnlySettled
PROPERTIES
  RollsWhilePlain
