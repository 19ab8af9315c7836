\* The tools stop when their runs and faults are spent.
CHECK_DEADLOCK FALSE
SPECIFICATION FairSpec
CONSTANTS
  Loopback = {"127.0.0.1", "localhost"}
  NodeAddresses = {"pod1", "pod2"}
  LoadOptions <- MCLoadOptions
  CpuCount = 2
  MaxWorkers = 3
  MaxLoads = 2
  MaxFaults = 1
  NoLoad = NoLoad
  QueryOptions <- MCQueryOptions
  MaxQueries = 1
  SlowRows = 1
  SlowBuckets = 2
INVARIANTS
  TypeOK
  CleanLoadComplete
  NoStrayRows
  TotalsExact
  SessionsHonourFlags
PROPERTIES
  MatchingReaderFinds
  LoaderEnds
