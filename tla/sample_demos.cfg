\* The demonstrations stop when their runs and faults are spent.
CHECK_DEADLOCK FALSE
SPECIFICATION FairSpec
CONSTANTS
  MaxTime = 2
  MaxFaults = 1
  Fakers <- MCFakers
  FakerOptions <- MCFakerOptions
  BatchSize = 2
  Users = {1, 2, 3}
  Token <- MCToken
  MinToken <- MCMinToken
  MaxToken = 3
  TokenStep = 3
  Parallelism = 1
  MaxRuns = 2
  MaxCleanups = 1
  NoUser = NoUser
  CqlOptions <- MCCqlOptions
  CqlBatchSize = 2
  MaxCqlRuns = 3
  Pages = {"home", "docs"}
  SampleViews <- MCSampleViews
  Devices = {"d1", "d2"}
  FirstDevice = "d1"
  Readings = 2
  Attempts = 2
  MaxCopies = 2
  MaxDemos = 2
  JavaOptions <- MCJavaOptions
  Processors = 2
  MaxThreads = 2
  MaxJavaRuns = 2
  MaxMishaps = 3
INVARIANTS
  UserIdTypeOK
  CountedUsersPresent
  CleanupComplete
  CountedWritesStay
  CopyAddsUp
  DemoComplete
  PrintedRowsPresent
PROPERTIES
  LatestSurvives
  CleanupTerminates
  DemoEnds
