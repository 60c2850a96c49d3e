CONSTANTS
  N = 5
  JobsFlag = 1
  ParseFlag = 2
  DownloadFlag = 2
  Parallelism = 2
  MaxPanics = 2
  MaxFaults = 2
SPECIFICATION FairSpec
INVARIANTS
  OkMeansAllParsed
  OutcomeIsDeterministic
PROPERTIES
  Terminates
CHECK_DEADLOCK FALSE
