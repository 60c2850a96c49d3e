CONSTANTS
  Jobs = {j1}
  Plans = {p1}
  Workers = {w1, w2}
  RunIds = {r1}
  Times <- OneTime
  Seconds = {s1}
  NoSecond = NoSecond
  NoJob = NoJob
  NoPlan = NoPlan
  NoWorker = NoWorker
  NoRun = NoRun
  PipelineStages <- FourStages
  KeepFailed = FALSE
  MaxCrashes = 1
SPECIFICATION FairSpec
INVARIANTS
  SinkAgreesWithRow
  TimelineEndsWithState
  ActiveStagingKept
  CompletedLinksItsRun
PROPERTIES
  ServiceSpec
  RunningJobsEnd
