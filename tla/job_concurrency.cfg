CONSTANTS
  Jobs = {j1, j2}
  Plans = {p1}
  Workers = {w1, w2}
  RunIds = {r1, r2}
  Times <- OneTime
  Seconds = {s1, s2}
  NoSecond = NoSecond
  NoJob = NoJob
  NoPlan = NoPlan
  NoWorker = NoWorker
  NoRun = NoRun
  PipelineStages <- NoStages
  KeepFailed = TRUE
  MaxCrashes = 0
SPECIFICATION Spec
SYMMETRY Symmetry
INVARIANTS
  ClaimExclusive
  NoRunAfterCancel
  CompletedLinksItsRun
  RetryChain
