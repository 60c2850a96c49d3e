CONSTANTS
  t1 = t1
  t2 = t2
  c1 = c1
  c2 = c2
  Tickets = {t1, t2, t3}
  Contents = {c1, c2}
  Missing = Missing
  Refers <- MCRefers
  Served <- MCServed
  Excluded = {t3}
  Unsupported = {}
  Faults = {"transport", "not_modified", "forbidden", "budget_exhausted", "garbled"}
  Origins = {"AnalystSeed"}
  MaxRequests = 2
  MaxRetries = 0
  MaxSearches = 1
  MaxEdits = 1
  MaxMishaps = 1
SPECIFICATION FairSpec
INVARIANTS
  Inv
PROPERTIES
  SnapshotsAppendOnly
  PendingResolved
