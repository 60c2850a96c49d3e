CONSTANTS
  Tickets = {1, 2}
  Kinds = {References}
  Windows <- MCWindows
  Contents <- MCContents
  References = References
  Labels = {L1}
  ChangeIds = {C1}
  CaseStudies = {S1}
  None = None
  MaxVersion = 2
  MaxChanges = 4
  MaxRebuilds = 2
SPECIFICATION Spec
CHECK_DEADLOCK FALSE
INVARIANTS
  Inv
  RebuildIsComplete
PROPERTIES
  SettledRejectionsKept
