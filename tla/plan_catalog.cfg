CONSTANTS
  Tickets = {1, 2}
  Corpus = {1}
  Manifests <- MCManifests
  Forms <- MCForms
  Keep = Keep
  Outputs <- MCOutputs
  Nothing = Nothing
  OutOfScope <- MCOutOfScope
  Importable <- MCImportable
  Supported <- MCSupported
  MaxInputs = 4
  MaxJobs = 1
SPECIFICATION Spec
CHECK_DEADLOCK FALSE
INVARIANTS
  Inv
  ReimportChangesNothing
  EvidenceMatchesOutput
  NeedsReviewNeverQueued
