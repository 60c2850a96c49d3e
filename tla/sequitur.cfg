CONSTANTS
  Terminals = {1, 2}
  MaxDepth = 4
  MaxLength = 8
SPECIFICATION BuildSpec
CHECK_DEADLOCK FALSE
INVARIANTS
  ExpandsToInput
PROPERTIES
  BuildTerminates
