CONSTANTS
  MaxRequests = 5
  MaxRetries = 2
  Unit = 4
  Burst = 2
  Ceiling = 4
  Floor = 1
  Window = 2
  MaxDelay = 1
  MaxIdle = 8
  MaxSpan = 3
SPECIFICATION FairSpec
INVARIANTS
  Inv
PROPERTIES
  ContractSpec
  CallsEnd
