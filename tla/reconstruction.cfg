CONSTANTS
  Streams = {1, 2}
  CollectorOf <- OneCollector
  PathIds = {0, 1, 2}
  RoutesOf <- FourInstances
  SessionOf <- OneSession
  Routes <- ThreeRoutes
  Absent = Absent
  Via <- MCVia
  Predicate <- MCPredicate
  Times = {1, 2, 4, 5, 11}
  EventStart = 2
  EventEnd = 4
  CooldownEnd = 10
  MaxObservations = 5
  Second = 2
  MaxGap = 1
SPECIFICATION Spec
CHECK_DEADLOCK FALSE
INVARIANTS
  Inv
  EndsLikeTheStore
  WithdrawnMeansAbsent
  AbsencesAddUp
  NoImpactMeansVia
  WavesRefine
  EndStatesAgree
  ToldOnce
  StoryIsShared
