SPECIFICATION FairSpec
CONSTANTS
  Nodes = {n1, n2, n3}
  Names = {n1, n2, n3, ghost}
  MaxConcurrency = 2
INVARIANTS
  DependenciesFirst
  NoBarrier
  ResultPartition
  FailedForAReason
PROPERTIES
  ImplementsSchedule
  Terminates
CHECK_DEADLOCK FALSE
