SPECIFICATION FairSpec
CONSTANTS
  Subtasks = {s1, s2, s3}
  RETRY_LIMIT = 1
INVARIANTS
  ParentSettledLast
  DoneMeansAllDone
PROPERTIES
  FinalRowsStay
  ImplementsSchedule
  EverythingEnds
CHECK_DEADLOCK FALSE
