SPECIFICATION Spec
CONSTANTS
  Subtasks = {s1, s2}
  RETRY_LIMIT = 1
INVARIANTS
  RetriedOnce
CHECK_DEADLOCK FALSE
