SPECIFICATION Spec
CONSTANTS
  Subtasks = {s1, s2}
  RETRY_LIMIT = 1
PROPERTIES
  NotCancelledOverSubtasks
CHECK_DEADLOCK FALSE
