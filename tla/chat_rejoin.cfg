SPECIFICATION Spec
CONSTANTS
  Conns = {1, 2}
  Replies = {r1}
  Producers = {1, 2, r1}
  Orchestrated = {}
  QueueSize = 2
  MaxChunks = 1
  MaxCancels = 0
  Budget = 3
INVARIANT ShownIsStoredAfterRejoin
CHECK_DEADLOCK FALSE
