SPECIFICATION Spec
CONSTANTS
  Conns = {1, 2}
  Replies = {r1, r2}
  Producers = {1, 2, r1, r2}
  Orchestrated = {r2}
  QueueSize = 2
  MaxChunks = 1
  MaxCancels = 1
  Budget = 3
INVARIANTS
  ShownIsStored
  NoSilentEnd
  FanOutLast
  NobodyWaitsInVain
CHECK_DEADLOCK FALSE
