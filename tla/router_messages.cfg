SPECIFICATION Spec
CONSTANTS
  Agents = {a1}
  MaxMsgs = 2
  MaxEpoch = 2
  MaxRetries = 1
  AckStages = {"delivered", "accepted", "nack"}
  Kinds = {"plain"}
INVARIANTS
  AcceptedNotQueued
  RetryBudget
PROPERTIES
  SeqMonotone
  SettledNotResent
CHECK_DEADLOCK FALSE
