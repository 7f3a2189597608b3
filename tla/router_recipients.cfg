SPECIFICATION FairSpec
CONSTANTS
  Agents = {a1, a2}
  MaxMsgs = 1
  MaxEpoch = 3
  MaxRetries = 1
  AckStages = {"accepted", "nack"}
  Kinds = {"type"}
INVARIANTS
  AnsweredDurable
  AnsweredTracked
PROPERTIES
  EventuallySettled
CHECK_DEADLOCK FALSE
