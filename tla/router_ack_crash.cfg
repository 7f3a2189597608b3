SPECIFICATION Spec
CONSTANTS
  Agents = {a1}
  MaxMsgs = 2
  MaxEpoch = 3
  MaxRetries = 1
  AckStages = {"accepted"}
  Kinds = {"plain"}
INVARIANTS
  AcceptedStaysOut
CHECK_DEADLOCK FALSE
