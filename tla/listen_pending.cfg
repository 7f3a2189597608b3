SPECIFICATION ListenSpec
CONSTANTS
  Mail = {m1, m2}
  OwnMail = {m2}
  Asks = {m1}
  MaxDeliveries = 2
  Limit = 2
  MaxStarts = 2
INVARIANTS
  AsksRecorded
CHECK_DEADLOCK FALSE
