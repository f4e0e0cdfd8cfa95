SPECIFICATION Spec
CONSTANTS
  MaxIds = 2
  Idents = {i1, i2}
  Blocked = {i2}
  MaxTime = 2
  MaxFaults = 1
INVARIANTS TypeOK OneOpenApproval
PROPERTY ExpiresOnTime
CHECK_DEADLOCK FALSE
