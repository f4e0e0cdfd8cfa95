SPECIFICATION Spec
CONSTANTS
  MaxIds = 2
  Idents = {i1}
  Blocked = {i1}
  MaxTime = 1
  MaxFaults = 0
INVARIANT BlockedIsDenied
CHECK_DEADLOCK FALSE
