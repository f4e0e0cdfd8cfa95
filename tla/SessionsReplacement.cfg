SPECIFICATION Spec
CONSTANTS
  Sids = {s1}
  Rotations = {r1, r2}
  Pairings = {t1}
  Approvals = {a1}
  MaxEvents = 0
INVARIANT ReplacementWorks
CHECK_DEADLOCK FALSE
