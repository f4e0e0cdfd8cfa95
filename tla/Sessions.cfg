SPECIFICATION Spec
CONSTANTS
  Sids = {s1, s2}
  Rotations = {r1, r2}
  Pairings = {t1, t2}
  Approvals = {a1}
  MaxEvents = 1
SYMMETRY Symmetry
INVARIANTS TypeOK  RevokedStaysRevoked WSWithSession OneRotationPerApproval
CHECK_DEADLOCK FALSE
