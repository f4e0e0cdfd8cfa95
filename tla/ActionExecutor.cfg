SPECIFICATION Spec
CONSTANTS
  a = a  b = b  r1 = r1  r2 = r2  r3 = r3
  Runs = {r1, r2, r3}
  Keys = {a, b}
  Actions <- Plans
  Gated = {b}
  MaxFaults = 2
SYMMETRY Symmetry
CHECK_DEADLOCK FALSE
INVARIANTS TypeOK OneEffect ReportedIsDurable NeverRepeated StopsAfterFailure EffectNeedsApproval
