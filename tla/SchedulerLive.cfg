SPECIFICATION FairSpec
CONSTANTS
  p1 = p1  p2 = p2  j1 = j1  j2 = j2  r1 = r1  r2 = r2  r3 = r3  k1 = k1
  Procs = {p1}
  Jobs = {j1}
  Runs = {r1, r2}
  Keys = {}
  Def <- EventDef
  LeaseTTL = 1
  Period = 2
  MisfireGrace = 0
  Workers = 1
  RunRetention = 1
  DedupeRetention = 2
  MaxTime = 2
  MaxFaults = 1


PROPERTIES RunEnds DispatchProgress
