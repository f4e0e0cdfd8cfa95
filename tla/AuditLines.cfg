SPECIFICATION Spec
CONSTANTS
    c1 = c1  c2 = c2  a1 = a1  p1 = p1  r1 = r1  r2 = r2  t1 = t1  u1 = u1
    Bad = Bad  Old = Old  Hoopoe = Hoopoe  Nothing = Nothing
    Subjects = {"audit"}
INVARIANT LinesAreConsumed
CHECK_DEADLOCK FALSE
