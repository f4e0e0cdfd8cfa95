SPECIFICATION Spec
CONSTANTS
    j1 = j1  j2 = j2  h1 = h1  h2 = h2  k1 = k1  r1 = r1  worker = worker
    x1 = x1  x2 = x2  c1 = c1  c2 = c2  l1 = l1  l2 = l2  l3 = l3
    Nothing = Nothing
    Subjects = {"leases", "keys", "planning", "processes", "limits", "bundle", "imports",
                "checkpoints", "reviews", "flip", "health", "tending", "decisions"}
INVARIANTS WorkTypeOK    DecisionsHold
  
\* Behaviours stop at their bounds, and when a decision is made.
CHECK_DEADLOCK FALSE
