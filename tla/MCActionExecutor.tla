-------------------------- MODULE MCActionExecutor --------------------------
\* Instances of ActionExecutor for TLC.
EXTENDS ActionExecutor, TLC

CONSTANTS a, b, r1, r2, r3

\* A plan, a retry of it, and another plan that agrees with them on one key.
Plans == [r \in Runs |-> IF r = r3 THEN <<b>> ELSE <<a, b>>]

\* Runs of the same plan
Symmetry == Permutations({r1, r2})
=============================================================================
