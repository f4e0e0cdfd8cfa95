---------------------------- MODULE MCScheduler ----------------------------
\* Instances of Scheduler for TLC.
EXTENDS Scheduler, TLC

CONSTANTS p1, p2, j1, j2, r1, r2, r3, k1

Symmetry == Permutations(Runs)

\* A job triggered by events that may run twice at a time, and one that gives
\* up after a failure or a success.
EventDef == (j1 :> [kind |-> "event", maxConc |-> 2, deadAfter |-> 2, repeat |-> 0,
                    misfireSkip |-> FALSE, gated |-> FALSE])

IntervalDef == (j1 :> [kind |-> "interval", maxConc |-> 1, deadAfter |-> 1, repeat |-> 1,
                       misfireSkip |-> TRUE, gated |-> TRUE])
=============================================================================
