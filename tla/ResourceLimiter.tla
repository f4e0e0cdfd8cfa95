-------------------------- MODULE ResourceLimiter --------------------------
(***************************************************************************)
(* jobs.ResourceLimiter: one semaphore, a buffered channel, per resource.  *)
(* A lease may be released any number of times, by several goroutines; the *)
(* channel is drained once.                                                *)
(***************************************************************************)
EXTENDS Naturals, FiniteSets

CONSTANTS Resources, Limit, Leases, Nothing

VARIABLES inUse,     \* tokens in the channel of each resource
          lease,     \* per lease: its resource, Nothing before Acquire
          released   \* leases whose once has run

vars == <<inUse, lease, released>>

\* Limits are numbers, and no resource is taken for none.
LimiterConstants == Limit \in [Resources -> Nat] /\ Nothing \notin Resources

\* Acquire sends a token, or gives up with its context (no change).
Acquire(l, r) ==
    /\ lease[l] = Nothing
    /\ inUse[r] < Limit[r]
    /\ inUse' = [inUse EXCEPT ![r] = @ + 1]
    /\ lease' = [lease EXCEPT ![l] = r]
    /\ UNCHANGED released

\* Release without the once.
ReleaseAgain(l) ==
    /\ lease[l] # Nothing
    /\ inUse[lease[l]] > 0
    /\ inUse' = [inUse EXCEPT ![lease[l]] = @ - 1]
    /\ released' = released \cup {l}
    /\ UNCHANGED lease

\* Release under sync.Once; the receive would block on an empty channel.
Release(l) ==
    /\ lease[l] # Nothing
    /\ \/ l \in released /\ UNCHANGED <<inUse, released>>
       \/ /\ l \notin released
          /\ inUse[lease[l]] > 0
          /\ inUse' = [inUse EXCEPT ![lease[l]] = @ - 1]
          /\ released' = released \cup {l}
    /\ UNCHANGED lease

Init == /\ inUse = [r \in Resources |-> 0]
        /\ lease = [l \in Leases |-> Nothing]
        /\ released = {}

Next == \E l \in Leases : Release(l) \/ \E r \in Resources : Acquire(l, r)

Spec == Init /\ [][Next]_vars

\* Tokens and leases have the values the code gives them; the receive of Release never
\* waits, since a lease that was not released has its token in the channel.
LimiterTypeOK ==
    /\ inUse \in [Resources -> Nat]
    /\ lease \in [Leases -> Resources \cup {Nothing}]
    /\ released \subseteq {l \in Leases : lease[l] # Nothing}
    /\ \A l \in Leases \ released : lease[l] # Nothing => inUse[lease[l]] > 0

\* The tokens of a resource are the leases of it that nobody has released, and never
\* more than its limit: releasing twice gives no slot away.
TokensAreLeases ==
    \A r \in Resources :
        /\ inUse[r] = Cardinality({l \in Leases \ released : lease[l] = r})
        /\ inUse[r] <= Limit[r]

=============================================================================
