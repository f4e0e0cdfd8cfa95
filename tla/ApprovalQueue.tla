--------------------------- MODULE ApprovalQueue ---------------------------
(***************************************************************************)
(* The unified approval queue (apps/daemon/internal/approvals): requests   *)
(* from policies, from DCG and from the action executor, the decisions of  *)
(* the operator, and the append-only file they are kept in.                *)
(*                                                                         *)
(* Queue.mu is held from the first read of the file to the last append of  *)
(* an operation, so an operation is one action.  Nothing is cached: every  *)
(* operation replays the file, the last line of an approval wins.  The     *)
(* file is therefore modelled by the records a replay yields and by        *)
(* whether it can be replayed at all.  Approvals are listed in the order   *)
(* of their creation and numbered in that order here.                      *)
(***************************************************************************)
EXTENDS Integers

CONSTANTS
    MaxIds,         \* bound on the number of approvals
    Idents,         \* what makes two requests the same: source, policy rule
                    \* and idempotency key
    Blocked,        \* the idents of commands DCG blocks
    MaxTime,        \* bound on the clock
    MaxFaults       \* bound on the number of failed saves and crashes

ASSUME ApprovalQueueAssumption ==
    /\ Idents # {} /\ Blocked \subseteq Idents
    /\ MaxIds \in Nat /\ MaxTime \in Nat /\ MaxFaults \in Nat

Ids   == 1 .. MaxIds
Times == 0 .. (MaxTime + 1)

VARIABLES
    store,    \* store[id]: the last line of approval id
    torn,     \* a line of the file is malformed
    ingests,  \* approvals IngestDCG has requested but not yet denied
    stopped,  \* history: approvals IngestDCG requested for blocked commands
    now,      \* the clock
    faults    \* failed saves and crashes so far

vars == <<store, torn, ingests, stopped, now, faults>>

-----------------------------------------------------------------------------
\* Records

Open     == {"pending", "approved"}
Verdicts == {"approved", "denied", "revoked"}

\* The four scopes differ for ConsumeOnce only in being once or not.
Scopes == {"once", "wider"}

Approval == [state : {"absent", "expired"} \cup Open \cup Verdicts,
             ident : Idents, scope : Scopes, expires : Times]

Absent == [state |-> "absent", ident |-> CHOOSE i \in Idents : TRUE, scope |-> "once",
           expires |-> 0]

Known(st) == {id \in Ids : st[id].state # "absent"}

\* The approvals expireIfNeededLocked has something to do for.
Lapsed(st, t) == {id \in Ids : st[id].state \in Open /\ st[id].expires <= t}

Expire(st, S) == [id \in Ids |-> IF id \in S THEN [st[id] EXCEPT !.state = "expired"] ELSE st[id]]

\* Mutant: an approval that is decided is not found again.
MatchingPending(st, i) == {id \in Ids : st[id].state = "pending" /\ st[id].ident = i}

\* findExistingLocked, on a swept file.
Matching(st, i) == {id \in Ids : st[id].state \in Open /\ st[id].ident = i}

-----------------------------------------------------------------------------
\* Saves

\* An operation that leaves st; every line of it is written and synced.
Saved(st) == /\ ~torn
             /\ store' = st
             /\ UNCHANGED <<torn, faults>>

\* The operation was to append a line that turns file st into file st2.  The
\* save fails or the process crashes: before the line is written, after it is,
\* or in the middle of it.
SaveFails(st, st2) == /\ ~torn /\ faults < MaxFaults
                      /\ faults' = faults + 1
                      /\ \/ store' \in {st, st2} /\ UNCHANGED torn
                         \/ store' = st /\ torn' = TRUE

\* listLocked: every approval that has run out is saved as expired, one by
\* one in the order of the list.
Swept == Expire(store, Lapsed(store, now))

SweepFails ==
    /\ \E id \in Lapsed(store, now) :
          LET before == {k \in Lapsed(store, now) : k < id}
          IN  SaveFails(Expire(store, before), Expire(store, before \cup {id}))
    /\ UNCHANGED <<ingests, stopped, now>>

\* List and Check, both of which sweep first.
List == Saved(Swept) /\ UNCHANGED <<ingests, stopped, now>>

\* expireIfNeededLocked of the operations on one approval.
ExpireOne(id) == /\ id \in Lapsed(store, now)
                 /\ LET st == Expire(store, {id}) IN Saved(st) \/ SaveFails(store, st)

\* An operation on one approval: an approval that has run out is expired and
\* the operation refused, else it is changed to new where the guard holds.
Change(id, guard, new) ==
    /\ id \in Known(store)
    /\ \/ ExpireOne(id)
       \/ /\ id \notin Lapsed(store, now) /\ guard
          /\ LET st == [store EXCEPT ![id] = new] IN Saved(st) \/ SaveFails(store, st)

-----------------------------------------------------------------------------
\* Operations

\* Get only expires.
Get(id) == Change(id, FALSE, store[id]) /\ UNCHANGED <<ingests, stopped, now>>

\* decide: Approve, Deny and Revoke, which may narrow or widen the scope.
Decide(id, verdict, scope) ==
    /\ Change(id, store[id].state = "pending",
              [store[id] EXCEPT !.state = verdict, !.scope = scope])
    /\ UNCHANGED <<ingests, stopped, now>>

ConsumeOnce(id) ==
    /\ Change(id, store[id].state = "approved" /\ store[id].scope = "once",
              [store[id] EXCEPT !.state = "revoked"])
    /\ UNCHANGED <<ingests, stopped, now>>

\* Mutants: the time is taken for a duration; an approval that has run out is
\* extended all the same.
ExtendBy(id, e) ==
    /\ Change(id, store[id].state \in Open, [store[id] EXCEPT !.expires = @ + e])
    /\ UNCHANGED <<ingests, stopped, now>>

ExtendLapsed(id, e) ==
    /\ id \in Known(store) /\ store[id].state \in Open
    /\ Saved([store EXCEPT ![id].expires = e])
    /\ UNCHANGED <<ingests, stopped, now>>

\* Extend takes any time, also one in the past.
Extend(id, e) ==
    /\ Change(id, store[id].state \in Open, [store[id] EXCEPT !.expires = e])
    /\ UNCHANGED <<ingests, stopped, now>>

FirstUnused(id) == id \notin Known(store) /\ \A k \in Ids \ Known(store) : id <= k

\* The file with a new approval.  The expiry is later than the time of the
\* request, which may be well before the queue gets to it.
Entered(id, i, scope, e) ==
    [Swept EXCEPT ![id] = [state |-> "pending", ident |-> i, scope |-> scope, expires |-> e]]

\* A request for ident i ends up with approval id: after the sweep, the first
\* open one of the same ident, or else a new one.
Enqueue(id, i, scope, e) ==
    IF Matching(Swept, i) # {}
    THEN id \in Matching(Swept, i) /\ (\A k \in Matching(Swept, i) : id <= k) /\ Saved(Swept)
    ELSE FirstUnused(id) /\ Saved(Entered(id, i, scope, e))

EnqueueFails(id, i, scope, e) ==
    /\ Matching(Swept, i) = {} /\ FirstUnused(id)
    /\ SaveFails(Swept, Entered(id, i, scope, e))

\* Request, RequireSLB, RequestApproval, and IngestDCG when the command needs
\* a confirmation.
Request(id, i, scope, e) ==
    /\ Enqueue(id, i, scope, e) \/ EnqueueFails(id, i, scope, e)
    /\ UNCHANGED <<ingests, stopped, now>>

\* IngestDCG for a blocked command: a request, and then a denial of its own.
IngestBlocked(id, i, scope, e) ==
    /\ i \in Blocked
    /\ Enqueue(id, i, scope, e)
    /\ ingests' = ingests \cup {id}
    /\ stopped' = stopped \cup {id}
    /\ UNCHANGED now

DenyBlocked(id) ==
    /\ id \in ingests
    /\ ingests' = ingests \ {id}
    /\ \/ Change(id, store[id].state = "pending", [store[id] EXCEPT !.state = "denied"])
       \/ id \notin Lapsed(store, now) /\ store[id].state # "pending" /\ Saved(store)
       \/ torn /\ UNCHANGED <<store, torn, faults>>
    /\ UNCHANGED <<stopped, now>>

\* The daemon restarts: only what it was in the middle of is lost.
Crash == /\ faults < MaxFaults
         /\ faults' = faults + 1
         /\ ingests' = {}
         /\ UNCHANGED <<store, torn, stopped, now>>

Advance == /\ now < MaxTime
           /\ now' = now + 1
           /\ UNCHANGED <<store, torn, ingests, stopped, faults>>

-----------------------------------------------------------------------------
Init == /\ store = [id \in Ids |-> Absent]
        /\ torn = FALSE
        /\ ingests = {}
        /\ stopped = {}
        /\ now = 0
        /\ faults = 0

Next == \/ \E id \in Ids, i \in Idents, scope \in Scopes, e \in Times \ {0} :
              Request(id, i, scope, e) \/ IngestBlocked(id, i, scope, e)
        \/ \E id \in Ids : \/ Get(id) \/ ConsumeOnce(id) \/ DenyBlocked(id)
                           \/ \E verdict \in Verdicts, scope \in Scopes : Decide(id, verdict, scope)
                           \/ \E e \in Times : Extend(id, e)
        \/ List \/ SweepFails \/ Crash \/ Advance

Spec == Init /\ [][Next]_vars

-----------------------------------------------------------------------------
\* Properties

\* Type correctness of the file.
TypeOK == /\ store \in [Ids -> Approval]
          /\ torn \in BOOLEAN
          /\ ingests \subseteq Ids /\ stopped \subseteq Ids
          /\ now \in 0 .. MaxTime
          /\ faults \in 0 .. MaxFaults

\* However requests, decisions, lapses and failed saves are interleaved, no
\* request has two open approvals: an operator never decides the same thing
\* twice, and no second approval survives the denial of the first
\* (findExistingLocked).
OneOpenApproval ==
    \A a, b \in Ids : /\ store[a].state \in Open /\ store[b].state \in Open
                     /\ store[a].ident = store[b].ident
                     => a = b

\* The queue looks at the clock only when it is asked, yet nobody can tell it
\* from one in which every approval expires at its deadline: no operation acts
\* on, extends or revives an approval that has run out.
Lifecycle == INSTANCE ApprovalLifecycle WITH
    Deadlines <- Times,
    state    <- [id \in Ids |-> IF id \in Lapsed(store, now) THEN "expired" ELSE store[id].state],
    deadline <- [id \in Ids |-> store[id].expires]

ExpiresOnTime == Lifecycle!Spec

\* A verdict by which DCG blocks a command cannot be overridden through the
\* queue (adapters/dcg/dcg.go): once IngestDCG is through with the verdict, the
\* approval it is recorded in is not, and does not become, approved.
BlockedIsDenied == \A id \in stopped \ ingests : store[id].state # "approved"
=============================================================================
